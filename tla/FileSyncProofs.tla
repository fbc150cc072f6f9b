--------------------------- MODULE FileSyncProofs ---------------------------
(* Proofs about FileSync, for any files, browsers, users and programs of   *)
(* the host, and any bounds: the types; the relay's cache converges to the *)
(* disk; what is typed stays in the view; the pages' copies converge too;  *)
(* and who only follows is shown what is on disk.                          *)
EXTENDS FileSync, FiniteSetTheorems, SequenceTheorems, TLAPS

IsSequence(s) == \E S : s \in Seq(S)

(* Messages that change the cache's entry for p, and what the last of them *)
(* carries.                                                                *)
Carries(m, p) == m.path = p /\ m.kind \notin {"file_deleted", "error"}
NoneCarries(s, p) == \A i \in DOMAIN s : ~Carries(s[i], p)
LastCarries(s, p, c) ==
    \A i \in DOMAIN s :
        Carries(s[i], p) /\ (\A j \in DOMAIN s : i < j => ~Carries(s[j], p)) => s[i].content = c

(* When the watcher has reported p, what the daemon has read of it, told   *)
(* last, or the relay has, is what is on disk.                             *)
Told(p) ==
    /\ LastCarries(fromDaemon, p, disk[p])
    /\ NoneCarries(fromDaemon, p) => cache[p] \in {None, disk[p]}
    /\ job.kind = "request_file" /\ job.path = p => job.content = disk[p]
ToldWhenSeen ==
    \A p \in Paths : Free(events, p) /\ p \notin overtaken /\ disk[p] # None => Told(p)

(* A file that was deleted, and not written since, is gone.                *)
LastDeleted(s, p) ==
    \E i \in DOMAIN s : /\ s[i].path = p /\ s[i].kind = "file_deleted"
                        /\ \A j \in DOMAIN s : i < j => s[j].path # p
DeletedIsGone == \A p \in Paths : LastDeleted(events, p) => disk[p] = None

(* The watcher reports that a file is there, or no longer there.           *)
NoErrors(s) == \A i \in DOMAIN s : s[i].kind # "error"

IsMap(f) == f = [p \in Paths |-> f[p]]
Shape ==
    /\ IsMap(disk) /\ IsMap(cache)
    /\ IsSequence(events) /\ IsSequence(fromDaemon) /\ NoErrors(events)

(* The inductive strengthening of RelayConverges.                          *)
RelayInv == Shape /\ ToldWhenSeen /\ DeletedIsGone

-----------------------------------------------------------------------------
(* Queues.                                                                 *)

LEMMA MapExcept ==
  ASSUME NEW f, IsMap(f), NEW q, NEW c
  PROVE  IsMap([f EXCEPT ![q] = c])
<1>1. DOMAIN f = Paths
  BY DEF IsMap
<1> QED
  BY <1>1 DEF IsMap

LEMMA Appended ==
  ASSUME NEW s, IsSequence(s), NEW m
  PROVE  /\ IsSequence(Append(s, m)) /\ Len(s) \in Nat /\ DOMAIN s = 1 .. Len(s)
         /\ DOMAIN Append(s, m) = 1 .. Len(s) + 1
         /\ \A i \in 1 .. Len(s) : Append(s, m)[i] = s[i]
         /\ Append(s, m)[Len(s) + 1] = m
<1>1. PICK S : s \in Seq(S)
  BY DEF IsSequence
<1> DEFINE T == S \cup {m}
<1>2. s \in Seq(T) /\ m \in T
  BY <1>1
<1> HIDE DEF T
<1>3. Append(s, m) \in Seq(T)
  BY <1>2
<1>4. IsSequence(Append(s, m))
  BY <1>3 DEF IsSequence
<1> QED
  BY <1>2, <1>3, <1>4

LEMMA Taken ==
  ASSUME NEW s, IsSequence(s), s # <<>>
  PROVE  /\ IsSequence(Tail(s)) /\ Len(s) \in Nat \ {0} /\ DOMAIN s = 1 .. Len(s)
         /\ DOMAIN Tail(s) = 1 .. Len(s) - 1 /\ Head(s) = s[1]
         /\ \A i \in 1 .. Len(s) - 1 : Tail(s)[i] = s[i + 1]
<1>1. PICK S : s \in Seq(S)
  BY DEF IsSequence
<1>2. Tail(s) \in Seq(S)
  BY <1>1
<1>3. IsSequence(Tail(s))
  BY <1>2 DEF IsSequence
<1> QED
  BY <1>1, <1>2, <1>3

LEMMA AppendCarries ==
  ASSUME NEW s, IsSequence(s), NEW m, NEW p, Carries(m, p)
  PROVE  LastCarries(Append(s, m), p, m.content) /\ ~NoneCarries(Append(s, m), p)
BY Appended DEF LastCarries, NoneCarries

LEMMA AppendOther ==
  ASSUME NEW s, IsSequence(s), NEW m, NEW p, ~Carries(m, p), NEW c
  PROVE  /\ LastCarries(s, p, c) => LastCarries(Append(s, m), p, c)
         /\ NoneCarries(Append(s, m), p) => NoneCarries(s, p)
BY Appended DEF LastCarries, NoneCarries

LEMMA TakeCarries ==
  ASSUME NEW s, IsSequence(s), s # <<>>, NEW p, NEW c, LastCarries(s, p, c)
  PROVE  /\ LastCarries(Tail(s), p, c)
         /\ NoneCarries(Tail(s), p) /\ Carries(Head(s), p) => Head(s).content = c
         /\ NoneCarries(Tail(s), p) /\ ~Carries(Head(s), p) => NoneCarries(s, p)
<1>1. /\ Len(s) \in Nat \ {0} /\ DOMAIN s = 1 .. Len(s)
      /\ DOMAIN Tail(s) = 1 .. Len(s) - 1 /\ Head(s) = s[1]
      /\ \A i \in 1 .. Len(s) - 1 : Tail(s)[i] = s[i + 1]
  BY Taken
<1>2. \A i \in DOMAIN s : i # 1 => i - 1 \in DOMAIN Tail(s) /\ s[i] = Tail(s)[i - 1]
  BY <1>1
<1>3. ASSUME NEW i \in DOMAIN Tail(s), Carries(Tail(s)[i], p),
             \A j \in DOMAIN Tail(s) : i < j => ~Carries(Tail(s)[j], p)
      PROVE  Tail(s)[i].content = c
  <2>1. i + 1 \in DOMAIN s /\ Tail(s)[i] = s[i + 1]
    BY <1>1
  <2>2. ASSUME NEW j \in DOMAIN s, i + 1 < j PROVE ~Carries(s[j], p)
    <3>1. j # 1 /\ i < j - 1
      BY <1>1, <2>2
    <3> QED
      BY <1>2, <1>3, <3>1
  <2> QED
    BY <1>3, <2>1, <2>2 DEF LastCarries
<1>4. ASSUME NoneCarries(Tail(s), p), NEW j \in DOMAIN s, 1 < j
      PROVE  ~Carries(s[j], p)
  <2>1. j - 1 \in DOMAIN Tail(s) /\ s[j] = Tail(s)[j - 1]
    BY <1>1, <1>2, <1>4
  <2> QED
    BY <1>4, <2>1 DEF NoneCarries
<1>5. NoneCarries(Tail(s), p) /\ Carries(Head(s), p) => Head(s).content = c
  BY <1>1, <1>4 DEF LastCarries
<1>6. NoneCarries(Tail(s), p) /\ ~Carries(Head(s), p) => NoneCarries(s, p)
  BY <1>1, <1>4 DEF NoneCarries
<1> QED
  BY <1>3, <1>5, <1>6 DEF LastCarries

LEMMA AppendEvent ==
  ASSUME NEW s, IsSequence(s), NEW m, NEW p
  PROVE  /\ Free(Append(s, m), p) => Free(s, p) /\ m.path # p
         /\ LastDeleted(Append(s, m), p) =>
               IF m.path = p THEN m.kind = "file_deleted" ELSE LastDeleted(s, p)
BY Appended DEF Free, Concerns, LastDeleted

LEMMA TakeEvent ==
  ASSUME NEW s, IsSequence(s), s # <<>>, NEW p
  PROVE  /\ Free(Tail(s), p) /\ Head(s).path # p => Free(s, p)
         /\ Free(Tail(s), p) /\ Head(s).path = p /\ Head(s).kind = "file_deleted"
               => LastDeleted(s, p)
         /\ LastDeleted(Tail(s), p) => LastDeleted(s, p)
<1>1. /\ Len(s) \in Nat \ {0} /\ DOMAIN s = 1 .. Len(s)
      /\ DOMAIN Tail(s) = 1 .. Len(s) - 1 /\ Head(s) = s[1]
      /\ \A i \in 1 .. Len(s) - 1 : Tail(s)[i] = s[i + 1]
  BY Taken
<1>2. \A i \in DOMAIN s : i # 1 => i - 1 \in DOMAIN Tail(s) /\ s[i] = Tail(s)[i - 1]
  BY <1>1
<1>3. ASSUME Free(Tail(s), p), NEW j \in DOMAIN s, 1 < j
      PROVE  s[j].path # p
  <2>1. j - 1 \in DOMAIN Tail(s) /\ s[j] = Tail(s)[j - 1]
    BY <1>1, <1>2, <1>3
  <2> QED
    BY <1>3, <2>1 DEF Free, Concerns
<1>4. Free(Tail(s), p) /\ Head(s).path # p => Free(s, p)
  BY <1>1, <1>3 DEF Free, Concerns
<1>5. Free(Tail(s), p) /\ Head(s).path = p /\ Head(s).kind = "file_deleted" => LastDeleted(s, p)
  BY <1>1, <1>3 DEF LastDeleted
<1>6. ASSUME LastDeleted(Tail(s), p) PROVE LastDeleted(s, p)
  <2>1. PICK i \in DOMAIN Tail(s) :
          /\ Tail(s)[i].path = p /\ Tail(s)[i].kind = "file_deleted"
          /\ \A j \in DOMAIN Tail(s) : i < j => Tail(s)[j].path # p
    BY <1>6 DEF LastDeleted
  <2>2. i + 1 \in DOMAIN s /\ Tail(s)[i] = s[i + 1]
    BY <1>1
  <2>3. ASSUME NEW j \in DOMAIN s, i + 1 < j PROVE s[j].path # p
    <3>1. j # 1 /\ i < j - 1
      BY <1>1, <2>3
    <3> QED
      BY <1>2, <2>1, <3>1
  <2> QED
    BY <2>1, <2>2, <2>3 DEF LastDeleted
<1> QED
  BY <1>4, <1>5, <1>6

-----------------------------------------------------------------------------
(* What one file's part of the invariant needs of a step.                  *)

KeptFor(p) ==
    /\ Free(events, p) /\ p \notin overtaken /\ disk[p] # None => Told(p)
    /\ LastDeleted(events, p) => disk[p] = None

LEMMA KeptForAll == ToldWhenSeen /\ DeletedIsGone <=> \A p \in Paths : KeptFor(p)
BY DEF ToldWhenSeen, DeletedIsGone, KeptFor

(* Users, pages and the relay's handlers of browsers do nothing to it.     *)
LEMMA BrowserSteps ==
  ASSUME RelayInv, UNCHANGED <<disk, cache, events, fromDaemon, job, overtaken>>
  PROVE  RelayInv'
BY DEF RelayInv, Shape, ToldWhenSeen, DeletedIsGone, Told

(* The file is written, or goes: the watcher has an event for it.          *)
LEMMA WriteSteps ==
  ASSUME RelayInv, NEW q, NEW m, m.path = q, m.kind # "error", NEW c,
         disk' = [disk EXCEPT ![q] = c], events' = Append(events, m),
         m.kind = "file_deleted" => c = None,
         job'.kind = "request_file" => job' = job,
         UNCHANGED <<cache, fromDaemon, overtaken>>
  PROVE  RelayInv'
<1>1. /\ IsMap(disk) /\ IsMap(cache)
      /\ IsSequence(fromDaemon) /\ IsSequence(events) /\ NoErrors(events)
  BY DEF RelayInv, Shape
<1>2. IsSequence(events') /\ NoErrors(events')
  BY <1>1, Appended DEF NoErrors
<1>3. IsMap(disk')
  BY <1>1, MapExcept
<1>4. Shape'
  BY <1>1, <1>2, <1>3 DEF Shape
<1>5. ASSUME NEW p \in Paths PROVE KeptFor(p)'
  <2>1. disk'[p] = IF p = q THEN c ELSE disk[p]
    <3>1. p \in DOMAIN disk
      BY <1>1 DEF IsMap
    <3> QED
      BY <3>1
  <2>2. KeptFor(p)
    BY KeptForAll DEF RelayInv
  <2>3. Free(events', p) => Free(events, p) /\ p # q
    BY <1>1, AppendEvent
  <2>4. LastDeleted(events', p) => IF p = q THEN m.kind = "file_deleted" ELSE LastDeleted(events, p)
    BY <1>1, AppendEvent
  <2> QED
    BY <2>1, <2>2, <2>3, <2>4 DEF KeptFor, Told
<1> QED
  BY <1>4, <1>5 DEF RelayInv, ToldWhenSeen, DeletedIsGone, KeptFor

LEMMA ReadFileStep ==
  ASSUME RelayInv, ReadFile
  PROVE  RelayInv'
<1> DEFINE q == Head(toDaemon).path
<1>1. UNCHANGED <<disk, events, cache, overtaken>> /\ job = Idle
  BY DEF ReadFile, relayVars
<1>2. \/ disk[q] = None /\ fromDaemon' = Append(fromDaemon, Msg("error", q, None)) /\ job' = job
      \/ job' = Msg("request_file", q, disk[q]) /\ fromDaemon' = fromDaemon
  BY DEF ReadFile
<1> HIDE DEF q
<1>3. IsSequence(fromDaemon) /\ Shape'
  <2>1. /\ IsMap(disk) /\ IsMap(cache)
        /\ IsSequence(fromDaemon) /\ IsSequence(events) /\ NoErrors(events)
    BY DEF RelayInv, Shape
  <2>2. IsSequence(fromDaemon')
    <3>1. IsSequence(Append(fromDaemon, Msg("error", q, None)))
      BY <2>1, Appended
    <3> QED
      BY <1>2, <2>1, <3>1
  <2> QED
    BY <1>1, <2>1, <2>2 DEF Shape
<1>4. ASSUME NEW p \in Paths PROVE KeptFor(p)'
  <2>1. KeptFor(p)
    BY KeptForAll DEF RelayInv
  <2>2. CASE fromDaemon' = Append(fromDaemon, Msg("error", q, None)) /\ job' = job
    <3>1. ~Carries(Msg("error", q, None), p)
      BY DEF Carries, Msg
    <3>2. /\ LastCarries(fromDaemon, p, disk[p]) => LastCarries(fromDaemon', p, disk[p])
          /\ NoneCarries(fromDaemon', p) => NoneCarries(fromDaemon, p)
      BY <1>3, <2>2, <3>1, AppendOther
    <3> QED
      BY <1>1, <2>1, <2>2, <3>2 DEF KeptFor, Told
  <2>3. CASE job' = Msg("request_file", q, disk[q]) /\ fromDaemon' = fromDaemon
    BY <1>1, <2>1, <2>3 DEF KeptFor, Told, Msg
  <2> QED
    BY <1>2, <2>2, <2>3
<1> QED
  BY <1>3, <1>4 DEF RelayInv, ToldWhenSeen, DeletedIsGone, KeptFor

LEMMA SendContentStep ==
  ASSUME RelayInv, SendContent
  PROVE  RelayInv'
<1> DEFINE m == Msg("file_content", job.path, job.content)
<1>1. /\ UNCHANGED <<disk, events, cache, overtaken>> /\ job.kind = "request_file" /\ job' = Idle
      /\ fromDaemon' = Append(fromDaemon, m)
  BY DEF SendContent, relayVars
<1>2. IsSequence(fromDaemon) /\ Shape'
  <2>1. /\ IsMap(disk) /\ IsMap(cache)
        /\ IsSequence(fromDaemon) /\ IsSequence(events) /\ NoErrors(events)
    BY DEF RelayInv, Shape
  <2>2. IsSequence(fromDaemon')
    BY <1>1, <2>1, Appended
  <2> QED
    BY <1>1, <2>1, <2>2 DEF Shape
<1>3. ASSUME NEW p \in Paths PROVE KeptFor(p)'
  <2>1. KeptFor(p) /\ job'.kind # "request_file"
    BY <1>1, KeptForAll DEF RelayInv, Idle
  <2>2. CASE job.path = p
    <3>1. Carries(m, p) /\ m.content = job.content
      BY <2>2 DEF Carries, Msg
    <3>2. LastCarries(fromDaemon', p, job.content) /\ ~NoneCarries(fromDaemon', p)
      BY <1>1, <1>2, <3>1, AppendCarries
    <3> QED
      BY <1>1, <2>1, <2>2, <3>2 DEF KeptFor, Told
  <2>3. CASE job.path # p
    <3>1. ~Carries(m, p)
      BY <2>3 DEF Carries, Msg
    <3>2. /\ LastCarries(fromDaemon, p, disk[p]) => LastCarries(fromDaemon', p, disk[p])
          /\ NoneCarries(fromDaemon', p) => NoneCarries(fromDaemon, p)
      BY <1>1, <1>2, <3>1, AppendOther
    <3> QED
      BY <1>1, <2>1, <3>2 DEF KeptFor, Told
  <2> QED
    BY <2>2, <2>3
<1> QED
  BY <1>2, <1>3 DEF RelayInv, ToldWhenSeen, DeletedIsGone, KeptFor

(* The main loop reads the file that an event is about.                    *)
LEMMA EventStep ==
  ASSUME RelayInv, HandleFSEvent
  PROVE  RelayInv'
<1> DEFINE e == Head(events)
           m == Msg(e.kind, e.path, IF e.kind = "file_deleted" THEN None ELSE disk[e.path])
<1>1. /\ events # <<>> /\ events' = Tail(events) /\ UNCHANGED <<disk, job, cache>>
      /\ overtaken \subseteq overtaken'
  BY DEF HandleFSEvent, relayVars
<1>2. \/ e.kind # "file_deleted" /\ disk[e.path] = None /\ fromDaemon' = fromDaemon
      \/ /\ fromDaemon' = Append(fromDaemon, m)
         /\ Overtakes(e.path) => e.path \in overtaken'
  BY DEF HandleFSEvent
<1>3. IsSequence(fromDaemon) /\ IsSequence(events) /\ Shape'
  <2>1. /\ IsMap(disk) /\ IsMap(cache)
        /\ IsSequence(fromDaemon) /\ IsSequence(events) /\ NoErrors(events)
    BY DEF RelayInv, Shape
  <2>2. IsSequence(fromDaemon')
    <3>1. IsSequence(Append(fromDaemon, m))
      BY <2>1, Appended
    <3> QED
      BY <1>2, <2>1, <3>1
  <2>3. IsSequence(events') /\ NoErrors(events')
    BY <1>1, <2>1, Taken DEF NoErrors
  <2> QED
    BY <1>1, <2>1, <2>2, <2>3 DEF Shape
<1>4. /\ m.path = e.path /\ m.kind = e.kind
      /\ e.kind # "file_deleted" => m.content = disk[e.path]
  BY DEF Msg
<1> HIDE DEF e, m
<1>5. ASSUME NEW p \in Paths PROVE KeptFor(p)'
  <2>1. KeptFor(p) /\ (LastDeleted(events', p) => LastDeleted(events, p))
    BY <1>1, <1>3, KeptForAll, TakeEvent DEF RelayInv
  <2>2. CASE e.path # p
    <3>1. Free(events', p) => Free(events, p)
      BY <1>1, <1>3, <2>2, TakeEvent DEF e
    <3>2. ~Carries(m, p)
      BY <1>4, <2>2 DEF Carries
    <3>3. /\ LastCarries(fromDaemon, p, disk[p]) => LastCarries(fromDaemon', p, disk[p])
          /\ NoneCarries(fromDaemon', p) => NoneCarries(fromDaemon, p)
      BY <1>2, <1>3, <3>2, AppendOther
    <3> QED
      BY <1>1, <2>1, <3>1, <3>3 DEF KeptFor, Told
  <2>3. CASE e.path = p
    <3> SUFFICES ASSUME Free(events', p), p \notin overtaken', disk[p] # None
                 PROVE  Told(p)'
      BY <1>1, <2>1 DEF KeptFor
    <3>1. e.kind # "file_deleted"
      BY <1>1, <1>3, <2>1, <2>3, TakeEvent DEF KeptFor, e
    <3>2. fromDaemon' = Append(fromDaemon, m) /\ ~Overtakes(p)
      BY <1>2, <2>3
    <3>3. e.kind # "error"
      BY <1>1, <1>3, Taken DEF RelayInv, Shape, NoErrors, e
    <3>4. Carries(m, p) /\ m.content = disk[p]
      BY <1>4, <2>3, <3>1, <3>3 DEF Carries
    <3>5. LastCarries(fromDaemon', p, disk[p]) /\ ~NoneCarries(fromDaemon', p)
      BY <1>3, <3>2, <3>4, AppendCarries
    <3> QED
      BY <1>1, <3>2, <3>5 DEF Told, Overtakes
  <2> QED
    BY <2>2, <2>3
<1> QED
  BY <1>3, <1>5 DEF RelayInv, ToldWhenSeen, DeletedIsGone, KeptFor

(* The relay takes what it is told, in the order in which it was sent.     *)
LEMMA RelayStepKeeps ==
  ASSUME RelayInv, RelayFromDaemon
  PROVE  RelayInv'
<1> DEFINE m == Head(fromDaemon)
<1>1. /\ fromDaemon # <<>> /\ fromDaemon' = Tail(fromDaemon)
      /\ UNCHANGED <<disk, job, events, overtaken>>
  BY DEF RelayFromDaemon, daemonVars
<1>2. \/ /\ m.kind \notin {"file_deleted", "error"}
         /\ cache' = [cache EXCEPT ![m.path] = m.content]
      \/ m.kind \in {"file_deleted", "error"} /\ cache' = cache
  BY DEF RelayFromDaemon, RelayContent, RelayChange, RelayDelete, RelayError, Cached, relayVars
<1> HIDE DEF m
<1>3. IsSequence(fromDaemon) /\ Shape'
  <2>1. /\ IsMap(disk) /\ IsMap(cache)
        /\ IsSequence(fromDaemon) /\ IsSequence(events) /\ NoErrors(events)
    BY DEF RelayInv, Shape
  <2>2. IsSequence(fromDaemon')
    BY <1>1, <2>1, Taken
  <2>3. IsMap(cache')
    BY <1>2, <2>1, MapExcept
  <2> QED
    BY <1>1, <2>1, <2>2, <2>3 DEF Shape
<1>4. ASSUME NEW p \in Paths PROVE KeptFor(p)'
  <2>1. KeptFor(p)
    BY KeptForAll DEF RelayInv
  <2>2. cache'[p] = IF Carries(m, p) THEN m.content ELSE cache[p]
    <3>1. p \in DOMAIN cache
      BY DEF RelayInv, Shape, IsMap
    <3>2. [cache EXCEPT ![m.path] = m.content][p] = IF p = m.path THEN m.content ELSE cache[p]
      BY <3>1
    <3>3. CASE m.kind \notin {"file_deleted", "error"}
      BY <1>2, <3>2, <3>3 DEF Carries
    <3>4. CASE m.kind \in {"file_deleted", "error"}
      BY <1>2, <3>4 DEF Carries
    <3> QED
      BY <3>3, <3>4
  <2> SUFFICES ASSUME Free(events, p), p \notin overtaken, disk[p] # None
               PROVE  Told(p)'
    BY <1>1, <2>1 DEF KeptFor
  <2>3. Told(p)
    BY <2>1 DEF KeptFor
  <2>4. /\ LastCarries(Tail(fromDaemon), p, disk[p])
        /\ NoneCarries(Tail(fromDaemon), p) /\ Carries(m, p) => m.content = disk[p]
        /\ NoneCarries(Tail(fromDaemon), p) /\ ~Carries(m, p) => NoneCarries(fromDaemon, p)
    BY <1>1, <1>3, <2>3, TakeCarries DEF Told, m
  <2> QED
    BY <1>1, <2>2, <2>3, <2>4 DEF Told
<1> QED
  BY <1>3, <1>4 DEF RelayInv, ToldWhenSeen, DeletedIsGone, KeptFor

-----------------------------------------------------------------------------
(* The invariant.                                                          *)

LEMMA RelayInvInit == Init => RelayInv
<1> SUFFICES ASSUME Init PROVE RelayInv
  OBVIOUS
<1>1. /\ disk = [p \in Paths |-> <<p, 0>>] /\ events = <<>> /\ fromDaemon = <<>> /\ job = Idle
      /\ cache = [p \in Paths |-> IF \E b \in Browsers : p \in Opened[b]
                                  THEN <<p, 0>> ELSE None]
  BY DEF Init
<1>2. <<>> \in Seq({}) /\ DOMAIN <<>> = {}
  OBVIOUS
<1>3. Shape
  BY <1>1, <1>2 DEF Shape, IsMap, IsSequence, NoErrors
<1>4. ToldWhenSeen
  BY <1>1, <1>2 DEF ToldWhenSeen, Told, LastCarries, NoneCarries, Idle
<1>5. DeletedIsGone
  BY <1>1, <1>2 DEF DeletedIsGone, LastDeleted
<1> QED
  BY <1>3, <1>4, <1>5 DEF RelayInv

LEMMA BrowserNext ==
  ASSUME NEW b \in Browsers,
         \/ \E n \in Names : Click(b, n) \/ Close(b, n)
         \/ Type(b) \/ PressSave(b) \/ PressOverwrite(b) \/ PressReload(b)
         \/ SendSave(b) \/ Receive(b) \/ RelayStep(b)
  PROVE  UNCHANGED <<disk, cache, events, fromDaemon, job, overtaken>>
<1>1. CASE \E n \in Names : Click(b, n)
  BY <1>1 DEF Click, daemonVars, relayVars
<1>2. CASE \E n \in Names : Close(b, n)
  BY <1>2 DEF Close, PageOnly, daemonVars, relayVars
<1>3. CASE Type(b)
  BY <1>3 DEF Type, daemonVars, relayVars
<1>4. CASE PressSave(b) \/ PressOverwrite(b) \/ PressReload(b)
  BY <1>4 DEF PressSave, PressOverwrite, PressReload, PageOnly, daemonVars, relayVars
<1>5. CASE SendSave(b)
  BY <1>5 DEF SendSave, daemonVars, relayVars
<1>6. CASE Receive(b)
  BY <1>6 DEF Receive, daemonVars, relayVars
<1>7. CASE RelayStep(b)
  BY <1>7 DEF RelayStep, RelayOpen, RelaySave, daemonVars, relayVars
<1> QED
  BY <1>1, <1>2, <1>3, <1>4, <1>5, <1>6, <1>7

LEMMA RelayInvNext == RelayInv /\ [Next]_vars => RelayInv'
<1> SUFFICES ASSUME RelayInv, [Next]_vars PROVE RelayInv'
  OBVIOUS
<1>1. CASE UNCHANGED vars
  BY <1>1, BrowserSteps DEF vars, daemonVars, relayVars
<1>2. ASSUME NEW b \in Browsers,
             \/ \E n \in Names : Click(b, n) \/ Close(b, n)
             \/ Type(b) \/ PressSave(b) \/ PressOverwrite(b) \/ PressReload(b)
             \/ SendSave(b) \/ Receive(b) \/ RelayStep(b)
      PROVE  RelayInv'
  BY <1>2, BrowserNext, BrowserSteps
<1>3. CASE RelayFromDaemon
  BY <1>3, RelayStepKeeps
<1>4. CASE ReadFile \/ SendContent
  BY <1>4, ReadFileStep, SendContentStep
<1>5. CASE TruncateFile
  <2> DEFINE q == Head(toDaemon).path
             m == Msg(IF disk[q] = None THEN "file_created" ELSE "file_changed", q, None)
  <2>1. /\ disk' = [disk EXCEPT ![q] = Blank] /\ events' = Append(events, m)
        /\ job'.kind # "request_file" /\ UNCHANGED <<cache, fromDaemon, overtaken>>
    BY <1>5 DEF TruncateFile, relayVars
  <2>2. m.path = q /\ m.kind \notin {"error", "file_deleted"}
    BY DEF Msg
  <2> QED
    BY <2>1, <2>2, WriteSteps
<1>6. CASE WriteFile
  <2>1. /\ disk' = [disk EXCEPT ![job.path] = job.content]
        /\ events' = Append(events, Msg("file_changed", job.path, None))
        /\ job'.kind # "request_file" /\ UNCHANGED <<cache, fromDaemon, overtaken>>
    BY <1>6 DEF WriteFile, relayVars, Idle
  <2>2. LET m == Msg("file_changed", job.path, None)
        IN  m.path = job.path /\ m.kind \notin {"error", "file_deleted"}
    BY DEF Msg
  <2> QED
    BY <2>1, <2>2, WriteSteps
<1>7. CASE HandleFSEvent
  BY <1>7, EventStep
<1>8. ASSUME NEW q \in Paths, NEW kind \in Edits, Edit(q, kind) PROVE RelayInv'
  <2> DEFINE m == Msg(CASE kind = "write" -> "file_changed"
                        [] kind = "replace" -> "file_created"
                        [] kind = "delete" -> "file_deleted", q, None)
             c == IF kind = "delete" THEN None ELSE <<q, texts'>>
  <2>1. /\ disk' = [disk EXCEPT ![q] = c] /\ events' = Append(events, m)
        /\ UNCHANGED <<job, cache, fromDaemon, overtaken>>
    BY <1>8 DEF Edit, relayVars
  <2>2. kind \in {"write", "replace", "delete"}
    BY InputAssumption
  <2>3. m.path = q /\ m.kind # "error" /\ (m.kind = "file_deleted" => c = None)
    BY <2>2 DEF Msg
  <2> HIDE DEF m, c
  <2> QED
    BY <2>1, <2>3, WriteSteps
<1> QED
  BY <1>1, <1>2, <1>3, <1>4, <1>5, <1>6, <1>7, <1>8 DEF Next, DaemonStep

LEMMA RelayInvConverges == RelayInv => RelayConverges
<1> SUFFICES ASSUME RelayInv, NEW p \in Paths, Reported(p), p \notin overtaken,
                    cache[p] # None, disk[p] # None
             PROVE  cache[p] = disk[p]
  BY DEF RelayConverges
<1>1. Told(p)
  BY DEF RelayInv, ToldWhenSeen, Reported
<1>2. NoneCarries(fromDaemon, p)
  BY DEF Reported, Free, Concerns, NoneCarries, Carries
<1> QED
  BY <1>1, <1>2 DEF Told

(* Once what happened to a file is reported, the hash that decides about   *)
(* saves is that of the file on disk, but for an answer that was overtaken *)
(* (handleDaemon, handleFSEvent): for any files, browsers, users, programs *)
(* of the host, and any number of texts, saves and requests.               *)
THEOREM RelayAlwaysConverges == Spec => []RelayConverges
<1>1. Init => RelayInv
  BY RelayInvInit
<1>2. RelayInv /\ [Next]_vars => RelayInv'
  BY RelayInvNext
<1>3. RelayInv => RelayConverges
  BY RelayInvConverges
<1> QED
  BY <1>1, <1>2, <1>3, PTL DEF Spec

-----------------------------------------------------------------------------
(* Types.                                                                  *)

Distinct(s) == \A i, j \in DOMAIN s : s[i] = s[j] => i = j
Banners == {NoBanner} \cup [path : Names, content : Contents]
Pages == [pathMap : SUBSET Paths,
          openFiles : [Names -> Contents \cup {None}],
          fileHashes : [Names -> Contents \cup {None}],
          activeFile : Names \cup {None}, tabs : {s \in Seq(Names) : Distinct(s)},
          currentPath : Names \cup {None}, view : Contents,
          fileStates : [Names -> Contents \cup {None}],
          banner : Banners, saving : Contents \cup {None}]

(* Messages: a content is carried by some, and no other carries one.       *)
Carrying(kinds) == [kind : kinds, path : Paths, content : Contents]
Bare(kinds) == [kind : kinds, path : Paths, content : {None}]
Saving == [kind : {"save_file"}, path : Paths, content : Contents, base : Contents \cup {None}]
Changes == {"file_created", "file_changed"}
Events == Bare(Changes \cup {"file_deleted"})
Jobs == {Idle} \cup Carrying({"request_file", "write_file"})
Orders == Bare({"request_file"}) \cup Carrying({"write_file"})
Reports == Bare({"file_deleted", "error"}) \cup Carrying(Changes \cup {"file_content"})
Asked == Bare({"open_file"}) \cup Saving
Answers == Bare({"file_deleted"}) \cup Carrying(Changes \cup {"file_content", "save_rejected"})

DiskTyped == /\ disk \in [Paths -> Contents \cup {None}] /\ texts \in 0 .. MaxTexts
             /\ events \in Seq(Events) /\ job \in Jobs
RelayTyped == /\ toDaemon \in Seq(Orders) /\ fromDaemon \in Seq(Reports)
              /\ cache \in [Paths -> Contents \cup {None}]
              /\ pendingFiles \in [Paths -> Browsers \cup {None}]
              /\ up \in [Browsers -> Seq(Asked)] /\ down \in [Browsers -> Seq(Answers)]
PagesTyped == /\ page \in [Browsers -> Pages]
              /\ saves \in [Browsers -> 0 .. MaxSaves] /\ asks \in [Browsers -> 0 .. MaxAsks]
              /\ \A b \in Browsers : page[b].saving # None => saves[b] < MaxSaves
              /\ overtaken \subseteq Paths /\ conflicted \subseteq Browsers

(* The inductive strengthening of TypeOK: what shows or is written is      *)
(* never None, and a save that is not sent yet is counted.                 *)
Typed == DiskTyped /\ RelayTyped /\ PagesTyped

LEMMA NamesFinite == IsFiniteSet(Names) /\ Cardinality(Names) \in Nat
<1> DEFINE R == {Raw(p) : p \in Paths}
           f == [p \in Paths |-> Raw(p)]
<1>1. f \in Surjection(Paths, R)
  BY DEF Surjection
<1>2. IsFiniteSet(R)
  BY <1>1, NamesAssumption, FS_Surjection
<1>3. IsFiniteSet(Paths \cup R)
  BY <1>2, NamesAssumption, FS_Union
<1> QED
  BY <1>3, FS_CardinalityType DEF Names

LEMMA Token == \A n \in Names : ToPathToken(n) \in Paths
BY NamesAssumption DEF Names, ToPathToken, Raw

LEMMA TokenOf == \A p \in Paths : ToPathToken(p) = p /\ ToPathToken(Raw(p)) = p
BY NamesAssumption DEF ToPathToken, Raw

LEMMA NameOf == ASSUME NEW pg, NEW p \in Paths PROVE FromPathToken(pg, p) \in Names
BY DEF FromPathToken, Names

(* Distinct tabs are no more than the names.                               *)
LEMMA FewTabs ==
  ASSUME NEW s \in Seq(Names), Distinct(s)
  PROVE  s \in UNION {[1 .. k -> Names] : k \in 0 .. Cardinality(Names)}
<1>1. Len(s) \in Nat /\ s \in [1 .. Len(s) -> Names]
  OBVIOUS
<1>2. s \in Injection(1 .. Len(s), Names)
  BY <1>1 DEF Injection, Distinct, IsInjective
<1>3. Cardinality(1 .. Len(s)) <= Cardinality(Names)
  BY <1>2, NamesFinite, FS_Injection
<1>4. Cardinality(1 .. Len(s)) = Len(s)
  BY <1>1, FS_Interval
<1>5. Len(s) \in 0 .. Cardinality(Names)
  BY <1>1, <1>3, <1>4, NamesFinite
<1> QED
  BY <1>1, <1>5

LEMMA PagesFit ==
  ASSUME NEW pg \in Pages
  PROVE  /\ pg \in PageType(Contents)
         /\ \A i, j \in DOMAIN pg.tabs : pg.tabs[i] = pg.tabs[j] => i = j
<1>1. pg.tabs \in Seq(Names) /\ Distinct(pg.tabs)
  BY DEF Pages
<1>2. pg.tabs \in UNION {[1 .. k -> Names] : k \in 0 .. Cardinality(Names)}
  BY <1>1, FewTabs
<1>3. pg.banner \in [path : Names \cup {None}, content : Contents \cup {None}]
  BY DEF Pages, Banners, NoBanner
<1>4. pg \in PageType(Contents)
  <2> DEFINE T == UNION {[1 .. k -> Names] : k \in 0 .. Cardinality(Names)}
             B == [path : Names \cup {None}, content : Contents \cup {None}]
  <2>1. pg.tabs \in T /\ pg.banner \in B
    BY <1>2, <1>3
  <2> HIDE DEF T, B
  <2>2. pg \in [pathMap : SUBSET Paths,
                openFiles : [Names -> Contents \cup {None}],
                fileHashes : [Names -> Contents \cup {None}],
                activeFile : Names \cup {None}, tabs : T,
                currentPath : Names \cup {None}, view : Contents,
                fileStates : [Names -> Contents \cup {None}],
                banner : B, saving : Contents \cup {None}]
    BY <2>1 DEF Pages
  <2> QED
    BY <2>2 DEF PageType, T, B
<1> QED
  BY <1>1, <1>4 DEF Distinct

LEMMA Element ==
  ASSUME NEW S, NEW s \in Seq(S), NEW i \in DOMAIN s
  PROVE  s[i] \in S
OBVIOUS

LEMMA AllAre ==
  ASSUME NEW S, NEW s \in Seq(S), NEW kinds, \A m \in S : IsMsg(m, kinds)
  PROVE  AllOf(s, kinds)
BY Element DEF AllOf

LEMMA TypedFits == Typed => TypeOK
<1> SUFFICES ASSUME Typed PROVE TypeOK
  OBVIOUS
<1>1. \A b \in Browsers :
         /\ page[b] \in PageType(Contents)
         /\ \A i, j \in DOMAIN page[b].tabs : page[b].tabs[i] = page[b].tabs[j] => i = j
  BY PagesFit DEF Typed, PagesTyped
<1>2. AllOf(events, {"file_created", "file_changed", "file_deleted"})
  <2>1. \A m \in Events : IsMsg(m, {"file_created", "file_changed", "file_deleted"})
    BY DEF Events, Bare, Changes, IsMsg
  <2> QED
    BY <2>1, AllAre DEF Typed, DiskTyped
<1>3. job = Idle \/ IsMsg(job, {"request_file", "write_file"})
  BY DEF Typed, DiskTyped, Jobs, Carrying, IsMsg
<1>4. AllOf(toDaemon, {"request_file", "write_file"})
  <2>1. \A m \in Orders : IsMsg(m, {"request_file", "write_file"})
    BY DEF Orders, Bare, Carrying, IsMsg
  <2> QED
    BY <2>1, AllAre DEF Typed, RelayTyped
<1>5. AllOf(fromDaemon, {"file_content", "file_created", "file_changed", "file_deleted", "error"})
  <2>1. \A m \in Reports : IsMsg(m, {"file_content", "file_created", "file_changed",
                                      "file_deleted", "error"})
    BY DEF Reports, Bare, Carrying, Changes, IsMsg
  <2> QED
    BY <2>1, AllAre DEF Typed, RelayTyped
<1>6. ASSUME NEW b \in Browsers PROVE AllOf(up[b], {"open_file", "save_file"})
  <2>1. up[b] \in Seq(Asked)
    BY DEF Typed, RelayTyped
  <2>2. \A m \in Asked : IsMsg(m, {"open_file", "save_file"})
    BY DEF Asked, Bare, Saving, IsMsg
  <2> QED
    BY <2>1, <2>2, AllAre
<1>7. ASSUME NEW b \in Browsers
      PROVE  AllOf(down[b], {"file_content", "file_created", "file_changed", "file_deleted",
                             "save_rejected"})
  <2>1. down[b] \in Seq(Answers)
    BY DEF Typed, RelayTyped
  <2>2. \A m \in Answers : IsMsg(m, {"file_content", "file_created", "file_changed",
                                      "file_deleted", "save_rejected"})
    BY DEF Answers, Bare, Carrying, Changes, IsMsg
  <2> QED
    BY <2>1, <2>2, AllAre
<1>8. DOMAIN up = Browsers /\ DOMAIN down = Browsers
  BY DEF Typed, RelayTyped
<1> QED
  BY <1>1, <1>2, <1>3, <1>4, <1>5, <1>6, <1>7, <1>8
     DEF TypeOK, Typed, DiskTyped, RelayTyped, PagesTyped

-----------------------------------------------------------------------------
(* What each operator of a page makes of it.                               *)

InTabs(s, n) == \E i \in DOMAIN s : s[i] = n
Tabs == {s \in Seq(Names) : Distinct(s)}

LEMMA TabAdded ==
  ASSUME NEW s \in Tabs, NEW n \in Names, ~InTabs(s, n)
  PROVE  /\ Append(s, n) \in Tabs
         /\ \A m : InTabs(Append(s, n), m) <=> InTabs(s, m) \/ m = n
<1>1. /\ s \in Seq(Names) /\ Len(s) \in Nat /\ DOMAIN s = 1 .. Len(s)
      /\ Append(s, n) \in Seq(Names) /\ DOMAIN Append(s, n) = 1 .. Len(s) + 1
      /\ \A i \in 1 .. Len(s) : Append(s, n)[i] = s[i]
      /\ Append(s, n)[Len(s) + 1] = n
  BY DEF Tabs
<1>2. Distinct(Append(s, n))
  BY <1>1 DEF Tabs, Distinct, InTabs
<1>3. \A m : InTabs(Append(s, n), m) => InTabs(s, m) \/ m = n
  BY <1>1 DEF InTabs
<1>4. InTabs(Append(s, n), n)
  BY <1>1 DEF InTabs
<1>5. \A m : InTabs(s, m) => InTabs(Append(s, n), m)
  BY <1>1 DEF InTabs
<1> QED
  BY <1>1, <1>2, <1>3, <1>4, <1>5 DEF Tabs

LEMMA TabRemoved ==
  ASSUME NEW s \in Tabs, NEW n
  PROVE  /\ RemoveFirst(s, n) \in Tabs
         /\ \A m : InTabs(RemoveFirst(s, n), m) <=> InTabs(s, m) /\ m # n
<1>1. s \in Seq(Names) /\ Len(s) \in Nat /\ DOMAIN s = 1 .. Len(s) /\ Distinct(s)
  BY DEF Tabs
<1>2. CASE ~InTabs(s, n)
  BY <1>1, <1>2 DEF RemoveFirst, InTabs
<1>3. CASE InTabs(s, n)
  <2>1. PICK k \in 1 .. Len(s) : s[k] = n
    BY <1>1, <1>3 DEF InTabs
  <2>2. {i \in 1 .. Len(s) : s[i] = n} = {k}
    BY <1>1, <2>1 DEF Distinct
  <2>3. SelectInSeq(s, LAMBDA v : v = n) = k
    BY <2>1, <2>2 DEF SelectInSeq, Min
  <2>4. RemoveFirst(s, n) = SubSeq(s, 1, k - 1) \o SubSeq(s, k + 1, Len(s))
    BY <2>1, <2>3 DEF RemoveFirst, RemoveAt
  <2> DEFINE r == SubSeq(s, 1, k - 1) \o SubSeq(s, k + 1, Len(s))
  <2>5. /\ r \in Seq(Names) /\ Len(r) = Len(s) - 1 /\ DOMAIN r = 1 .. Len(s) - 1
        /\ \A i \in 1 .. Len(s) - 1 : r[i] = IF i < k THEN s[i] ELSE s[i + 1]
    <3> DEFINE a == SubSeq(s, 1, k - 1)
               z == SubSeq(s, k + 1, Len(s))
    <3>1. /\ a \in Seq(Names) /\ Len(a) = k - 1
          /\ \A i \in 1 .. k - 1 : a[i] = s[i]
      <4>2. 1 \in Int /\ k - 1 \in Int /\ \A i \in 1 .. k - 1 : s[i] \in Names
        BY <1>1, <2>1
      <4>1. /\ a \in Seq(Names) /\ Len(a) = IF 1 <= k - 1 THEN (k - 1) - 1 + 1 ELSE 0
            /\ \A i \in 1 .. (k - 1) - 1 + 1 : a[i] = s[1 + i - 1]
        BY <4>2, SubSeqProperties
      <4> QED
        BY <1>1, <2>1, <4>1
    <3>2. /\ z \in Seq(Names) /\ Len(z) = Len(s) - k
          /\ \A i \in 1 .. Len(s) - k : z[i] = s[i + k]
      <4>1. /\ k + 1 \in Int /\ Len(s) \in Int
            /\ \A i \in k + 1 .. Len(s) : s[i] \in Names
        BY <1>1, <2>1
      <4>2. /\ z \in Seq(Names)
            /\ Len(z) = IF k + 1 <= Len(s) THEN Len(s) - (k + 1) + 1 ELSE 0
            /\ \A i \in 1 .. Len(s) - (k + 1) + 1 : z[i] = s[(k + 1) + i - 1]
        BY <4>1, SubSeqProperties
      <4> HIDE DEF z
      <4>3. Len(z) = Len(s) - k
        <5> DEFINE L == Len(s)
        <5>1. L \in Nat /\ k \in 1 .. L
          BY <1>1
        <5>2. Len(z) = IF k + 1 <= L THEN L - (k + 1) + 1 ELSE 0
          BY <4>2
        <5> HIDE DEF L
        <5>3. Len(z) = L - k
          BY <5>1, <5>2
        <5> QED
          BY <5>3 DEF L
      <4>4. ASSUME NEW i \in 1 .. Len(s) - k PROVE z[i] = s[i + k]
        <5>1. i \in 1 .. Len(s) - (k + 1) + 1 /\ (k + 1) + i - 1 = i + k
          BY <1>1, <2>1
        <5> QED
          BY <4>2, <5>1
      <4> QED
        BY <4>2, <4>3, <4>4
    <3> HIDE DEF a, z
    <3>3. /\ a \o z \in Seq(Names) /\ Len(a \o z) = Len(s) - 1
          /\ DOMAIN (a \o z) = 1 .. Len(s) - 1
          /\ \A i \in 1 .. Len(s) - 1 : (a \o z)[i] = IF i <= k - 1 THEN a[i] ELSE z[i - (k - 1)]
      <4>1. /\ a \o z \in Seq(Names) /\ Len(a \o z) = Len(a) + Len(z)
            /\ \A i \in 1 .. Len(a) + Len(z) : (a \o z)[i] =
                         IF i <= Len(a) THEN a[i] ELSE z[i - Len(a)]
        BY <3>1, <3>2, ConcatProperties
      <4>2. Len(a) + Len(z) = Len(s) - 1
        BY <1>1, <2>1, <3>1, <3>2
      <4>3. DOMAIN (a \o z) = 1 .. Len(a \o z)
        BY <4>1
      <4> QED
        BY <3>1, <4>1, <4>2, <4>3
    <3>4. ASSUME NEW i \in 1 .. Len(s) - 1
          PROVE  (a \o z)[i] = IF i < k THEN s[i] ELSE s[i + 1]
      <4>1. CASE i < k
        <5>1. i \in 1 .. k - 1 /\ i <= k - 1
          BY <1>1, <2>1, <4>1
        <5> QED
          BY <3>1, <3>3, <4>1, <5>1
      <4>2. CASE ~(i < k)
        <5>1. i - (k - 1) \in 1 .. Len(s) - k /\ (i - (k - 1)) + k = i + 1 /\ ~(i <= k - 1)
          BY <1>1, <2>1, <4>2
        <5> QED
          BY <3>2, <3>3, <4>2, <5>1
      <4> QED
        BY <4>1, <4>2
    <3> QED
      BY <3>3, <3>4 DEF r, a, z
  <2>6. r = RemoveFirst(s, n)
    BY <2>4
  <2> HIDE DEF r
  <2>7. Distinct(r)
    <3> SUFFICES ASSUME NEW i \in 1 .. Len(s) - 1, NEW j \in 1 .. Len(s) - 1, r[i] = r[j]
                 PROVE  i = j
      BY <2>5 DEF Distinct
    <3> DEFINE x == IF i < k THEN i ELSE i + 1
               y == IF j < k THEN j ELSE j + 1
    <3>1. x \in 1 .. Len(s) /\ y \in 1 .. Len(s) /\ r[i] = s[x] /\ r[j] = s[y]
      BY <1>1, <2>1, <2>5
    <3>2. x = y
      BY <1>1, <3>1 DEF Distinct
    <3> QED
      BY <2>1, <3>2
  <2>8. \A m : InTabs(r, m) => InTabs(s, m) /\ m # n
    <3> SUFFICES ASSUME NEW i \in 1 .. Len(s) - 1 PROVE InTabs(s, r[i]) /\ r[i] # n
      BY <2>5 DEF InTabs
    <3>1. CASE i < k
      BY <1>1, <2>1, <2>5, <3>1 DEF InTabs, Distinct
    <3>2. CASE ~(i < k)
      BY <1>1, <2>1, <2>5, <3>2 DEF InTabs, Distinct
    <3> QED
      BY <3>1, <3>2
  <2>9. \A m : InTabs(s, m) /\ m # n => InTabs(r, m)
    <3> SUFFICES ASSUME NEW i \in 1 .. Len(s), s[i] # n PROVE InTabs(r, s[i])
      BY <1>1 DEF InTabs
    <3>1. CASE i < k
      <4>1. i \in 1 .. Len(s) - 1 /\ r[i] = s[i]
        BY <1>1, <2>1, <2>5, <3>1
      <4> QED
        BY <2>5, <4>1 DEF InTabs
    <3>2. CASE ~(i < k)
      <4>1. i - 1 \in 1 .. Len(s) - 1 /\ r[i - 1] = s[i]
        BY <1>1, <2>1, <2>5, <3>2
      <4> QED
        BY <2>5, <4>1 DEF InTabs
    <3> QED
      BY <3>1, <3>2
  <2> QED
    BY <2>5, <2>6, <2>7, <2>8, <2>9 DEF Tabs
<1> QED
  BY <1>2, <1>3

(* What two pages that differ in the view only have in common.             *)
SameFiles(pg, r) ==
    /\ r.pathMap = pg.pathMap /\ r.openFiles = pg.openFiles /\ r.fileHashes = pg.fileHashes
    /\ r.activeFile = pg.activeFile /\ r.tabs = pg.tabs
    /\ r.banner = pg.banner /\ r.saving = pg.saving

LEMMA ShownIs ==
  ASSUME NEW pg \in Pages, NEW p \in Names, NEW c \in Contents,
         NEW r, r = OpenFileInEditor(pg, p, c)
  PROVE  /\ r \in Pages /\ SameFiles(pg, r) /\ r.currentPath = p
         /\ p = pg.currentPath => r.view = pg.view
         /\ p # pg.currentPath => r.view = IF pg.fileStates[p] # None THEN pg.fileStates[p] ELSE c
         /\ \A n \in Names : r.fileStates[n] = IF n = p THEN None
                                               ELSE IF n = pg.currentPath THEN pg.view
                                               ELSE pg.fileStates[n]
<1> DEFINE st == IF pg.currentPath = None THEN pg.fileStates
                 ELSE [pg.fileStates EXCEPT ![pg.currentPath] = pg.view]
           v == IF st[p] # None THEN st[p] ELSE c
           fs == [st EXCEPT ![p] = None]
<1>1. /\ pg.fileStates \in [Names -> Contents \cup {None}] /\ pg.view \in Contents
      /\ pg.currentPath \in Names \cup {None} /\ None \notin Names
  BY NamesAssumption DEF Pages
<1>2. /\ st \in [Names -> Contents \cup {None}]
      /\ \A n \in Names : st[n] = IF n = pg.currentPath THEN pg.view ELSE pg.fileStates[n]
  BY <1>1
<1>3. r = [pg EXCEPT !.currentPath = p, !.view = v, !.fileStates = fs]
  BY DEF OpenFileInEditor
<1> HIDE DEF st
<1>4. v \in Contents
  BY <1>2
<1>5. /\ fs \in [Names -> Contents \cup {None}]
      /\ \A n \in Names : fs[n] = IF n = p THEN None ELSE st[n]
  BY <1>2
<1>6. (p = pg.currentPath => v = pg.view)
      /\ (p # pg.currentPath => v = IF pg.fileStates[p] # None THEN pg.fileStates[p] ELSE c)
  BY <1>1, <1>2, ContentsAssumption
<1> HIDE DEF v, fs
<1>7. r \in Pages
  BY <1>3, <1>4, <1>5 DEF Pages
<1>8. r.currentPath = p /\ r.view = v /\ r.fileStates = fs /\ SameFiles(pg, r)
  BY <1>3 DEF Pages, SameFiles
<1> QED
  BY <1>2, <1>5, <1>6, <1>7, <1>8

(* A file that a page knows nothing of.                                    *)
Unknown(pg, n) ==
    /\ pg.openFiles[n] = None /\ pg.fileStates[n] = None
    /\ pg.activeFile # n /\ pg.currentPath # n /\ ~InTabs(pg.tabs, n)

(* What is shown, or was, of a file is the page's copy of it.              *)
Mirrors(pg) ==
    /\ pg.currentPath # None => /\ pg.view = pg.openFiles[pg.currentPath]
                                /\ pg.fileStates[pg.currentPath] = None
    /\ \A n \in Names : pg.fileStates[n] \in {None, pg.openFiles[n]}

(* A step of a page that has to do with the files ns only.                 *)
Touches(pg, r, ns) ==
    /\ r \in Pages /\ r.pathMap = pg.pathMap /\ r.banner = pg.banner /\ r.saving = pg.saving
    /\ \A m \in Names : m \notin ns => /\ r.openFiles[m] = pg.openFiles[m]
                                      /\ (Unknown(pg, m) => Unknown(r, m))

LEMMA TouchesMore ==
  ASSUME NEW pg, NEW q, NEW r, NEW ns, NEW ms, ms \subseteq ns,
         Touches(pg, q, ms), Touches(q, r, ns)
  PROVE  Touches(pg, r, ns)
BY DEF Touches

LEMMA ShownTouches ==
  ASSUME NEW pg \in Pages, NEW p \in Names, NEW c \in Contents,
         NEW r, r = OpenFileInEditor(pg, p, c)
  PROVE  /\ Touches(pg, r, {p}) /\ r.openFiles = pg.openFiles
         /\ Mirrors(pg) /\ c = pg.openFiles[p] => Mirrors(r)
<1>1. /\ r \in Pages /\ SameFiles(pg, r) /\ r.currentPath = p
      /\ p = pg.currentPath => r.view = pg.view
      /\ p # pg.currentPath => r.view = IF pg.fileStates[p] # None THEN pg.fileStates[p] ELSE c
      /\ \A n \in Names : r.fileStates[n] = IF n = p THEN None
                                            ELSE IF n = pg.currentPath THEN pg.view
                                            ELSE pg.fileStates[n]
  BY ShownIs
<1>2. Touches(pg, r, {p})
  BY <1>1 DEF Touches, SameFiles, Unknown
<1>3. ASSUME Mirrors(pg), c = pg.openFiles[p] PROVE Mirrors(r)
  <2>1. /\ pg.currentPath \in Names \cup {None} /\ None \notin Names
        /\ r.openFiles = pg.openFiles
    BY <1>1, NamesAssumption DEF Pages, SameFiles
  <2>2. r.view = r.openFiles[p]
    BY <1>1, <1>3, <2>1, NamesAssumption DEF Mirrors
  <2>3. \A n \in Names : r.fileStates[n] \in {None, r.openFiles[n]}
    BY <1>1, <1>3, <2>1 DEF Mirrors
  <2> QED
    BY <1>1, <2>2, <2>3 DEF Mirrors
<1> QED
  BY <1>1, <1>2, <1>3 DEF SameFiles

LEMMA ActiveTouches ==
  ASSUME NEW pg \in Pages, NEW p \in Names, NEW r, r = [pg EXCEPT !.activeFile = p]
  PROVE  /\ Touches(pg, r, {p}) /\ r.openFiles = pg.openFiles /\ r.tabs = pg.tabs
         /\ r.activeFile = p /\ (Mirrors(pg) => Mirrors(r))
<1>1. r \in Pages
  BY DEF Pages
<1>2. /\ r.pathMap = pg.pathMap /\ r.banner = pg.banner /\ r.saving = pg.saving
      /\ r.openFiles = pg.openFiles /\ r.tabs = pg.tabs /\ r.fileStates = pg.fileStates
      /\ r.activeFile = p /\ r.currentPath = pg.currentPath /\ r.view = pg.view
  BY DEF Pages
<1> QED
  BY <1>1, <1>2 DEF Touches, Unknown, Mirrors

LEMMA AddTabTouches ==
  ASSUME NEW pg \in Pages, NEW p \in Names, NEW r, r = AddTab(pg, p)
  PROVE  /\ Touches(pg, r, {p}) /\ r.openFiles = pg.openFiles
         /\ r.activeFile = p /\ (Mirrors(pg) => Mirrors(r))
         /\ r.currentPath = pg.currentPath /\ r.view = pg.view /\ r.fileStates = pg.fileStates
<1> DEFINE t == IF InTabs(pg.tabs, p) THEN pg.tabs ELSE Append(pg.tabs, p)
<1>1. r = [pg EXCEPT !.tabs = t, !.activeFile = p]
  BY DEF AddTab, InTabs
<1>2. pg.tabs \in Tabs
  BY DEF Pages, Tabs
<1>3. t \in Tabs /\ \A m : InTabs(t, m) => InTabs(pg.tabs, m) \/ m = p
  BY <1>2, TabAdded
<1> HIDE DEF t
<1>4. r \in Pages
  BY <1>1, <1>3 DEF Pages, Tabs
<1>5. /\ r.pathMap = pg.pathMap /\ r.banner = pg.banner /\ r.saving = pg.saving
      /\ r.openFiles = pg.openFiles /\ r.tabs = t /\ r.fileStates = pg.fileStates
      /\ r.activeFile = p /\ r.currentPath = pg.currentPath /\ r.view = pg.view
  BY <1>1 DEF Pages
<1> QED
  BY <1>3, <1>4, <1>5 DEF Touches, Unknown, Mirrors

LEMMA OpenFileTouches ==
  ASSUME NEW pg \in Pages, NEW p \in Names, NEW r, r = OpenFile(pg, p)
  PROVE  /\ Touches(pg, r, {p}) /\ r.openFiles = pg.openFiles
         /\ Mirrors(pg) => Mirrors(r)
<1> DEFINE at == [pg EXCEPT !.activeFile = p]
           q == AddTab(at, p)
<1>1. /\ Touches(pg, at, {p}) /\ at.openFiles = pg.openFiles /\ at \in Pages
      /\ Mirrors(pg) => Mirrors(at)
  BY ActiveTouches DEF Touches
<1>2. CASE pg.openFiles[p] = None
  BY <1>1, <1>2 DEF OpenFile, MustAsk
<1>3. CASE pg.openFiles[p] # None
  <2>1. r = OpenFileInEditor(q, p, pg.openFiles[p]) /\ pg.openFiles[p] \in Contents
    BY <1>3 DEF OpenFile, MustAsk, Pages
  <2> HIDE DEF at
  <2>2. /\ Touches(at, q, {p}) /\ q.openFiles = at.openFiles /\ q \in Pages
        /\ Mirrors(at) => Mirrors(q)
    BY <1>1, AddTabTouches DEF Touches
  <2> HIDE DEF q
  <2>3. /\ Touches(q, r, {p}) /\ r.openFiles = q.openFiles
        /\ Mirrors(q) => Mirrors(r)
    BY <1>1, <2>1, <2>2, ShownTouches
  <2> QED
    BY <1>1, <2>2, <2>3, TouchesMore
<1> QED
  BY <1>2, <1>3

LEMMA SwitchTouches ==
  ASSUME NEW pg \in Pages, NEW r, r = SwitchToLastTab(pg)
  PROVE  /\ Touches(pg, r, {}) /\ r.openFiles = pg.openFiles
         /\ Mirrors(pg) => Mirrors(r)
<1>1. CASE pg.tabs = <<>>
  BY <1>1 DEF SwitchToLastTab, Touches
<1>2. CASE pg.tabs # <<>>
  <2> DEFINE p == Head(pg.tabs)
             at == [pg EXCEPT !.activeFile = p]
  <2>1. p \in Names /\ InTabs(pg.tabs, p)
    BY <1>2 DEF Pages, InTabs
  <2>2. r = IF pg.openFiles[p] # None THEN OpenFileInEditor(at, p, pg.openFiles[p]) ELSE at
    BY <1>2 DEF SwitchToLastTab
  <2> HIDE DEF p
  <2>3. /\ Touches(pg, at, {p}) /\ at.openFiles = pg.openFiles /\ at \in Pages
        /\ Mirrors(pg) => Mirrors(at)
    BY <2>1, ActiveTouches DEF Touches
  <2> HIDE DEF at
  <2>4. /\ Touches(pg, r, {p}) /\ r.openFiles = pg.openFiles
        /\ Mirrors(pg) => Mirrors(r)
    <3>1. CASE pg.openFiles[p] # None
      <4>1. r = OpenFileInEditor(at, p, pg.openFiles[p]) /\ pg.openFiles[p] \in Contents
        BY <2>1, <2>2, <3>1 DEF Pages
      <4>2. /\ Touches(at, r, {p}) /\ r.openFiles = at.openFiles
            /\ Mirrors(at) /\ pg.openFiles[p] = at.openFiles[p] => Mirrors(r)
        BY <2>1, <2>3, <4>1, ShownTouches
      <4> QED
        BY <2>3, <4>2, TouchesMore
    <3>2. CASE pg.openFiles[p] = None
      BY <2>2, <2>3, <3>2
    <3> QED
      BY <3>1, <3>2
  <2> QED
    BY <2>1, <2>4 DEF Touches, Unknown
<1> QED
  BY <1>1, <1>2

LEMMA CloseTabTouches ==
  ASSUME NEW pg \in Pages, NEW p \in Names, NEW r, r = CloseTab(pg, p)
  PROVE  Touches(pg, r, {p}) /\ Unknown(r, p) /\ (Mirrors(pg) => Mirrors(r))
<1> DEFINE t == RemoveFirst(pg.tabs, p)
           of == [pg.openFiles EXCEPT ![p] = None]
           fs == [pg.fileStates EXCEPT ![p] = None]
           cp == IF pg.currentPath = p THEN None ELSE pg.currentPath
           closed == [pg EXCEPT !.tabs = t, !.openFiles = of, !.fileStates = fs,
                                !.currentPath = cp]
           k == [closed EXCEPT !.activeFile = None]
           z == CloseFileInEditor([pg EXCEPT !.tabs = RemoveFirst(@, p),
                                             !.openFiles[p] = None], p)
<1>1. z = closed
  BY DEF CloseFileInEditor, Pages
<1>2. r = IF pg.activeFile = p THEN SwitchToLastTab(k) ELSE closed
  <2>1. r = IF pg.activeFile = p THEN SwitchToLastTab([z EXCEPT !.activeFile = None]) ELSE z
    BY DEF CloseTab
  <2> HIDE DEF z, closed
  <2> QED
    BY <1>1, <2>1
<1>3. t \in Tabs /\ \A m : InTabs(t, m) <=> InTabs(pg.tabs, m) /\ m # p
  BY TabRemoved DEF Pages, Tabs
<1>4. /\ pg.openFiles \in [Names -> Contents \cup {None}]
      /\ pg.fileStates \in [Names -> Contents \cup {None}]
  BY DEF Pages
<1>5. /\ of \in [Names -> Contents \cup {None}]
      /\ \A m \in Names : of[m] = IF m = p THEN None ELSE pg.openFiles[m]
  BY <1>4
<1>6. /\ fs \in [Names -> Contents \cup {None}]
      /\ \A m \in Names : fs[m] = IF m = p THEN None ELSE pg.fileStates[m]
  BY <1>4
<1>7. cp \in Names \cup {None} /\ cp # p /\ (cp # None => cp = pg.currentPath)
  BY NamesAssumption DEF Pages
<1> HIDE DEF t, of, fs, cp
<1>8. closed \in Pages /\ k \in Pages
  BY <1>3, <1>5, <1>6, <1>7 DEF Pages, Tabs
<1>9. /\ closed.pathMap = pg.pathMap /\ closed.banner = pg.banner /\ closed.saving = pg.saving
      /\ closed.openFiles = of /\ closed.fileStates = fs /\ closed.tabs = t
      /\ closed.currentPath = cp /\ closed.view = pg.view /\ closed.activeFile = pg.activeFile
  BY DEF Pages
<1>10. /\ k.pathMap = pg.pathMap /\ k.banner = pg.banner /\ k.saving = pg.saving
       /\ k.openFiles = of /\ k.fileStates = fs /\ k.tabs = t
       /\ k.currentPath = cp /\ k.view = pg.view /\ k.activeFile = None
  BY DEF Pages
<1> HIDE DEF closed, k
<1>11. Mirrors(pg) => Mirrors(closed) /\ Mirrors(k)
  <2> SUFFICES ASSUME Mirrors(pg) PROVE Mirrors(closed) /\ Mirrors(k)
    OBVIOUS
  <2>1. cp # None => pg.view = of[cp] /\ fs[cp] = None
    BY <1>5, <1>6, <1>7 DEF Mirrors
  <2>2. \A n \in Names : fs[n] \in {None, of[n]}
    BY <1>5, <1>6 DEF Mirrors
  <2> QED
    BY <1>9, <1>10, <2>1, <2>2 DEF Mirrors
<1>12. CASE pg.activeFile = p
  <2>1. /\ Touches(k, r, {}) /\ (Mirrors(k) => Mirrors(r))
    BY <1>2, <1>8, <1>12, SwitchTouches
  <2>2. Touches(pg, k, {p}) /\ Unknown(k, p)
    BY <1>3, <1>5, <1>6, <1>7, <1>8, <1>10, NamesAssumption DEF Touches, Unknown
  <2>3. Unknown(r, p)
    BY <2>1, <2>2 DEF Touches
  <2>4. Touches(pg, r, {p})
    BY <2>1, <2>2 DEF Touches
  <2> QED
    BY <1>11, <2>1, <2>3, <2>4
<1>13. CASE pg.activeFile # p
  <2>1. r = closed
    BY <1>2, <1>13
  <2>2. Touches(pg, r, {p})
    <3>1. \A m \in Names : m # p /\ Unknown(pg, m) => Unknown(closed, m)
      BY <1>3, <1>5, <1>6, <1>7, <1>9, NamesAssumption DEF Unknown
    <3> QED
      BY <1>5, <1>8, <1>9, <2>1, <3>1 DEF Touches
  <2>3. Unknown(r, p)
    BY <1>3, <1>5, <1>6, <1>7, <1>9, <1>13, <2>1 DEF Unknown
  <2> QED
    BY <1>11, <2>1, <2>2, <2>3
<1> QED
  BY <1>12, <1>13

Copied(pg, p, c, d) == [pg EXCEPT !.openFiles[p] = c, !.fileHashes[p] = d]
LEMMA CopyTouches ==
  ASSUME NEW pg \in Pages, NEW p \in Names, NEW c \in Contents, NEW d \in Contents \cup {None},
         NEW r, r = Copied(pg, p, c, d)
  PROVE  /\ Touches(pg, r, {p}) /\ r.openFiles[p] = c
         /\ r.currentPath = pg.currentPath /\ r.view = pg.view
         /\ r.fileStates = pg.fileStates
<1> DEFINE of == [pg.openFiles EXCEPT ![p] = c]
           fh == [pg.fileHashes EXCEPT ![p] = d]
<1>1. r = [pg EXCEPT !.openFiles = of, !.fileHashes = fh]
  BY DEF Pages, Copied
<1>2. /\ pg.openFiles \in [Names -> Contents \cup {None}]
      /\ pg.fileHashes \in [Names -> Contents \cup {None}]
  BY DEF Pages
<1>3. /\ of \in [Names -> Contents \cup {None}] /\ fh \in [Names -> Contents \cup {None}]
      /\ of[p] = c /\ \A m \in Names : m # p => of[m] = pg.openFiles[m]
  BY <1>2
<1> HIDE DEF of, fh
<1>5. r \in Pages
  BY <1>1, <1>3 DEF Pages
<1>6. /\ r.pathMap = pg.pathMap /\ r.banner = pg.banner /\ r.saving = pg.saving
      /\ r.openFiles = of /\ r.fileStates = pg.fileStates /\ r.tabs = pg.tabs
      /\ r.currentPath = pg.currentPath /\ r.view = pg.view /\ r.activeFile = pg.activeFile
  BY <1>1 DEF Pages
<1> QED
  BY <1>3, <1>5, <1>6 DEF Touches, Unknown

Updated(pg, r, p, c) ==
    /\ r.openFiles = pg.openFiles /\ r.currentPath = pg.currentPath
    /\ r.view = IF p = pg.currentPath THEN c ELSE pg.view
    /\ \A n \in Names : n # p => r.fileStates[n] = pg.fileStates[n]
    /\ r.fileStates[p] = IF p = pg.currentPath THEN pg.fileStates[p] ELSE None

LEMMA UpdateTouches ==
  ASSUME NEW pg \in Pages, NEW p \in Names, NEW c \in Contents,
         NEW r, r = UpdateFileContent(pg, p, c)
  PROVE  Touches(pg, r, {p}) /\ Updated(pg, r, p, c)
<1>1. CASE p = pg.currentPath
  <2>1. r = [pg EXCEPT !.view = c]
    BY <1>1 DEF UpdateFileContent
  <2>2. r \in Pages
    BY <2>1 DEF Pages
  <2>3. /\ r.pathMap = pg.pathMap /\ r.banner = pg.banner /\ r.saving = pg.saving
        /\ r.openFiles = pg.openFiles /\ r.fileStates = pg.fileStates /\ r.tabs = pg.tabs
        /\ r.currentPath = pg.currentPath /\ r.view = c /\ r.activeFile = pg.activeFile
    BY <2>1 DEF Pages
  <2> QED
    BY <1>1, <2>2, <2>3 DEF Touches, Unknown, Updated
<1>2. CASE p # pg.currentPath
  <2> DEFINE fs == [pg.fileStates EXCEPT ![p] = None]
  <2>1. r = [pg EXCEPT !.fileStates = fs]
    BY <1>2 DEF UpdateFileContent
  <2>2. pg.fileStates \in [Names -> Contents \cup {None}]
    BY DEF Pages
  <2>3. /\ fs \in [Names -> Contents \cup {None}]
        /\ fs[p] = None /\ \A m \in Names : m # p => fs[m] = pg.fileStates[m]
    BY <2>2
  <2> HIDE DEF fs
  <2>4. r \in Pages
    BY <2>1, <2>3 DEF Pages
  <2>5. /\ r.pathMap = pg.pathMap /\ r.banner = pg.banner /\ r.saving = pg.saving
        /\ r.openFiles = pg.openFiles /\ r.fileStates = fs /\ r.tabs = pg.tabs
        /\ r.currentPath = pg.currentPath /\ r.view = pg.view /\ r.activeFile = pg.activeFile
    BY <2>1 DEF Pages
  <2> QED
    BY <1>2, <2>3, <2>4, <2>5 DEF Touches, Unknown, Updated
<1> QED
  BY <1>1, <1>2

LEMMA ContentTouches ==
  ASSUME NEW pg \in Pages, NEW p \in Names, NEW c \in Contents,
         NEW r, r = OnFileContent(pg, p, c)
  PROVE  Touches(pg, r, {p}) /\ r.openFiles[p] = c
<1> DEFINE at == [pg EXCEPT !.openFiles[p] = c, !.fileHashes[p] = c]
           q == AddTab(at, p)
<1>1. r = OpenFileInEditor(q, p, c)
  BY DEF OnFileContent
<1>a. at = Copied(pg, p, c, c)
  BY DEF Copied
<1> HIDE DEF at
<1>b. Touches(pg, at, {p}) /\ at.openFiles[p] = c
  BY <1>a, CopyTouches
<1>2. Touches(pg, at, {p}) /\ at.openFiles[p] = c /\ at \in Pages
  BY <1>b DEF Touches
<1>3. Touches(at, q, {p}) /\ q.openFiles = at.openFiles /\ q \in Pages
  BY <1>2, AddTabTouches DEF Touches
<1> HIDE DEF q
<1>4. Touches(q, r, {p}) /\ r.openFiles = q.openFiles
  BY <1>1, <1>3, ShownTouches
<1> QED
  BY <1>2, <1>3, <1>4, TouchesMore

LEMMA ChangedTouches ==
  ASSUME NEW pg \in Pages, NEW p \in Names, NEW c \in Contents,
         NEW r, r = OnFileChanged(pg, p, c)
  PROVE  /\ Touches(pg, r, {p}) /\ r.openFiles[p] = c
         /\ Mirrors(pg) => Mirrors(r)
<1>1. CASE HasLocalEdits(pg, p)
  <2> DEFINE d == pg.fileHashes[p]
  <2>1. d \in Contents \cup {None}
    BY DEF Pages
  <2>2. r = Copied(pg, p, c, d)
    BY <1>1 DEF OnFileChanged, Pages, Copied
  <2> HIDE DEF d
  <2>3. Touches(pg, r, {p}) /\ r.openFiles[p] = c
    BY <2>1, <2>2, CopyTouches
  <2>4. ~Mirrors(pg)
    BY <1>1, NamesAssumption DEF HasLocalEdits, Mirrors
  <2> QED
    BY <2>3, <2>4
<1>2. CASE ~HasLocalEdits(pg, p)
  <2> DEFINE at == [pg EXCEPT !.openFiles[p] = c, !.fileHashes[p] = c]
  <2>1. r = UpdateFileContent(at, p, c)
    BY <1>2 DEF OnFileChanged
  <2>a. at = Copied(pg, p, c, c)
    BY DEF Copied
  <2> HIDE DEF at
  <2>b. /\ Touches(pg, at, {p})
        /\ at.openFiles[p] = c /\ at.currentPath = pg.currentPath /\ at.view = pg.view
        /\ at.fileStates = pg.fileStates
    BY <2>a, CopyTouches
  <2>2. at \in Pages
    BY <2>b DEF Touches
  <2>c. Touches(at, r, {p}) /\ Updated(at, r, p, c)
    BY <2>1, <2>2, UpdateTouches
  <2>3. /\ Touches(at, r, {p}) /\ r.openFiles = at.openFiles /\ r.currentPath = at.currentPath
        /\ p = at.currentPath => r.view = c /\ r.fileStates[p] = at.fileStates[p]
        /\ p # at.currentPath => r.view = at.view /\ r.fileStates[p] = None
        /\ \A n \in Names : n # p => r.fileStates[n] = at.fileStates[n]
    BY <2>c DEF Updated
  <2>4. ASSUME Mirrors(pg) PROVE Mirrors(r)
    <3>0. \A n \in Names : n # p => r.openFiles[n] = pg.openFiles[n]
      BY <2>b, <2>3 DEF Touches
    <3>1. pg.currentPath # None => /\ r.view = r.openFiles[r.currentPath]
                                  /\ r.fileStates[r.currentPath] = None
      BY <2>b, <2>3, <2>4, <3>0 DEF Mirrors, Pages
    <3>2. ASSUME NEW n \in Names, n # p PROVE r.fileStates[n] \in {None, r.openFiles[n]}
      BY <2>b, <2>3, <2>4, <3>0, <3>2 DEF Mirrors
    <3>3. r.fileStates[p] \in {None, r.openFiles[p]}
      BY <2>b, <2>3, <2>4, NamesAssumption DEF Mirrors
    <3> QED
      BY <2>b, <2>3, <3>1, <3>2, <3>3 DEF Mirrors
  <2> QED
    BY <2>b, <2>3, <2>4, TouchesMore
<1> QED
  BY <1>1, <1>2

(* The same, but for what the page knows of the project's files.           *)
Learns(pg, r, ps, ns) ==
    /\ r \in Pages /\ r.pathMap = ps /\ r.banner = pg.banner /\ r.saving = pg.saving
    /\ \A m \in Names : m \notin ns => /\ r.openFiles[m] = pg.openFiles[m]
                                      /\ (Unknown(pg, m) => Unknown(r, m))

LEMMA CreatedLearns ==
  ASSUME NEW pg \in Pages, NEW p \in Paths, NEW c \in Contents,
         NEW r, r = OnFileCreated(pg, p, c)
  PROVE  /\ Learns(pg, r, pg.pathMap \cup {p}, {p}) /\ r.openFiles[p] = c
         /\ Mirrors(pg) /\ Unknown(pg, p) => Mirrors(r)
<1> DEFINE of == [pg.openFiles EXCEPT ![p] = c]
           pm == pg.pathMap \cup {p}
<1>1. r = [pg EXCEPT !.pathMap = pm, !.openFiles = of]
  BY DEF Pages, OnFileCreated
<1>2. pg.openFiles \in [Names -> Contents \cup {None}] /\ p \in Names
  BY DEF Pages, Names
<1>3. /\ of \in [Names -> Contents \cup {None}]
      /\ of[p] = c /\ \A m \in Names : m # p => of[m] = pg.openFiles[m]
  BY <1>2
<1>4. pm \in SUBSET Paths
  BY DEF Pages
<1> HIDE DEF of
<1>5. r \in Pages
  <2> HIDE DEF pm
  <2> QED
    BY <1>1, <1>3, <1>4 DEF Pages
<1>6. /\ r.pathMap = pm /\ r.banner = pg.banner /\ r.saving = pg.saving
      /\ r.openFiles = of /\ r.fileStates = pg.fileStates /\ r.tabs = pg.tabs
      /\ r.currentPath = pg.currentPath /\ r.view = pg.view /\ r.activeFile = pg.activeFile
  BY <1>1 DEF Pages
<1>7. Learns(pg, r, pm, {p})
  BY <1>3, <1>5, <1>6 DEF Learns, Unknown
<1>8. ASSUME Mirrors(pg), Unknown(pg, p) PROVE Mirrors(r)
  <2>1. pg.currentPath # None => of[pg.currentPath] = pg.openFiles[pg.currentPath]
    BY <1>3, <1>8 DEF Unknown, Pages
  <2>2. \A n \in Names : pg.fileStates[n] \in {None, of[n]}
    BY <1>3, <1>8 DEF Unknown, Mirrors
  <2> QED
    BY <1>6, <1>8, <2>1, <2>2 DEF Mirrors
<1> QED
  BY <1>3, <1>6, <1>7, <1>8

LEMMA DeletedLearns ==
  ASSUME NEW pg \in Pages, NEW p \in Paths, NEW r, r = OnFileDeleted(pg, p),
         NEW n, n = FromPathToken(pg, p)
  PROVE  /\ Learns(pg, r, pg.pathMap \ {p}, {n}) /\ Unknown(r, n)
         /\ Mirrors(pg) => Mirrors(r)
<1> DEFINE pm == pg.pathMap \ {p}
           at == [pg EXCEPT !.pathMap = pm]
<1>1. r = CloseTab(at, n) /\ n \in Names
  BY NameOf DEF OnFileDeleted
<1>2. at \in Pages
  BY DEF Pages
<1>3. /\ at.pathMap = pm /\ at.banner = pg.banner /\ at.saving = pg.saving
      /\ at.openFiles = pg.openFiles /\ at.fileStates = pg.fileStates /\ at.tabs = pg.tabs
      /\ at.currentPath = pg.currentPath /\ at.view = pg.view /\ at.activeFile = pg.activeFile
  BY DEF Pages
<1> HIDE DEF at
<1>4. Touches(at, r, {n}) /\ Unknown(r, n) /\ (Mirrors(at) => Mirrors(r))
  BY <1>1, <1>2, CloseTabTouches
<1>5. Mirrors(pg) => Mirrors(at)
  BY <1>3 DEF Mirrors
<1>6. \A m : Unknown(pg, m) => Unknown(at, m)
  BY <1>3 DEF Unknown
<1>7. Learns(pg, r, pm, {n})
  BY <1>3, <1>4, <1>6 DEF Touches, Learns
<1> QED
  BY <1>4, <1>5, <1>7

LEMMA RejectedIs ==
  ASSUME NEW pg \in Pages, NEW n \in Names, NEW c \in Contents,
         NEW r, r = OnSaveRejected(pg, n, c)
  PROVE  /\ r \in Pages /\ r.pathMap = pg.pathMap /\ r.saving = pg.saving
         /\ r.openFiles = pg.openFiles /\ r.fileStates = pg.fileStates
         /\ r.currentPath = pg.currentPath /\ r.view = pg.view
<1> DEFINE b == [path |-> n, content |-> c]
<1>1. b \in Banners
  BY DEF Banners
<1>2. r = [pg EXCEPT !.banner = b]
  BY DEF OnSaveRejected
<1> HIDE DEF b
<1> QED
  BY <1>1, <1>2 DEF Pages

(* A user saves: the copy is taken to be what the view shows.              *)
LEMMA SaveFileIs ==
  ASSUME NEW pg \in Pages, NEW r, r = SaveFile(pg), pg.activeFile # None
  PROVE  /\ r \in Pages /\ r.pathMap = pg.pathMap /\ r.banner = pg.banner
         /\ r.activeFile = pg.activeFile /\ r.saving = pg.view /\ r.saving \in Contents
         /\ \A m \in Names : /\ m # pg.activeFile => r.openFiles[m] = pg.openFiles[m]
                             /\ m # pg.activeFile /\ Unknown(pg, m) => Unknown(r, m)
<1> DEFINE of == [pg.openFiles EXCEPT ![pg.activeFile] = pg.view]
<1>1. r = [pg EXCEPT !.openFiles = of, !.saving = pg.view]
  BY DEF SaveFile, Pages
<1>2. /\ pg.openFiles \in [Names -> Contents \cup {None}] /\ pg.activeFile \in Names
      /\ pg.view \in Contents
  BY DEF Pages
<1>3. /\ of \in [Names -> Contents \cup {None}]
      /\ \A m \in Names : m # pg.activeFile => of[m] = pg.openFiles[m]
  BY <1>2
<1> HIDE DEF of
<1>4. r \in Pages
  BY <1>1, <1>2, <1>3 DEF Pages
<1>5. /\ r.pathMap = pg.pathMap /\ r.banner = pg.banner /\ r.saving = pg.view
      /\ r.openFiles = of /\ r.fileStates = pg.fileStates /\ r.tabs = pg.tabs
      /\ r.currentPath = pg.currentPath /\ r.view = pg.view /\ r.activeFile = pg.activeFile
  BY <1>1 DEF Pages
<1>6. \A m \in Names : m # pg.activeFile /\ Unknown(pg, m) => Unknown(r, m)
  BY <1>3, <1>5 DEF Unknown
<1> QED
  BY <1>2, <1>3, <1>4, <1>5, <1>6

LEMMA BannerShown ==
  ASSUME NEW pg \in Pages, pg.banner # NoBanner
  PROVE  pg.banner.path \in Names /\ pg.banner.content \in Contents
BY DEF Pages, Banners

LEMMA OverwriteTyped ==
  ASSUME NEW pg \in Pages, pg.banner # NoBanner
  PROVE  Overwrite(pg) \in Pages
<1> DEFINE fh == [pg.fileHashes EXCEPT ![pg.banner.path] = pg.banner.content]
           at == [pg EXCEPT !.banner = NoBanner, !.fileHashes = fh]
<1>1. Overwrite(pg) = SaveFile(at)
  BY DEF Overwrite, Pages
<1>2. pg.fileHashes \in [Names -> Contents \cup {None}]
  BY DEF Pages
<1>3. fh \in [Names -> Contents \cup {None}]
  BY <1>2, BannerShown
<1> HIDE DEF fh
<1>4. at \in Pages
  BY <1>3 DEF Pages, Banners
<1> HIDE DEF at
<1>5. CASE at.activeFile = None
  BY <1>1, <1>4, <1>5 DEF SaveFile
<1>6. CASE at.activeFile # None
  BY <1>1, <1>4, <1>6, SaveFileIs
<1> QED
  BY <1>5, <1>6

LEMMA ReloadTyped ==
  ASSUME NEW pg \in Pages, pg.banner # NoBanner
  PROVE  Reload(pg) \in Pages /\ Reload(pg).saving = pg.saving
<1> DEFINE n == pg.banner.path
           c == pg.banner.content
           of == [pg.openFiles EXCEPT ![n] = c]
           fh == [pg.fileHashes EXCEPT ![n] = c]
           at == [pg EXCEPT !.banner = NoBanner, !.openFiles = of, !.fileHashes = fh]
<1>1. Reload(pg) = UpdateFileContent(at, n, c)
  BY DEF Reload, Pages
<1>2. /\ pg.openFiles \in [Names -> Contents \cup {None}]
      /\ pg.fileHashes \in [Names -> Contents \cup {None}]
      /\ n \in Names /\ c \in Contents
  BY BannerShown DEF Pages
<1> HIDE DEF n, c
<1>3. of \in [Names -> Contents \cup {None}] /\ fh \in [Names -> Contents \cup {None}]
  BY <1>2
<1> HIDE DEF of, fh
<1>4. at \in Pages /\ at.saving = pg.saving
  BY <1>3 DEF Pages, Banners
<1> HIDE DEF at
<1> QED
  BY <1>1, <1>2, <1>4, UpdateTouches DEF Touches

(* What a message that arrives does to a page.                             *)
LEMMA AppliedText ==
  ASSUME NEW pg \in Pages, NEW m \in Answers, m.kind \in {"file_content", "file_changed"},
         NEW r, r = Applied(pg, m), NEW n, n = FromPathToken(pg, m.path)
  PROVE  /\ Touches(pg, r, {n}) /\ r.openFiles[n] = m.content /\ n \in Names
         /\ m.kind = "file_changed" /\ Mirrors(pg) => Mirrors(r)
<1>1. m.path \in Paths /\ m.content \in Contents
  BY DEF Answers, Bare, Carrying
<1>2. n \in Names
  BY <1>1, NameOf
<1>3. CASE m.kind = "file_content"
  <2> DEFINE c == m.content
  <2>1. r = OnFileContent(pg, n, c) /\ c \in Contents
    BY <1>1, <1>3 DEF Applied
  <2> HIDE DEF c
  <2>2. Touches(pg, r, {n}) /\ r.openFiles[n] = c
    BY <1>2, <2>1, ContentTouches
  <2> QED
    BY <1>2, <1>3, <2>2 DEF c
<1>4. CASE m.kind = "file_changed"
  <2> DEFINE c == m.content
  <2>1. r = OnFileChanged(pg, n, c) /\ c \in Contents
    BY <1>1, <1>4 DEF Applied
  <2> HIDE DEF c
  <2>2. Touches(pg, r, {n}) /\ r.openFiles[n] = c /\ (Mirrors(pg) => Mirrors(r))
    BY <1>2, <2>1, ChangedTouches
  <2> QED
    BY <1>2, <2>2 DEF c
<1> QED
  BY <1>3, <1>4

LEMMA AppliedCreated ==
  ASSUME NEW pg \in Pages, NEW m \in Answers, m.kind = "file_created",
         NEW r, r = Applied(pg, m)
  PROVE  /\ Learns(pg, r, pg.pathMap \cup {m.path}, {m.path})
         /\ r.openFiles[m.path] = m.content /\ m.path \in Paths
         /\ Mirrors(pg) /\ Unknown(pg, m.path) => Mirrors(r)
<1>1. m.path \in Paths /\ m.content \in Contents
  BY DEF Answers, Bare, Carrying
<1> DEFINE p == m.path
           c == m.content
<1>2. r = OnFileCreated(pg, p, c) /\ p \in Paths /\ c \in Contents
  BY <1>1 DEF Applied
<1> HIDE DEF p, c
<1>3. /\ Learns(pg, r, pg.pathMap \cup {p}, {p}) /\ r.openFiles[p] = c
      /\ (Mirrors(pg) /\ Unknown(pg, p) => Mirrors(r))
  BY <1>2, CreatedLearns
<1> QED
  BY <1>2, <1>3 DEF p, c

LEMMA AppliedDeleted ==
  ASSUME NEW pg \in Pages, NEW m \in Answers, m.kind = "file_deleted",
         NEW r, r = Applied(pg, m), NEW n, n = FromPathToken(pg, m.path)
  PROVE  /\ Learns(pg, r, pg.pathMap \ {m.path}, {n}) /\ Unknown(r, n)
         /\ m.path \in Paths /\ n \in Names
         /\ Mirrors(pg) => Mirrors(r)
<1>1. m.path \in Paths
  BY DEF Answers, Bare, Carrying
<1>2. r = OnFileDeleted(pg, m.path)
  BY DEF Applied
<1> QED
  BY <1>1, <1>2, DeletedLearns, NameOf

LEMMA AppliedRejected ==
  ASSUME NEW pg \in Pages, NEW m \in Answers, m.kind = "save_rejected",
         NEW r, r = Applied(pg, m)
  PROVE  /\ r \in Pages /\ r.pathMap = pg.pathMap /\ r.saving = pg.saving
         /\ r.openFiles = pg.openFiles /\ r.fileStates = pg.fileStates
         /\ r.currentPath = pg.currentPath /\ r.view = pg.view
<1> DEFINE n == FromPathToken(pg, m.path)
<1>1. n \in Names /\ m.content \in Contents
  BY NameOf DEF Answers, Bare, Carrying
<1>2. r = OnSaveRejected(pg, n, m.content)
  BY DEF Applied
<1> HIDE DEF n
<1> QED
  BY <1>1, <1>2, RejectedIs

LEMMA AppliedTyped ==
  ASSUME NEW pg \in Pages, NEW m \in Answers, NEW r, r = Applied(pg, m)
  PROVE  r \in Pages /\ r.saving = pg.saving
<1>1. m.kind \in {"file_content", "file_changed", "file_created", "file_deleted", "save_rejected"}
  BY DEF Answers, Bare, Carrying, Changes
<1>2. CASE m.kind \in {"file_content", "file_changed"}
  <2> DEFINE n == FromPathToken(pg, m.path)
  <2>1. n = FromPathToken(pg, m.path)
    OBVIOUS
  <2> HIDE DEF n
  <2> QED
    BY <1>2, <2>1, AppliedText DEF Touches
<1>3. CASE m.kind = "file_created"
  BY <1>3, AppliedCreated DEF Learns
<1>4. CASE m.kind = "file_deleted"
  <2> DEFINE n == FromPathToken(pg, m.path)
  <2>1. n = FromPathToken(pg, m.path)
    OBVIOUS
  <2> HIDE DEF n
  <2> QED
    BY <1>4, <2>1, AppliedDeleted DEF Learns
<1>5. CASE m.kind = "save_rejected"
  BY <1>5, AppliedRejected
<1> QED
  BY <1>1, <1>2, <1>3, <1>4, <1>5

-----------------------------------------------------------------------------
(* Types are kept.                                                         *)

LEMMA Queued ==
  ASSUME NEW S, NEW s \in Seq(S), NEW m \in S
  PROVE  Append(s, m) \in Seq(S)
OBVIOUS

LEMMA Dequeued ==
  ASSUME NEW S, NEW s \in Seq(S), s # <<>>
  PROVE  Tail(s) \in Seq(S) /\ Head(s) \in S
OBVIOUS

LEMMA MapChanged ==
  ASSUME NEW S, NEW T, NEW f \in [S -> T], NEW x \in S, NEW y \in T
  PROVE  [f EXCEPT ![x] = y] \in [S -> T]
OBVIOUS

LEMMA MapAt ==
  ASSUME NEW S, NEW T, NEW f \in [S -> T], NEW x \in S, NEW y, NEW z \in S
  PROVE  [f EXCEPT ![x] = y][z] = IF z = x THEN y ELSE f[z]
OBVIOUS

(* A step of one page.                                                     *)
LEMMA PageTyped ==
  ASSUME PagesTyped, NEW b \in Browsers, NEW r \in Pages, page' = [page EXCEPT ![b] = r],
         saves' \in [Browsers -> 0 .. MaxSaves], asks' \in [Browsers -> 0 .. MaxAsks],
         r.saving # None => saves'[b] < MaxSaves,
         \A c \in Browsers \ {b} : saves'[c] = saves[c],
         overtaken' = overtaken, conflicted' \subseteq Browsers
  PROVE  PagesTyped'
<1>1. page \in [Browsers -> Pages]
  BY DEF PagesTyped
<1>2. page' \in [Browsers -> Pages]
  BY <1>1, MapChanged
<1>3. \A c \in Browsers : page'[c] = IF c = b THEN r ELSE page[c]
  BY <1>1, MapAt
<1> QED
  BY <1>2, <1>3 DEF PagesTyped

LEMMA TypedClick ==
  ASSUME Typed, NEW b \in Browsers, NEW n \in Names, Click(b, n)
  PROVE  Typed'
<1> DEFINE r == OpenFile(page[b], n)
           m == Msg("open_file", ToPathToken(n), None)
<1>1. page[b] \in Pages /\ up \in [Browsers -> Seq(Asked)] /\ asks \in [Browsers -> 0 .. MaxAsks]
  BY DEF Typed, PagesTyped, RelayTyped
<1>2. r \in Pages /\ r.saving = page[b].saving
  BY <1>1, OpenFileTouches DEF Touches
<1>3. /\ page' = [page EXCEPT ![b] = r]
      /\ UNCHANGED <<disk, events, job, texts, toDaemon, fromDaemon, cache, pendingFiles, down,
                     saves, overtaken, conflicted>>
      /\ \/ /\ asks[b] < MaxAsks /\ asks' = [asks EXCEPT ![b] = @ + 1]
            /\ up' = [up EXCEPT ![b] = Append(@, m)]
         \/ UNCHANGED <<asks, up>>
  BY DEF Click, daemonVars, relayVars
<1>4. m \in Asked
  BY Token DEF Msg, Asked, Bare
<1> HIDE DEF r, m
<1>5. asks' \in [Browsers -> 0 .. MaxAsks]
  <2>1. asks[b] < MaxAsks => asks[b] + 1 \in 0 .. MaxAsks
    BY <1>1, BoundAssumption
  <2> QED
    BY <1>1, <1>3, <2>1
<1>6. up' \in [Browsers -> Seq(Asked)]
  <2>1. Append(up[b], m) \in Seq(Asked)
    BY <1>1, <1>4, Queued
  <2> QED
    BY <1>1, <1>3, <2>1
<1>7. PagesTyped'
  BY <1>2, <1>3, <1>5, PageTyped DEF Typed, PagesTyped
<1> QED
  BY <1>3, <1>6, <1>7 DEF Typed, DiskTyped, RelayTyped

(* Close, Type, PressSave, PressOverwrite and PressReload.                 *)
LEMMA TypedLocal ==
  ASSUME Typed, NEW b \in Browsers, NEW r \in Pages, page' = [page EXCEPT ![b] = r],
         r.saving \in {None, page[b].saving} \/ saves[b] < MaxSaves,
         texts' \in 0 .. MaxTexts,
         UNCHANGED <<disk, events, job, toDaemon, fromDaemon, cache, pendingFiles, up, down,
                     saves, asks, overtaken, conflicted>>
  PROVE  Typed'
<1>1. PagesTyped'
  BY PageTyped DEF Typed, PagesTyped
<1> QED
  BY <1>1 DEF Typed, DiskTyped, RelayTyped

LEMMA TypedUser ==
  ASSUME Typed, NEW b \in Browsers,
         (\E n \in Names : Close(b, n)) \/ Type(b) \/ PressSave(b) \/ PressOverwrite(b)
         \/ PressReload(b)
  PROVE  Typed'
<1>0. /\ page[b] \in Pages /\ texts \in 0 .. MaxTexts
      /\ page[b].saving # None => saves[b] < MaxSaves
  BY DEF Typed, PagesTyped, DiskTyped
<1>1. ASSUME NEW n \in Names, Close(b, n) PROVE Typed'
  <2>1. CloseTab(page[b], n) \in Pages /\ CloseTab(page[b], n).saving = page[b].saving
    BY <1>0, CloseTabTouches DEF Touches
  <2> QED
    BY <1>0, <1>1, <2>1, TypedLocal DEF Close, PageOnly, daemonVars, relayVars
<1>2. CASE Type(b)
  <2> DEFINE v == <<ToPathToken(page[b].currentPath), texts'>>
             r == [page[b] EXCEPT !.view = v]
  <2>1. texts' \in 0 .. MaxTexts
    BY <1>0, <1>2, BoundAssumption DEF Type
  <2>2. page[b].currentPath \in Names
    BY <1>0, <1>2 DEF Type, Pages
  <2>3. v \in Contents
    BY <2>1, <2>2, Token DEF Contents
  <2> HIDE DEF v
  <2>4. r \in Pages /\ r.saving = page[b].saving
    BY <1>0, <2>3 DEF Pages
  <2>5. page' = [page EXCEPT ![b] = r]
    BY <1>2 DEF Type, v
  <2> HIDE DEF r
  <2> QED
    BY <1>0, <1>2, <2>1, <2>4, <2>5, TypedLocal DEF Type, daemonVars, relayVars
<1>3. CASE PressSave(b)
  <2>1. SaveFile(page[b]) \in Pages
    BY <1>0, <1>3, SaveFileIs DEF PressSave
  <2> QED
    BY <1>0, <1>3, <2>1, TypedLocal DEF PressSave, PageOnly, daemonVars, relayVars
<1>4. CASE PressOverwrite(b)
  <2>1. Overwrite(page[b]) \in Pages
    BY <1>0, <1>4, OverwriteTyped DEF PressOverwrite
  <2> QED
    BY <1>0, <1>4, <2>1, TypedLocal DEF PressOverwrite, PageOnly, daemonVars, relayVars
<1>5. CASE PressReload(b)
  <2>1. Reload(page[b]) \in Pages /\ Reload(page[b]).saving = page[b].saving
    BY <1>0, <1>5, ReloadTyped DEF PressReload
  <2> QED
    BY <1>0, <1>5, <2>1, TypedLocal DEF PressReload, PageOnly, daemonVars, relayVars
<1> QED
  BY <1>1, <1>2, <1>3, <1>4, <1>5

LEMMA TypedSendSave ==
  ASSUME Typed, NEW b \in Browsers, SendSave(b)
  PROVE  Typed'
<1> DEFINE n == page[b].activeFile
           r == [page[b] EXCEPT !.saving = None]
           m == Save(ToPathToken(n), page[b].saving, page[b].fileHashes[n])
<1>1. /\ page[b] \in Pages /\ up \in [Browsers -> Seq(Asked)]
      /\ saves \in [Browsers -> 0 .. MaxSaves] /\ saves[b] < MaxSaves
  BY DEF Typed, PagesTyped, RelayTyped, SendSave
<1>2. r \in Pages /\ r.saving = None
  BY <1>1 DEF Pages
<1>3. /\ page' = [page EXCEPT ![b] = r]
      /\ UNCHANGED <<disk, events, job, texts, toDaemon, fromDaemon, cache, pendingFiles, down,
                     asks, overtaken, conflicted>>
      /\ \/ n = None /\ UNCHANGED <<up, saves>>
         \/ /\ n # None /\ up' = [up EXCEPT ![b] = Append(@, m)]
            /\ saves' = [saves EXCEPT ![b] = @ + 1]
  BY DEF SendSave, daemonVars, relayVars
<1>4. n # None => m \in Asked
  <2> SUFFICES ASSUME n # None PROVE m \in Asked
    OBVIOUS
  <2>1. n \in Names /\ page[b].saving \in Contents
    BY <1>1 DEF Pages, SendSave
  <2>2. page[b].fileHashes[n] \in Contents \cup {None}
    BY <1>1, <2>1 DEF Pages
  <2>3. ToPathToken(n) \in Paths
    BY <2>1, Token
  <2> QED
    BY <2>1, <2>2, <2>3 DEF Save, Asked, Saving
<1> HIDE DEF r, m
<1>5. saves' \in [Browsers -> 0 .. MaxSaves] /\ \A c \in Browsers \ {b} : saves'[c] = saves[c]
  <2>1. saves[b] + 1 \in 0 .. MaxSaves
    BY <1>1, BoundAssumption
  <2> QED
    BY <1>1, <1>3, <2>1
<1>6. up' \in [Browsers -> Seq(Asked)]
  <2>1. n # None => Append(up[b], m) \in Seq(Asked)
    BY <1>1, <1>4, Queued
  <2> QED
    BY <1>1, <1>3, <2>1
<1>7. PagesTyped'
  BY <1>2, <1>3, <1>5, PageTyped DEF Typed, PagesTyped
<1> QED
  BY <1>3, <1>6, <1>7 DEF Typed, DiskTyped, RelayTyped

LEMMA TypedReceive ==
  ASSUME Typed, NEW b \in Browsers, Receive(b)
  PROVE  Typed'
<1> DEFINE m == Head(down[b])
           r == Applied(page[b], m)
<1>1. page[b] \in Pages /\ down \in [Browsers -> Seq(Answers)] /\ down[b] # <<>>
  BY DEF Typed, PagesTyped, RelayTyped, Receive
<1>2. m \in Answers /\ Tail(down[b]) \in Seq(Answers)
  BY <1>1, Dequeued
<1>3. /\ page' = [page EXCEPT ![b] = r] /\ down' = [down EXCEPT ![b] = Tail(@)]
      /\ UNCHANGED <<disk, events, job, texts, toDaemon, fromDaemon, cache, pendingFiles, up,
                     saves, asks, overtaken>>
      /\ conflicted' \subseteq Browsers
  BY DEF Receive, daemonVars, relayVars, Typed, PagesTyped
<1> HIDE DEF m
<1>4. r \in Pages /\ r.saving = page[b].saving
  BY <1>1, <1>2, AppliedTyped
<1> HIDE DEF r
<1>5. down' \in [Browsers -> Seq(Answers)]
  BY <1>1, <1>2, <1>3
<1>6. PagesTyped'
  BY <1>3, <1>4, PageTyped DEF Typed, PagesTyped
<1> QED
  BY <1>3, <1>5, <1>6 DEF Typed, DiskTyped, RelayTyped

LEMMA TypedRelayStep ==
  ASSUME Typed, NEW b \in Browsers, RelayStep(b)
  PROVE  Typed'
<1> DEFINE m == Head(up[b])
           p == m.path
<1>1. /\ up \in [Browsers -> Seq(Asked)] /\ down \in [Browsers -> Seq(Answers)]
      /\ toDaemon \in Seq(Orders) /\ cache \in [Paths -> Contents \cup {None}]
      /\ pendingFiles \in [Paths -> Browsers \cup {None}]
  BY DEF Typed, RelayTyped
<1>2. /\ up[b] # <<>> /\ up' = [up EXCEPT ![b] = Tail(@)]
      /\ UNCHANGED <<disk, events, job, texts, fromDaemon, cache, page, saves, asks,
                     overtaken, conflicted>>
  BY DEF RelayStep, RelayOpen, RelaySave, daemonVars, relayVars, pageVars
<1>3. m \in Asked /\ Tail(up[b]) \in Seq(Asked)
  BY <1>1, <1>2, Dequeued
<1>4. up' \in [Browsers -> Seq(Asked)]
  BY <1>1, <1>2, <1>3
<1>5. p \in Paths /\ (m.kind = "save_file" => m.content \in Contents)
  BY <1>3 DEF Asked, Bare, Saving
<1>6. CASE RelayOpen(b)
  <2>1. /\ toDaemon' = Append(toDaemon, Msg("request_file", p, None))
        /\ pendingFiles' = [pendingFiles EXCEPT ![p] = b] /\ UNCHANGED down
    BY <1>6 DEF RelayOpen
  <2>2. Msg("request_file", p, None) \in Orders
    BY <1>5 DEF Msg, Orders, Bare
  <2> HIDE DEF m, p
  <2>3. toDaemon' \in Seq(Orders) /\ pendingFiles' \in [Paths -> Browsers \cup {None}]
    BY <1>1, <1>5, <2>1, <2>2, Queued
  <2> QED
    BY <1>1, <1>2, <1>4, <2>1, <2>3 DEF Typed, DiskTyped, RelayTyped, PagesTyped
<1>7. CASE RelaySave(b)
  <2>1. m.content \in Contents /\ UNCHANGED pendingFiles
    BY <1>5, <1>7 DEF RelaySave, relayVars
  <2>2. CASE Rejects(m)
    <3> DEFINE k == Msg("save_rejected", p, cache[p])
    <3>1. down' = [down EXCEPT ![b] = Append(@, k)] /\ UNCHANGED toDaemon
      BY <1>7, <2>2 DEF RelaySave
    <3>2. cache[p] \in Contents
      BY <1>1, <1>5, <2>2 DEF Rejects
    <3>3. k \in Answers
      BY <1>5, <3>2 DEF Msg, Answers, Carrying
    <3> HIDE DEF k, m, p
    <3>4. Append(down[b], k) \in Seq(Answers)
      BY <1>1, <3>3, Queued
    <3>5. down' \in [Browsers -> Seq(Answers)]
      BY <1>1, <3>1, <3>4
    <3> QED
      BY <1>1, <1>2, <1>4, <2>1, <3>1, <3>5 DEF Typed, DiskTyped, RelayTyped, PagesTyped
  <2>3. CASE ~Rejects(m)
    <3> DEFINE k == Msg("write_file", p, m.content)
    <3>1. toDaemon' = Append(toDaemon, k) /\ UNCHANGED down
      BY <1>7, <2>3 DEF RelaySave
    <3>2. k \in Orders
      BY <1>5, <2>1 DEF Msg, Orders, Carrying
    <3> HIDE DEF k, m, p
    <3>3. toDaemon' \in Seq(Orders)
      BY <1>1, <3>1, <3>2, Queued
    <3> QED
      BY <1>1, <1>2, <1>4, <2>1, <3>1, <3>3 DEF Typed, DiskTyped, RelayTyped, PagesTyped
  <2> QED
    BY <2>2, <2>3
<1> QED
  BY <1>6, <1>7 DEF RelayStep

LEMMA TypedFromDaemon == ASSUME Typed, RelayFromDaemon PROVE Typed'
<1> DEFINE m == Head(fromDaemon)
           p == m.path
           c == m.content
<1>1. /\ fromDaemon \in Seq(Reports) /\ down \in [Browsers -> Seq(Answers)]
      /\ cache \in [Paths -> Contents \cup {None}]
      /\ pendingFiles \in [Paths -> Browsers \cup {None}]
  BY DEF Typed, RelayTyped
<1>2. /\ fromDaemon # <<>> /\ fromDaemon' = Tail(fromDaemon)
      /\ RelayContent(m) \/ RelayChange(m) \/ RelayDelete(m) \/ RelayError(m)
      /\ UNCHANGED <<disk, events, job, texts, toDaemon, up, page, saves, asks, overtaken,
                     conflicted>>
  BY DEF RelayFromDaemon, daemonVars, pageVars
<1>3. m \in Reports /\ fromDaemon' \in Seq(Reports)
  BY <1>1, <1>2, Dequeued
<1> HIDE DEF m
<1>4. p \in Paths /\ (m.kind \in Changes \cup {"file_content"} => c \in Contents)
  BY <1>3 DEF Reports, Bare, Carrying, Changes
<1>5. m.kind \in Changes \cup {"file_content", "file_deleted"} => m \in Answers
  BY <1>3 DEF Reports, Answers, Bare, Carrying, Changes
<1>6. m \in Answers => \A b \in Browsers : Append(down[b], m) \in Seq(Answers)
  BY <1>1, Queued
<1>7. /\ cache' \in [Paths -> Contents \cup {None}]
      /\ pendingFiles' \in [Paths -> Browsers \cup {None}]
      /\ down' \in [Browsers -> Seq(Answers)]
  <2>1. CASE RelayContent(m)
    <3>1. /\ cache' = [cache EXCEPT ![p] = c] /\ pendingFiles' = [pendingFiles EXCEPT ![p] = None]
          /\ down' = IF pendingFiles[p] = None THEN down
                     ELSE [down EXCEPT ![pendingFiles[p]] = Append(@, m)]
          /\ m.kind = "file_content"
      BY <2>1 DEF RelayContent
    <3>2. c \in Contents /\ m \in Answers
      BY <1>4, <1>5, <3>1
    <3> HIDE DEF p, c
    <3>3. down' \in [Browsers -> Seq(Answers)]
      BY <1>1, <1>4, <1>6, <3>1, <3>2
    <3> QED
      BY <1>1, <1>4, <3>1, <3>2, <3>3
  <2>2. CASE RelayChange(m)
    <3>1. /\ cache' = [cache EXCEPT ![p] = c] /\ UNCHANGED pendingFiles
          /\ down' = [b \in Browsers |-> Append(down[b], m)]
          /\ m.kind \in Changes
      BY <2>2 DEF RelayChange, Cached, Broadcast, Changes
    <3>2. c \in Contents /\ m \in Answers
      BY <1>4, <1>5, <3>1
    <3> HIDE DEF p, c
    <3> QED
      BY <1>1, <1>4, <1>6, <3>1, <3>2
  <2>3. CASE RelayDelete(m)
    <3>1. /\ UNCHANGED <<cache, pendingFiles>> /\ m \in Answers
          /\ down' = [b \in Browsers |-> Append(down[b], m)]
      BY <1>5, <2>3 DEF RelayDelete, Broadcast, relayVars
    <3> QED
      BY <1>1, <1>6, <3>1
  <2>4. CASE RelayError(m)
    BY <1>1, <2>4 DEF RelayError, relayVars
  <2> QED
    BY <1>2, <2>1, <2>2, <2>3, <2>4
<1> QED
  BY <1>2, <1>3, <1>7 DEF Typed, DiskTyped, RelayTyped, PagesTyped

LEMMA TypedReadFile == ASSUME Typed, ReadFile \/ SendContent PROVE Typed'
<1>1. /\ toDaemon \in Seq(Orders) /\ fromDaemon \in Seq(Reports) /\ job \in Jobs
      /\ disk \in [Paths -> Contents \cup {None}]
  BY DEF Typed, RelayTyped, DiskTyped
<1>2. UNCHANGED <<disk, events, texts, cache, pendingFiles, up, down, page, saves, asks,
                  overtaken, conflicted>>
  BY DEF ReadFile, SendContent, relayVars, pageVars
<1>3. CASE ReadFile
  <2> DEFINE p == Head(toDaemon).path
             e == Msg("error", p, None)
             j == Msg("request_file", p, disk[p])
  <2>1. /\ toDaemon # <<>> /\ toDaemon' = Tail(toDaemon)
        /\ \/ disk[p] = None /\ fromDaemon' = Append(fromDaemon, e) /\ UNCHANGED job
           \/ disk[p] # None /\ job' = j /\ UNCHANGED fromDaemon
    BY <1>3 DEF ReadFile
  <2>2. toDaemon' \in Seq(Orders) /\ Head(toDaemon) \in Orders
    BY <1>1, <2>1, Dequeued
  <2>3. p \in Paths
    BY <2>2 DEF Orders, Bare, Carrying
  <2> HIDE DEF p
  <2>4. e \in Reports /\ (disk[p] # None => j \in Jobs)
    BY <1>1, <2>3 DEF Msg, Reports, Jobs, Bare, Carrying
  <2> HIDE DEF e, j
  <2>5. job' \in Jobs /\ fromDaemon' \in Seq(Reports)
    BY <1>1, <2>1, <2>4, Queued
  <2> QED
    BY <1>2, <2>2, <2>5 DEF Typed, DiskTyped, RelayTyped, PagesTyped
<1>4. CASE SendContent
  <2> DEFINE m == Msg("file_content", job.path, job.content)
  <2>1. /\ job.kind = "request_file" /\ job' = Idle /\ UNCHANGED toDaemon
        /\ fromDaemon' = Append(fromDaemon, m)
    BY <1>4 DEF SendContent
  <2>2. m \in Reports
    BY <1>1, <2>1 DEF Msg, Jobs, Idle, Carrying, Reports
  <2> HIDE DEF m
  <2>3. job' \in Jobs /\ fromDaemon' \in Seq(Reports)
    BY <1>1, <2>1, <2>2, Queued DEF Jobs
  <2> QED
    BY <1>2, <2>1, <2>3 DEF Typed, DiskTyped, RelayTyped, PagesTyped
<1> QED
  BY <1>3, <1>4

LEMMA TypedDisk ==
  ASSUME Typed, NEW p \in Paths, NEW c \in Contents \cup {None}, NEW k \in Events,
         disk' = [disk EXCEPT ![p] = c], events' = Append(events, k), job' \in Jobs,
         texts' \in 0 .. MaxTexts, toDaemon' \in Seq(Orders),
         UNCHANGED <<fromDaemon, cache, pendingFiles, up, down, page, saves, asks,
                     overtaken, conflicted>>
  PROVE  Typed'
<1>1. disk \in [Paths -> Contents \cup {None}] /\ events \in Seq(Events)
  BY DEF Typed, DiskTyped
<1>2. disk' \in [Paths -> Contents \cup {None}]
  BY <1>1, MapChanged
<1>3. events' \in Seq(Events)
  BY <1>1, Queued
<1> QED
  BY <1>2, <1>3 DEF Typed, DiskTyped, RelayTyped, PagesTyped

LEMMA TypedWrites ==
  ASSUME Typed, \/ TruncateFile \/ WriteFile
                \/ \E p \in Paths, kind \in Edits : Edit(p, kind)
  PROVE  Typed'
<1>1. /\ toDaemon \in Seq(Orders) /\ job \in Jobs /\ texts \in 0 .. MaxTexts
      /\ disk \in [Paths -> Contents \cup {None}] /\ Blank \in Contents
  BY DEF Typed, RelayTyped, DiskTyped, Contents
<1>2. CASE TruncateFile
  <2> DEFINE m == Head(toDaemon)
             p == m.path
             kind == IF disk[p] = None THEN "file_created" ELSE "file_changed"
             k == Msg(kind, p, None)
  <2>1. /\ toDaemon # <<>> /\ toDaemon' = Tail(toDaemon) /\ m.kind = "write_file" /\ job' = m
        /\ disk' = [disk EXCEPT ![p] = Blank] /\ events' = Append(events, k)
        /\ UNCHANGED <<texts, fromDaemon, cache, pendingFiles, up, down, page, saves, asks,
                       overtaken, conflicted>>
    BY <1>2 DEF TruncateFile, relayVars, pageVars
  <2>2. toDaemon' \in Seq(Orders) /\ m \in Orders
    BY <1>1, <2>1, Dequeued
  <2>3. p \in Paths /\ job' \in Jobs
    BY <2>1, <2>2 DEF Orders, Bare, Carrying, Jobs
  <2>4. k \in Events
    BY <2>3 DEF Msg, Events, Bare, Changes
  <2> HIDE DEF k, m, p
  <2> QED
    BY <1>1, <2>1, <2>2, <2>3, <2>4, TypedDisk
<1>3. CASE WriteFile
  <2> DEFINE p == job.path
             c == job.content
             k == Msg("file_changed", p, None)
  <2>1. /\ job.kind = "write_file" /\ job' = Idle
        /\ disk' = [disk EXCEPT ![p] = c] /\ events' = Append(events, k)
        /\ UNCHANGED <<texts, toDaemon, fromDaemon, cache, pendingFiles, up, down, page, saves,
                       asks, overtaken, conflicted>>
    BY <1>3 DEF WriteFile, relayVars, pageVars
  <2>2. p \in Paths /\ c \in Contents
    BY <1>1, <2>1 DEF Jobs, Idle, Carrying
  <2>3. k \in Events
    BY <2>2 DEF Msg, Events, Bare, Changes
  <2>4. job' \in Jobs
    BY <2>1 DEF Jobs
  <2> HIDE DEF k, c, p
  <2> QED
    BY <1>1, <2>1, <2>2, <2>3, <2>4, TypedDisk
<1>4. ASSUME NEW p \in Paths, NEW kind \in Edits, Edit(p, kind) PROVE Typed'
  <2> DEFINE c == IF kind = "delete" THEN None ELSE <<p, texts'>>
             k == Msg(CASE kind = "write" -> "file_changed"
                        [] kind = "replace" -> "file_created"
                        [] kind = "delete" -> "file_deleted", p, None)
  <2>1. /\ texts < MaxTexts /\ texts' = texts + 1
        /\ disk' = [disk EXCEPT ![p] = c] /\ events' = Append(events, k)
        /\ UNCHANGED <<job, toDaemon, fromDaemon, cache, pendingFiles, up, down, page, saves,
                       asks, overtaken, conflicted>>
    BY <1>4 DEF Edit, relayVars, pageVars
  <2>2. texts' \in 0 .. MaxTexts
    BY <1>1, <2>1, BoundAssumption
  <2>3. c \in Contents \cup {None}
    BY <2>2 DEF Contents
  <2>4. k \in Events
    <3>1. kind \in {"write", "replace", "delete"}
      BY InputAssumption
    <3> QED
      BY <3>1 DEF Msg, Events, Bare, Changes
  <2> HIDE DEF k, c
  <2> QED
    BY <1>1, <2>1, <2>2, <2>3, <2>4, TypedDisk
<1> QED
  BY <1>2, <1>3, <1>4

LEMMA TypedEvent == ASSUME Typed, HandleFSEvent PROVE Typed'
<1> DEFINE e == Head(events)
           m == Msg(e.kind, e.path, IF e.kind = "file_deleted" THEN None ELSE disk[e.path])
<1>1. /\ events \in Seq(Events) /\ fromDaemon \in Seq(Reports)
      /\ disk \in [Paths -> Contents \cup {None}] /\ overtaken \subseteq Paths
  BY DEF Typed, RelayTyped, DiskTyped, PagesTyped
<1>2. /\ events # <<>> /\ events' = Tail(events)
      /\ \/ UNCHANGED <<fromDaemon, overtaken>>
         \/ /\ ~(e.kind # "file_deleted" /\ disk[e.path] = None)
            /\ fromDaemon' = Append(fromDaemon, m)
            /\ overtaken' \in {overtaken, overtaken \cup {e.path}}
      /\ UNCHANGED <<disk, job, texts, toDaemon, cache, pendingFiles, up, down, page, saves, asks,
                     conflicted>>
  BY DEF HandleFSEvent, relayVars, pageVars
<1>3. events' \in Seq(Events) /\ e \in Events
  BY <1>1, <1>2, Dequeued
<1> HIDE DEF e
<1>4. e.path \in Paths /\ e.kind \in Changes \cup {"file_deleted"}
  BY <1>3 DEF Events, Bare
<1>5. e.kind = "file_deleted" \/ disk[e.path] # None => m \in Reports
  BY <1>1, <1>4 DEF Msg, Reports, Bare, Carrying, Changes
<1> HIDE DEF m
<1>6. fromDaemon' \in Seq(Reports) /\ overtaken' \subseteq Paths
  BY <1>1, <1>2, <1>4, <1>5, Queued
<1> QED
  BY <1>2, <1>3, <1>6 DEF Typed, DiskTyped, RelayTyped, PagesTyped

LEMMA TypedNext == Typed /\ [Next]_vars => Typed'
<1> SUFFICES ASSUME Typed, [Next]_vars PROVE Typed'
  OBVIOUS
<1>1. CASE UNCHANGED vars
  BY <1>1 DEF vars, daemonVars, relayVars, pageVars, Typed, DiskTyped, RelayTyped, PagesTyped
<1>2. ASSUME NEW b \in Browsers, NEW n \in Names, Click(b, n) PROVE Typed'
  BY <1>2, TypedClick
<1>3. ASSUME NEW b \in Browsers, NEW n \in Names, Close(b, n) PROVE Typed'
  BY <1>3, TypedUser
<1>4. ASSUME NEW b \in Browsers, Type(b) \/ PressSave(b) \/ PressOverwrite(b) \/ PressReload(b)
      PROVE  Typed'
  BY <1>4, TypedUser
<1>5. ASSUME NEW b \in Browsers, SendSave(b) \/ Receive(b) \/ RelayStep(b) PROVE Typed'
  BY <1>5, TypedSendSave, TypedReceive, TypedRelayStep
<1>6. CASE RelayFromDaemon
  BY <1>6, TypedFromDaemon
<1>7. CASE DaemonStep
  BY <1>7, TypedReadFile, TypedWrites DEF DaemonStep
<1>8. CASE HandleFSEvent
  BY <1>8, TypedEvent
<1>9. CASE \E p \in Paths, kind \in Edits : Edit(p, kind)
  BY <1>9, TypedWrites
<1> QED
  BY <1>1, <1>2, <1>3, <1>4, <1>5, <1>6, <1>7, <1>8, <1>9 DEF Next

LEMMA EmptyTyped == EmptyPage \in Pages
<1>1. <<>> \in {s \in Seq(Names) : Distinct(s)}
  BY DEF Distinct
<1>2. Blank \in Contents /\ NoBanner \in Banners
  BY DEF Contents, Banners
<1> QED
  BY <1>1, <1>2 DEF EmptyPage, Pages

(* At first a page shows a file that it has open, or nothing.              *)
LEMMA FirstPage ==
  ASSUME NEW S \in SUBSET Paths, NEW pg, pg = PageWith(S)
  PROVE  /\ pg \in Pages /\ pg.saving = None /\ pg.banner = NoBanner /\ pg.pathMap = Paths
         /\ pg.currentPath = None /\ Mirrors(pg)
         /\ \A n \in Names : pg.openFiles[n] = IF n \in S THEN <<n, 0>> ELSE None
<1> DEFINE f == [n \in Names |-> IF n \in S THEN <<n, 0>> ELSE None]
<1>1. f \in [Names -> Contents \cup {None}]
  <2>1. \A n \in S : <<n, 0>> \in Contents
    BY BoundAssumption DEF Contents
  <2> QED
    BY <2>1
<1>2. pg = [EmptyPage EXCEPT !.openFiles = f, !.fileHashes = f]
  BY DEF PageWith
<1>3. \A n \in Names : f[n] = IF n \in S THEN <<n, 0>> ELSE None
  OBVIOUS
<1> HIDE DEF f
<1>4. pg \in Pages
  BY <1>1, <1>2, EmptyTyped DEF Pages
<1>5. /\ pg.saving = None /\ pg.banner = NoBanner /\ pg.pathMap = Paths
      /\ pg.currentPath = None /\ pg.openFiles = f /\ pg.fileStates = [n \in Names |-> None]
  BY <1>2 DEF EmptyPage
<1> QED
  BY <1>3, <1>4, <1>5 DEF Mirrors

LEMMA FirstPages ==
  ASSUME Init, NEW b \in Browsers
  PROVE  /\ page[b] \in Pages /\ page[b].saving = None /\ page[b].banner = NoBanner
         /\ page[b].pathMap = Paths /\ Mirrors(page[b])
         /\ \A p \in Paths : page[b].openFiles[p] \in {None, <<p, 0>>}
<1>1. CASE Opened[b] = {}
  <2>1. page[b] = EmptyPage
    BY <1>1 DEF Init
  <2> QED
    BY <2>1, EmptyTyped DEF EmptyPage, Mirrors, Names
<1>2. CASE Opened[b] # {}
  <2>1. PICK p \in Opened[b] : page[b] = Showing(PageWith(Opened[b]), p)
    BY <1>2 DEF Init
  <2> DEFINE pg == PageWith(Opened[b])
             r == OpenFile(pg, p)
  <2>2. Opened[b] \in SUBSET Paths /\ p \in Names /\ page[b] = r
    BY <2>1, InputAssumption DEF Showing, Names
  <2>a. pg = PageWith(Opened[b])
    OBVIOUS
  <2> HIDE DEF pg
  <2>3. /\ pg \in Pages /\ pg.saving = None /\ pg.banner = NoBanner /\ pg.pathMap = Paths
        /\ pg.currentPath = None /\ Mirrors(pg)
        /\ \A n \in Names : pg.openFiles[n] = IF n \in Opened[b] THEN <<n, 0>> ELSE None
    BY <2>a, <2>2, FirstPage
  <2>4. /\ Touches(pg, r, {p}) /\ r.openFiles = pg.openFiles
        /\ Mirrors(pg) => Mirrors(r)
    BY <2>2, <2>3, OpenFileTouches
  <2> HIDE DEF r
  <2> QED
    BY <2>2, <2>3, <2>4 DEF Touches, Names
<1> QED
  BY <1>1, <1>2

LEMMA TypedInit == Init => Typed
<1> SUFFICES ASSUME Init PROVE Typed
  OBVIOUS
<1>1. page \in [Browsers -> Pages] /\ \A b \in Browsers : page[b].saving = None
  <2>1. DOMAIN page = Browsers /\ page = [b \in Browsers |-> page[b]]
    BY DEF Init
  <2> QED
    BY <2>1, FirstPages
<1>2. \A p \in Paths : <<p, 0>> \in Contents
  BY BoundAssumption DEF Contents
<1> QED
  BY <1>1, <1>2, BoundAssumption
     DEF Init, Typed, DiskTyped, RelayTyped, PagesTyped, Jobs

LEMMA TypedAlways == Spec => []Typed
BY TypedInit, TypedNext, PTL DEF Spec

(* FileSync.TypeOK: every field keeps the type the code declares for it,   *)
(* every queue carries only messages its reader has a case for, and no     *)
(* page has two tabs for one file (addTab and closeTab of app.js).         *)
THEOREM TypeCorrect == Spec => []TypeOK
BY TypedAlways, TypedFits, PTL

-----------------------------------------------------------------------------
(* What the user has typed into the view is kept.                          *)

Same(pg, r) == r.currentPath = pg.currentPath /\ r.view = pg.view

LEMMA ContentKeeps ==
  ASSUME NEW pg \in Pages, NEW p \in Names, NEW c \in Contents, pg.currentPath # None,
         NEW r, r = OnFileContent(pg, p, c)
  PROVE  TextOf(r, pg.currentPath) = pg.view
<1> DEFINE at == [pg EXCEPT !.openFiles[p] = c, !.fileHashes[p] = c]
           q == AddTab(at, p)
<1>1. r = OpenFileInEditor(q, p, c)
  BY DEF OnFileContent
<1>2. at = Copied(pg, p, c, c)
  BY DEF Copied
<1> HIDE DEF at
<1>3. at \in Pages /\ Same(pg, at)
  BY <1>2, CopyTouches DEF Touches, Same
<1>4. q \in Pages /\ Same(at, q)
  BY <1>3, AddTabTouches DEF Touches, Same
<1> HIDE DEF q
<1> DEFINE x == pg.currentPath
<1>5. x \in Names /\ x = q.currentPath /\ q.view = pg.view
  BY <1>3, <1>4 DEF Same, Pages
<1>6. /\ r.currentPath = p
      /\ p = q.currentPath => r.view = q.view
      /\ \A n \in Names : r.fileStates[n] = IF n = p THEN None
                                            ELSE IF n = q.currentPath THEN q.view
                                            ELSE q.fileStates[n]
  BY <1>1, <1>4, ShownIs
<1> HIDE DEF x
<1>7. TextOf(r, x) = q.view
  BY <1>5, <1>6 DEF TextOf
<1> QED
  BY <1>5, <1>7 DEF x

LEMMA ChangedKeeps ==
  ASSUME NEW pg \in Pages, NEW p \in Names, NEW c \in Contents, pg.currentPath # None,
         pg.openFiles[pg.currentPath] # None, pg.openFiles[pg.currentPath] # pg.view,
         NEW r, r = OnFileChanged(pg, p, c)
  PROVE  Same(pg, r)
<1>1. CASE p = pg.currentPath
  <2> DEFINE d == pg.fileHashes[p]
  <2>1. d \in Contents \cup {None}
    BY DEF Pages
  <2>2. r = Copied(pg, p, c, d)
    BY <1>1 DEF OnFileChanged, HasLocalEdits, Pages, Copied
  <2> HIDE DEF d
  <2>3. pg \in Pages /\ p \in Names /\ c \in Contents
    OBVIOUS
  <2>4. Touches(pg, r, {p}) /\ r.currentPath = pg.currentPath /\ r.view = pg.view
    BY <2>1, <2>2, <2>3, CopyTouches
  <2> QED
    BY ONLY <2>4 DEF Same
<1>2. CASE p # pg.currentPath
  <2> DEFINE at == [pg EXCEPT !.openFiles[p] = c, !.fileHashes[p] = c]
  <2>1. r = UpdateFileContent(at, p, c)
    BY <1>2 DEF OnFileChanged, HasLocalEdits
  <2>2. at = Copied(pg, p, c, c)
    BY DEF Copied
  <2> HIDE DEF at
  <2>3. at \in Pages /\ Same(pg, at)
    BY <2>2, CopyTouches DEF Touches, Same
  <2>4. Updated(at, r, p, c)
    BY <2>1, <2>3, UpdateTouches
  <2> QED
    BY <1>2, <2>3, <2>4 DEF Updated, Same
<1> QED
  BY <1>1, <1>2

LEMMA ViewKept ==
  ASSUME NEW pg \in Pages, NEW m \in Answers, m.kind # "file_deleted", NEW p \in Paths,
         Unsaved(pg, p), pg.currentPath = p, NEW r, r = Applied(pg, m)
  PROVE  TextOf(r, p) = TextOf(pg, p)
<1> DEFINE c == m.content
           n == FromPathToken(pg, m.path)
<1>1. /\ m.path \in Paths /\ c \in Contents
      /\ m.kind \in {"file_content", "file_changed", "file_created", "save_rejected"}
  BY DEF Answers, Bare, Carrying, Changes
<1>2. n \in Names
  BY <1>1, NameOf
<1>3. /\ pg.currentPath # None /\ pg.openFiles[pg.currentPath] # None
      /\ pg.openFiles[pg.currentPath] # pg.view /\ TextOf(pg, p) = pg.view
  BY NamesAssumption DEF Names, Unsaved, TextOf
<1>4. Same(pg, r) => TextOf(r, p) = TextOf(pg, p)
  BY DEF Same, TextOf
<1>5. CASE m.kind = "file_content"
  <2>1. r = OnFileContent(pg, n, c)
    BY <1>5 DEF Applied
  <2> HIDE DEF c, n
  <2>2. TextOf(r, pg.currentPath) = pg.view
    BY <1>1, <1>2, <1>3, <2>1, ContentKeeps
  <2> QED
    BY <1>3, <2>2
<1>6. CASE m.kind = "file_changed"
  <2>1. r = OnFileChanged(pg, n, c)
    BY <1>6 DEF Applied
  <2> HIDE DEF c, n
  <2>2. Same(pg, r)
    BY <1>1, <1>2, <1>3, <2>1, ChangedKeeps
  <2> QED
    BY <1>4, <2>2
<1>7. CASE m.kind = "file_created"
  <2>1. Same(pg, r)
    BY <1>7 DEF Applied, OnFileCreated, Same, Pages
  <2> QED
    BY <1>4, <2>1
<1>8. CASE m.kind = "save_rejected"
  <2>1. Same(pg, r)
    BY <1>8 DEF Applied, OnSaveRejected, Same, Pages
  <2> QED
    BY <1>4, <2>1
<1> QED
  BY <1>1, <1>5, <1>6, <1>7, <1>8

LEMMA ViewKeptInStep ==
  Typed => \A b \in Browsers : \A p \in Paths :
             Receive(b) /\ Unsaved(page[b], p) /\ page[b].currentPath = p
               => TextOf(page'[b], p) = TextOf(page[b], p) \/ Head(down[b]).kind = "file_deleted"
<1> SUFFICES ASSUME Typed, NEW b \in Browsers, NEW p \in Paths, Receive(b),
                    Unsaved(page[b], p), page[b].currentPath = p,
                    Head(down[b]).kind # "file_deleted"
             PROVE  TextOf(page'[b], p) = TextOf(page[b], p)
  OBVIOUS
<1> DEFINE pg == page[b]
           m == Head(down[b])
           r == page'[b]
<1>1. /\ page \in [Browsers -> Pages] /\ down[b] \in Seq(Answers) /\ down[b] # <<>>
  BY DEF Typed, PagesTyped, RelayTyped, Receive
<1>2. m \in Answers
  BY <1>1, Dequeued
<1>3. r = Applied(pg, m) /\ pg \in Pages
  BY <1>1 DEF Receive
<1>4. Unsaved(pg, p) /\ pg.currentPath = p /\ m.kind # "file_deleted"
  OBVIOUS
<1> HIDE DEF r, pg, m
<1>5. TextOf(r, p) = TextOf(pg, p)
  BY <1>2, <1>3, <1>4, ViewKept
<1> QED
  BY <1>5 DEF r, pg

(* FileSync.UnsavedInViewKept: whatever arrives, in whatever order, a text *)
(* the user has not saved stays in the view, or behind the tab that takes  *)
(* its place, unless its file is deleted (handleMessage of app.js,         *)
(* openFileInEditor and updateFileContent of editor.js).                   *)
THEOREM UnsavedInViewIsKept == Spec => UnsavedInViewKept
BY TypedAlways, ViewKeptInStep, PTL DEF UnsavedInViewKept

-----------------------------------------------------------------------------
(* What a page that was never refused a save knows of the files.           *)

KnownTo(pg) == /\ pg.banner = NoBanner
               /\ \A p \in Paths \ pg.pathMap : Unknown(pg, p)
Known == \A b \in Browsers \ conflicted : KnownTo(page[b])

LEMMA TouchesKnown ==
  ASSUME NEW pg \in Pages, KnownTo(pg), NEW r, NEW n, Touches(pg, r, {n}),
         n \in Paths => n \in pg.pathMap
  PROVE  KnownTo(r)
<1>1. ASSUME NEW p \in Paths \ r.pathMap PROVE Unknown(r, p)
  <2>1. p \in Paths \ pg.pathMap /\ p # n /\ p \in Names
    BY DEF Touches, Names
  <2> QED
    BY <2>1 DEF Touches, KnownTo
<1> QED
  BY <1>1 DEF Touches, KnownTo

(* What a message makes of the page's copy of p.                           *)
LEMMA AppliedKnown ==
  ASSUME NEW pg \in Pages, KnownTo(pg), NEW m \in Answers, m.kind # "save_rejected",
         NEW r, r = Applied(pg, m)
  PROVE  /\ KnownTo(r)
         /\ \A p \in Paths : m.path # p => r.openFiles[p] = pg.openFiles[p]
         /\ \A p \in Paths : m.path = p =>
               r.openFiles[p] \in {None} \cup IF m.kind = "file_deleted" THEN {} ELSE {m.content}
<1> DEFINE n == FromPathToken(pg, m.path)
           q == m.path
<1>1. /\ q \in Paths
      /\ m.kind \in {"file_content", "file_changed", "file_created", "file_deleted"}
  BY DEF Answers, Bare, Carrying, Changes
<1>2. n \in Names /\ n = FromPathToken(pg, q)
  BY <1>1, NameOf
<1>3. \A p \in Paths : p # q => p # n
  BY <1>1, NamesAssumption DEF FromPathToken
<1>4. n \in Paths => n = q /\ q \in pg.pathMap
  BY <1>1, NamesAssumption DEF FromPathToken
<1>5. q \in pg.pathMap => n = q
  BY DEF FromPathToken
<1>6. \A p \in Paths : p \in Names
  BY DEF Names
<1>7. \A p \in Paths \ pg.pathMap : pg.openFiles[p] = None
  BY DEF KnownTo, Unknown
<1> HIDE DEF n
<1>8. CASE m.kind \in {"file_content", "file_changed"}
  <2>1. Touches(pg, r, {n}) /\ r.openFiles[n] = m.content
    BY <1>2, <1>8, AppliedText
  <2>2. KnownTo(r)
    BY <1>4, <2>1, TouchesKnown
  <2>3. ASSUME NEW p \in Paths, q # p PROVE r.openFiles[p] = pg.openFiles[p]
    BY <1>3, <1>6, <2>1, <2>3 DEF Touches
  <2>4. q \in pg.pathMap => r.openFiles[q] = m.content
    BY <1>5, <2>1
  <2>5. q \notin pg.pathMap => r.openFiles[q] = None
    <3>1. q \notin pg.pathMap => q # n
      BY <1>1, <1>4
    <3> QED
      BY <1>1, <1>6, <1>7, <2>1, <3>1 DEF Touches
  <2> QED
    BY <1>8, <2>2, <2>3, <2>4, <2>5
<1>9. CASE m.kind = "file_created"
  <2>1. Learns(pg, r, pg.pathMap \cup {q}, {q}) /\ r.openFiles[q] = m.content
    BY <1>9, AppliedCreated
  <2>2. KnownTo(r)
    BY <1>6, <2>1 DEF Learns, KnownTo
  <2>3. \A p \in Paths : q # p => r.openFiles[p] = pg.openFiles[p]
    BY <1>6, <2>1 DEF Learns
  <2> QED
    BY <1>9, <2>1, <2>2, <2>3
<1>10. CASE m.kind = "file_deleted"
  <2>1. Learns(pg, r, pg.pathMap \ {q}, {n}) /\ Unknown(r, n)
    BY <1>2, <1>10, AppliedDeleted
  <2>2. \A p \in Paths : q # p => r.openFiles[p] = pg.openFiles[p]
    BY <1>3, <1>6, <2>1 DEF Learns
  <2>3. Unknown(r, q)
    <3>1. CASE q \in pg.pathMap
      BY <1>5, <2>1, <3>1
    <3>2. CASE q \notin pg.pathMap
      <4>1. q # n /\ Unknown(pg, q)
        BY <1>1, <1>4, <3>2 DEF KnownTo
      <4> QED
        BY <1>1, <1>6, <2>1, <4>1 DEF Learns
    <3> QED
      BY <3>1, <3>2
  <2>4. ASSUME NEW p \in Paths \ r.pathMap PROVE Unknown(r, p)
    <3>1. CASE p = q
      BY <2>3, <3>1
    <3>2. CASE p # q
      <4>1. p \in Paths \ pg.pathMap /\ p # n
        BY <1>3, <2>1, <3>2 DEF Learns
      <4> QED
        BY <1>6, <2>1, <4>1 DEF Learns, KnownTo
    <3> QED
      BY <3>1, <3>2
  <2> QED
    BY <1>10, <2>1, <2>2, <2>3, <2>4 DEF Learns, KnownTo, Unknown
<1> QED
  BY <1>1, <1>8, <1>9, <1>10

(* What a user's click, or the end of a save, may do to the copies.        *)
LEMMA OpenedKnown ==
  ASSUME NEW pg \in Pages, KnownTo(pg), NEW n \in Names, n \in Offered(pg),
         NEW r, r = OpenFile(pg, n)
  PROVE  KnownTo(r) /\ r.openFiles = pg.openFiles
<1>1. n \in Paths => n \in pg.pathMap
  BY DEF Offered, KnownTo, Unknown, InTabs
<1> QED
  BY <1>1, OpenFileTouches, TouchesKnown

LEMMA ClosedKnown ==
  ASSUME NEW pg \in Pages, KnownTo(pg), NEW n \in Names, InTabs(pg.tabs, n),
         NEW r, r = CloseTab(pg, n)
  PROVE  KnownTo(r) /\ \A p \in Paths : r.openFiles[p] \in {None, pg.openFiles[p]}
<1>1. n \in Paths => n \in pg.pathMap
  BY DEF KnownTo, Unknown
<1>2. Touches(pg, r, {n}) /\ Unknown(r, n)
  BY CloseTabTouches
<1>3. KnownTo(r)
  BY <1>1, <1>2, TouchesKnown
<1> QED
  BY <1>2, <1>3 DEF Touches, Unknown, Names

LEMMA SavedKnown ==
  ASSUME NEW pg \in Pages, KnownTo(pg), pg.activeFile # None, NEW r, r = SaveFile(pg)
  PROVE  /\ KnownTo(r) /\ r.activeFile = pg.activeFile /\ r.saving # None
         /\ \A p \in Paths : p # r.activeFile => r.openFiles[p] = pg.openFiles[p]
<1>1. /\ r \in Pages /\ r.pathMap = pg.pathMap /\ r.banner = pg.banner
      /\ r.activeFile = pg.activeFile /\ r.saving \in Contents
      /\ \A m \in Names : /\ m # pg.activeFile => r.openFiles[m] = pg.openFiles[m]
                          /\ m # pg.activeFile /\ Unknown(pg, m) => Unknown(r, m)
  BY SaveFileIs
<1>2. \A p \in Paths : p \in Names
  BY DEF Names
<1> QED
  BY <1>1, <1>2, ContentsAssumption DEF KnownTo, Unknown

(* A step of one page at most, and what that is.                           *)
Copies(pg, r) ==
    \/ /\ r.saving = pg.saving
       /\ \A p \in Paths : r.openFiles[p] \in {None, pg.openFiles[p]}
    \/ /\ r.saving # None /\ r.activeFile = pg.activeFile
       /\ \A p \in Paths : p # r.activeFile => r.openFiles[p] = pg.openFiles[p]

LEMMA UserKnown ==
  ASSUME Typed, NEW b \in Browsers, KnownTo(page[b]),
         (\E n \in Names : Click(b, n) \/ Close(b, n)) \/ Type(b) \/ PressSave(b)
         \/ PressOverwrite(b) \/ PressReload(b)
  PROVE  KnownTo(page'[b]) /\ Copies(page[b], page'[b])
<1> DEFINE pg == page[b]
           r == page'[b]
<1>0. pg \in Pages /\ page \in [Browsers -> Pages]
  BY DEF Typed, PagesTyped
<1>1. ASSUME NEW n \in Names, Click(b, n) PROVE KnownTo(r) /\ Copies(pg, r)
  <2>1. n \in Offered(pg) /\ r = OpenFile(pg, n)
    BY <1>0, <1>1 DEF Click
  <2> HIDE DEF pg, r
  <2>2. KnownTo(r) /\ r.openFiles = pg.openFiles /\ r.saving = pg.saving
    BY <1>0, <2>1, OpenedKnown, OpenFileTouches DEF pg, Touches
  <2> QED
    BY <2>2 DEF Copies
<1>2. ASSUME NEW n \in Names, Close(b, n) PROVE KnownTo(r) /\ Copies(pg, r)
  <2>1. InTabs(pg.tabs, n) /\ r = CloseTab(pg, n)
    BY <1>0, <1>2 DEF Close, InTabs
  <2> HIDE DEF pg, r
  <2>2. /\ KnownTo(r) /\ r.saving = pg.saving
        /\ \A p \in Paths : r.openFiles[p] \in {None, pg.openFiles[p]}
    BY <1>0, <2>1, ClosedKnown, CloseTabTouches DEF pg, Touches
  <2> QED
    BY <2>2 DEF Copies
<1>3. CASE Type(b)
  <2> DEFINE v == <<ToPathToken(page[b].currentPath), texts'>>
  <2>1. r = [pg EXCEPT !.view = v]
    BY <1>0, <1>3 DEF Type
  <2> HIDE DEF pg, r, v
  <2>2. /\ r.pathMap = pg.pathMap /\ r.banner = pg.banner /\ r.saving = pg.saving
        /\ r.openFiles = pg.openFiles /\ r.fileStates = pg.fileStates /\ r.tabs = pg.tabs
        /\ r.currentPath = pg.currentPath /\ r.activeFile = pg.activeFile
    BY <1>0, <2>1 DEF Pages
  <2> QED
    BY <2>2 DEF KnownTo, Unknown, Copies, pg, r
<1>4. CASE PressSave(b)
  <2>1. r = SaveFile(pg) /\ pg.activeFile # None
    BY <1>0, <1>4 DEF PressSave
  <2> HIDE DEF pg, r
  <2>2. /\ KnownTo(r) /\ r.activeFile = pg.activeFile /\ r.saving # None
        /\ \A p \in Paths : p # r.activeFile => r.openFiles[p] = pg.openFiles[p]
    BY <1>0, <2>1, SavedKnown DEF pg
  <2> QED
    BY <2>2 DEF Copies, pg, r
<1>5. ~PressOverwrite(b) /\ ~PressReload(b)
  BY DEF PressOverwrite, PressReload, KnownTo
<1> QED
  BY <1>1, <1>2, <1>3, <1>4, <1>5

-----------------------------------------------------------------------------
(* News of a file, on its way from the daemon to a page.                   *)

Brings == Changes \cup {"file_content"}
News(m, p, kinds) == m.path = p /\ m.kind \in kinds
Has(s, p, kinds) == \E i \in DOMAIN s : News(s[i], p, kinds)

(* What no change comes after brings c.                                    *)
Fresh(s, p, c, kinds) ==
    \A i \in DOMAIN s :
        /\ News(s[i], p, kinds)
        /\ \A j \in DOMAIN s : i < j => ~News(s[j], p, Changes)
        => s[i].content = c

LEMMA SeqIs == ASSUME NEW S, NEW s \in Seq(S) PROVE IsSequence(s)
BY DEF IsSequence

LEMMA HasAppended ==
  ASSUME NEW s, IsSequence(s), NEW m, NEW p, NEW kinds
  PROVE  Has(Append(s, m), p, kinds) <=> Has(s, p, kinds) \/ News(m, p, kinds)
<1>1. /\ Len(s) \in Nat /\ DOMAIN s = 1 .. Len(s)
      /\ DOMAIN Append(s, m) = 1 .. Len(s) + 1
      /\ \A i \in 1 .. Len(s) : Append(s, m)[i] = s[i]
      /\ Append(s, m)[Len(s) + 1] = m
  BY Appended
<1>2. /\ \A i \in DOMAIN s : i \in DOMAIN Append(s, m) /\ Append(s, m)[i] = s[i]
      /\ Len(s) + 1 \in DOMAIN Append(s, m) /\ Append(s, m)[Len(s) + 1] = m
      /\ \A i \in DOMAIN Append(s, m) : i \in DOMAIN s \/ i = Len(s) + 1
  BY <1>1
<1> QED
  BY <1>2 DEF Has

LEMMA HasTaken ==
  ASSUME NEW s, IsSequence(s), s # <<>>, NEW p, NEW kinds
  PROVE  Has(s, p, kinds) <=> Has(Tail(s), p, kinds) \/ News(Head(s), p, kinds)
<1>1. /\ Len(s) \in Nat \ {0} /\ DOMAIN s = 1 .. Len(s)
      /\ DOMAIN Tail(s) = 1 .. Len(s) - 1 /\ Head(s) = s[1]
      /\ \A i \in 1 .. Len(s) - 1 : Tail(s)[i] = s[i + 1]
  BY Taken
<1>2. /\ \A i \in DOMAIN s : i # 1 => i - 1 \in DOMAIN Tail(s) /\ s[i] = Tail(s)[i - 1]
      /\ \A i \in DOMAIN Tail(s) : i + 1 \in DOMAIN s /\ Tail(s)[i] = s[i + 1]
      /\ 1 \in DOMAIN s
  BY <1>1
<1> QED
  BY <1>1, <1>2 DEF Has

LEMMA FreshAppended ==
  ASSUME NEW s, IsSequence(s), NEW m, NEW p, NEW c, NEW kinds
  PROVE  /\ (Fresh(s, p, c, kinds) /\ (News(m, p, kinds) => m.content = c)
               => Fresh(Append(s, m), p, c, kinds))
         /\ (News(m, p, Changes) /\ m.content = c => Fresh(Append(s, m), p, c, kinds))
<1>1. /\ Len(s) \in Nat /\ DOMAIN s = 1 .. Len(s)
      /\ DOMAIN Append(s, m) = 1 .. Len(s) + 1
      /\ \A i \in 1 .. Len(s) : Append(s, m)[i] = s[i]
      /\ Append(s, m)[Len(s) + 1] = m
  BY Appended
<1> DEFINE t == Append(s, m)
           l == Len(s) + 1
<1>2. /\ \A i \in DOMAIN s : i \in DOMAIN t /\ t[i] = s[i] /\ i < l
      /\ l \in DOMAIN t /\ t[l] = m
      /\ \A i \in DOMAIN t : i \in DOMAIN s \/ i = l
  BY <1>1
<1> HIDE DEF t, l
<1>3. ASSUME Fresh(s, p, c, kinds), News(m, p, kinds) => m.content = c
      PROVE  Fresh(t, p, c, kinds)
  BY <1>2, <1>3 DEF Fresh
<1>4. ASSUME News(m, p, Changes), m.content = c
      PROVE  Fresh(t, p, c, kinds)
  BY <1>2, <1>4 DEF Fresh
<1> QED
  BY <1>3, <1>4 DEF t

LEMMA FreshTaken ==
  ASSUME NEW s, IsSequence(s), s # <<>>, NEW p, NEW c, NEW kinds, Fresh(s, p, c, kinds)
  PROVE  /\ Fresh(Tail(s), p, c, kinds)
         /\ ~Has(Tail(s), p, Changes) /\ News(Head(s), p, kinds) => Head(s).content = c
<1>1. /\ Len(s) \in Nat \ {0} /\ DOMAIN s = 1 .. Len(s)
      /\ DOMAIN Tail(s) = 1 .. Len(s) - 1 /\ Head(s) = s[1]
      /\ \A i \in 1 .. Len(s) - 1 : Tail(s)[i] = s[i + 1]
  BY Taken
<1> DEFINE t == Tail(s)
<1>2. /\ \A i \in DOMAIN s : i # 1 => i - 1 \in DOMAIN t /\ s[i] = t[i - 1]
      /\ \A i \in DOMAIN t : i + 1 \in DOMAIN s /\ t[i] = s[i + 1]
      /\ 1 \in DOMAIN s /\ Head(s) = s[1] /\ DOMAIN s \subseteq Nat /\ DOMAIN t \subseteq Nat
  BY <1>1
<1> HIDE DEF t
<1>3. ASSUME NEW i \in DOMAIN t, News(t[i], p, kinds),
             \A j \in DOMAIN t : i < j => ~News(t[j], p, Changes)
      PROVE  t[i].content = c
  <2>1. ASSUME NEW j \in DOMAIN s, i + 1 < j PROVE ~News(s[j], p, Changes)
    <3>1. i \in Nat /\ j \in Nat
      BY <1>2
    <3>2. j # 1 /\ i < j - 1
      BY <2>1, <3>1
    <3> QED
      BY <1>2, <1>3, <3>2
  <2> QED
    BY <1>2, <1>3, <2>1 DEF Fresh
<1>4. ASSUME ~Has(t, p, Changes), News(Head(s), p, kinds) PROVE Head(s).content = c
  <2>1. ASSUME NEW j \in DOMAIN s, 1 < j PROVE ~News(s[j], p, Changes)
    <3>1. j # 1
      BY <1>2, <2>1
    <3> QED
      BY <1>2, <1>4, <3>1 DEF Has
  <2> QED
    BY <1>2, <1>4, <2>1 DEF Fresh
<1> QED
  BY <1>3, <1>4 DEF Fresh, t

(* Whatever was written is reported again.                                 *)
LEMMA Written ==
  ASSUME Typed, TruncateFile \/ WriteFile \/ \E q \in Paths, kind \in Edits : Edit(q, kind)
  PROVE  /\ \A p \in Paths : Free(events', p) => Free(events, p) /\ disk'[p] = disk[p]
         /\ UNCHANGED <<fromDaemon, up, down, page, asks, pendingFiles, overtaken, conflicted>>
<1>1. /\ IsSequence(events) /\ disk \in [Paths -> Contents \cup {None}]
  BY SeqIs DEF Typed, DiskTyped
<1>2. ASSUME NEW q, NEW c, NEW k, k.path = q, disk' = [disk EXCEPT ![q] = c],
             events' = Append(events, k)
      PROVE  \A p \in Paths : Free(events', p) => Free(events, p) /\ disk'[p] = disk[p]
  BY <1>1, <1>2, AppendEvent
<1>3. CASE TruncateFile
  <2> DEFINE q == Head(toDaemon).path
             k == Msg(IF disk[q] = None THEN "file_created" ELSE "file_changed", q, None)
  <2>1. /\ disk' = [disk EXCEPT ![q] = Blank] /\ events' = Append(events, k) /\ k.path = q
        /\ UNCHANGED <<fromDaemon, up, down, page, asks, pendingFiles, overtaken, conflicted>>
    BY <1>3 DEF TruncateFile, relayVars, pageVars, Msg
  <2> HIDE DEF q, k
  <2> QED
    BY <1>2, <2>1
<1>4. CASE WriteFile
  <2> DEFINE q == job.path
             k == Msg("file_changed", q, None)
  <2>1. /\ disk' = [disk EXCEPT ![q] = job.content] /\ events' = Append(events, k)
        /\ k.path = q
        /\ UNCHANGED <<fromDaemon, up, down, page, asks, pendingFiles, overtaken, conflicted>>
    BY <1>4 DEF WriteFile, relayVars, pageVars, Msg
  <2> HIDE DEF q, k
  <2> QED
    BY <1>2, <2>1
<1>5. ASSUME NEW q \in Paths, NEW kind \in Edits, Edit(q, kind)
      PROVE  /\ \A p \in Paths : Free(events', p) => Free(events, p) /\ disk'[p] = disk[p]
             /\ UNCHANGED <<fromDaemon, up, down, page, asks, pendingFiles, overtaken, conflicted>>
  <2> DEFINE c == IF kind = "delete" THEN None ELSE <<q, texts'>>
             k == Msg(CASE kind = "write" -> "file_changed"
                        [] kind = "replace" -> "file_created"
                        [] kind = "delete" -> "file_deleted", q, None)
  <2>1. /\ disk' = [disk EXCEPT ![q] = c] /\ events' = Append(events, k) /\ k.path = q
        /\ UNCHANGED <<fromDaemon, up, down, page, asks, pendingFiles, overtaken, conflicted>>
    BY <1>5 DEF Edit, relayVars, pageVars, Msg
  <2> HIDE DEF c, k
  <2> QED
    BY <1>2, <2>1
<1> QED
  BY <1>3, <1>4, <1>5

(* The watcher's last event of a file that is there brings what is on disk.*)
LEMMA WatcherTells ==
  ASSUME Typed, RelayInv, HandleFSEvent, NEW p \in Paths, Free(events', p), disk[p] # None
  PROVE  \/ Free(events, p) /\ fromDaemon' = fromDaemon
         \/ \E m : /\ fromDaemon' = Append(fromDaemon, m)
                   /\ \/ Free(events, p) /\ ~News(m, p, Brings)
                      \/ News(m, p, Changes) /\ m.content = disk[p]
<1> DEFINE e == Head(events)
           m == Msg(e.kind, e.path, IF e.kind = "file_deleted" THEN None ELSE disk[e.path])
<1>1. /\ events \in Seq(Events) /\ events # <<>> /\ events' = Tail(events)
      /\ IF e.kind # "file_deleted" /\ disk[e.path] = None THEN UNCHANGED fromDaemon
         ELSE fromDaemon' = Append(fromDaemon, m)
  BY DEF HandleFSEvent, Typed, DiskTyped
<1>2. e \in Events /\ IsSequence(events)
  BY <1>1, Dequeued, SeqIs
<1>3. /\ e.kind \in Changes \cup {"file_deleted"}
      /\ e.path = p \/ Free(events, p)
      /\ e.path = p /\ e.kind = "file_deleted" => LastDeleted(events, p)
  BY <1>1, <1>2, TakeEvent DEF Events, Bare
<1>4. LastDeleted(events, p) => disk[p] = None
  BY DEF RelayInv, DeletedIsGone
<1>5. CASE e.path = p
  <2>1. e.kind \in Changes
    BY <1>3, <1>4, <1>5
  <2>2. e.kind # "file_deleted"
    BY <2>1 DEF Changes
  <2>3. fromDaemon' = Append(fromDaemon, m)
    BY <1>1, <1>5
  <2>4. News(m, p, Changes) /\ m.content = disk[p]
    BY <1>5, <2>1, <2>2 DEF Msg, News
  <2> QED
    BY <2>3, <2>4
<1>6. CASE e.path # p
  <2>1. ~News(m, p, Brings)
    BY <1>6 DEF Msg, News
  <2> QED
    BY <1>1, <1>3, <1>6, <2>1
<1> QED
  BY <1>5, <1>6

(* What is on its way to b once the watcher has reported p: of the kinds   *)
(* given, what is not followed by a change is what is on disk.             *)
HeardOf(b, p, kinds) ==
    Free(events, p) /\ disk[p] # None =>
        /\ Fresh(fromDaemon, p, disk[p], kinds)
        /\ ~Has(fromDaemon, p, Changes) => Fresh(down[b], p, disk[p], kinds)

Kinds == {Changes, Brings}

LEMMA NewsIs ==
  ASSUME NEW m, NEW p, NEW kinds \in Kinds
  PROVE  /\ News(m, p, Changes) => News(m, p, kinds)
         /\ News(m, p, kinds) => News(m, p, Brings)
BY DEF Kinds, News, Brings

LEMMA HeardSame ==
  ASSUME NEW b \in Browsers, NEW p \in Paths, NEW kinds \in Kinds, HeardOf(b, p, kinds),
         UNCHANGED <<events, disk, fromDaemon>>, down'[b] = down[b]
  PROVE  HeardOf(b, p, kinds)'
BY DEF HeardOf

LEMMA HeardDown ==
  ASSUME NEW b \in Browsers, NEW p \in Paths, NEW kinds \in Kinds, HeardOf(b, p, kinds),
         UNCHANGED <<events, disk, fromDaemon>>, IsSequence(down[b]), NEW m,
         ~News(m, p, Brings), down'[b] = Append(down[b], m)
  PROVE  HeardOf(b, p, kinds)'
<1>1. ~News(m, p, kinds)
  BY NewsIs
<1> QED
  BY <1>1, FreshAppended DEF HeardOf

LEMMA HeardReceive ==
  ASSUME Typed, NEW b \in Browsers, NEW p \in Paths, NEW kinds \in Kinds, HeardOf(b, p, kinds),
         NEW a \in Browsers, Receive(a)
  PROVE  HeardOf(b, p, kinds)'
<1>1. /\ down \in [Browsers -> Seq(Answers)] /\ down[a] # <<>>
      /\ down' = [down EXCEPT ![a] = Tail(@)] /\ UNCHANGED <<events, disk, fromDaemon>>
  BY DEF Receive, Typed, RelayTyped, daemonVars
<1>2. IsSequence(down[a])
  BY <1>1, SeqIs
<1>3. CASE a # b
  BY <1>1, <1>3, HeardSame
<1>4. CASE a = b
  <2>1. down'[b] = Tail(down[b])
    BY <1>1, <1>4
  <2>2. \A c : Fresh(down[b], p, c, kinds) => Fresh(down'[b], p, c, kinds)
    BY <1>1, <1>2, <1>4, <2>1, FreshTaken
  <2> QED
    BY <1>1, <2>2 DEF HeardOf
<1> QED
  BY <1>3, <1>4

LEMMA HeardRelayStep ==
  ASSUME Typed, NEW b \in Browsers, NEW p \in Paths, NEW kinds \in Kinds, HeardOf(b, p, kinds),
         NEW a \in Browsers, RelayStep(a)
  PROVE  HeardOf(b, p, kinds)'
<1>1. /\ down \in [Browsers -> Seq(Answers)] /\ UNCHANGED <<events, disk, fromDaemon>>
  BY DEF RelayStep, RelayOpen, RelaySave, Typed, RelayTyped, daemonVars
<1>2. CASE down' = down
  BY <1>1, <1>2, HeardSame
<1>3. CASE down' # down
  <2> DEFINE m == Msg("save_rejected", Head(up[a]).path, cache[Head(up[a]).path])
  <2>1. down' = [down EXCEPT ![a] = Append(@, m)]
    BY <1>3 DEF RelayStep, RelayOpen, RelaySave
  <2>2. ~News(m, p, Brings)
    BY DEF News, Brings, Changes, Msg
  <2> HIDE DEF m
  <2>3. CASE a = b
    <3>1. down'[b] = Append(down[b], m) /\ IsSequence(down[b])
      BY <1>1, <2>1, <2>3, SeqIs
    <3> QED
      BY <1>1, <2>2, <3>1, HeardDown
  <2>4. CASE a # b
    <3>1. down'[b] = down[b]
      BY <1>1, <2>1, <2>4
    <3> QED
      BY <1>1, <3>1, HeardSame
  <2> QED
    BY <2>3, <2>4
<1> QED
  BY <1>2, <1>3

(* What the relay does with a message of the daemon.                       *)
LEMMA Relayed ==
  ASSUME Typed, RelayFromDaemon, NEW b \in Browsers
  PROVE  /\ fromDaemon # <<>> /\ fromDaemon' = Tail(fromDaemon) /\ Head(fromDaemon) \in Reports
         /\ UNCHANGED <<disk, events, up, page, asks, overtaken, conflicted, job, toDaemon>>
         /\ \/ /\ down'[b] = Append(down[b], Head(fromDaemon))
               /\ Head(fromDaemon).kind \in Changes \cup {"file_content", "file_deleted"}
            \/ down'[b] = down[b] /\ Head(fromDaemon).kind \notin Changes \cup {"file_deleted"}
<1> DEFINE m == Head(fromDaemon)
<1>1. /\ fromDaemon \in Seq(Reports) /\ down \in [Browsers -> Seq(Answers)]
      /\ fromDaemon # <<>> /\ fromDaemon' = Tail(fromDaemon)
      /\ UNCHANGED <<disk, events, up, page, asks, overtaken, conflicted, job, toDaemon>>
      /\ RelayContent(m) \/ RelayChange(m) \/ RelayDelete(m) \/ RelayError(m)
  BY DEF RelayFromDaemon, Typed, RelayTyped, daemonVars, pageVars
<1>2. m \in Reports
  BY <1>1, Dequeued
<1> HIDE DEF m
<1>3. \/ down'[b] = Append(down[b], m) /\ m.kind \in Changes \cup {"file_content", "file_deleted"}
      \/ down'[b] = down[b] /\ m.kind \notin Changes \cup {"file_deleted"}
  <2>1. CASE RelayContent(m)
    BY <1>1, <2>1 DEF RelayContent, Changes
  <2>2. CASE RelayChange(m)
    BY <1>1, <2>2 DEF RelayChange, Broadcast, Changes
  <2>3. CASE RelayDelete(m)
    BY <1>1, <2>3 DEF RelayDelete, Broadcast, Changes
  <2>4. CASE RelayError(m)
    BY <1>1, <2>4 DEF RelayError, Changes
  <2> QED
    BY <1>1, <2>1, <2>2, <2>3, <2>4
<1> QED
  BY <1>1, <1>2, <1>3 DEF m

LEMMA HeardRelay ==
  ASSUME Typed, NEW b \in Browsers, NEW p \in Paths, NEW kinds \in Kinds, HeardOf(b, p, kinds),
         RelayFromDaemon
  PROVE  HeardOf(b, p, kinds)'
<1> DEFINE m == Head(fromDaemon)
           t == Tail(fromDaemon)
           d == down[b]
           c == disk[p]
<1>1. /\ IsSequence(fromDaemon) /\ IsSequence(d)
  BY SeqIs DEF Typed, RelayTyped
<1>2. /\ fromDaemon # <<>> /\ fromDaemon' = t /\ UNCHANGED <<disk, events>>
      /\ \/ down'[b] = Append(d, m)
         \/ down'[b] = d /\ m.kind \notin Changes
  BY Relayed
<1> SUFFICES ASSUME Free(events, p), c # None
             PROVE  /\ Fresh(t, p, c, kinds)
                    /\ ~Has(t, p, Changes) => Fresh(down'[b], p, c, kinds)
  BY <1>2 DEF HeardOf
<1>3. /\ Fresh(fromDaemon, p, c, kinds)
      /\ ~Has(fromDaemon, p, Changes) => Fresh(d, p, c, kinds)
  BY DEF HeardOf
<1>4. /\ Fresh(t, p, c, kinds)
      /\ ~Has(t, p, Changes) /\ News(m, p, kinds) => m.content = c
      /\ Has(fromDaemon, p, Changes) <=> Has(t, p, Changes) \/ News(m, p, Changes)
  BY <1>1, <1>2, <1>3, FreshTaken, HasTaken
<1> HIDE DEF m, t, d, c
<1>5. ASSUME ~Has(t, p, Changes) PROVE Fresh(down'[b], p, c, kinds)
  <2>1. CASE News(m, p, Changes)
    <3>1. m.content = c
      BY <1>4, <1>5, <2>1, NewsIs
    <3>2. down'[b] = Append(d, m)
      BY <1>2, <2>1 DEF News
    <3> QED
      BY <1>1, <2>1, <3>1, <3>2, FreshAppended
  <2>2. CASE ~News(m, p, Changes)
    <3>1. Fresh(d, p, c, kinds)
      BY <1>3, <1>4, <1>5, <2>2
    <3> QED
      BY <1>1, <1>2, <1>4, <1>5, <3>1, FreshAppended
  <2> QED
    BY <2>1, <2>2
<1> QED
  BY <1>4, <1>5

LEMMA HeardDaemon ==
  ASSUME Typed, RelayInv, NEW b \in Browsers, NEW p \in Paths, NEW kinds \in Kinds,
         HeardOf(b, p, kinds), ReadFile \/ SendContent,
         kinds = Brings => p \notin overtaken
  PROVE  HeardOf(b, p, kinds)'
<1>1. /\ IsSequence(fromDaemon) /\ UNCHANGED <<events, disk, down>>
  BY SeqIs DEF Typed, RelayTyped, ReadFile, SendContent
<1>2. CASE fromDaemon' = fromDaemon
  BY <1>1, <1>2, HeardSame
<1>3. ASSUME NEW m, fromDaemon' = Append(fromDaemon, m), ~News(m, p, Changes),
             Free(events, p) /\ disk[p] # None /\ News(m, p, kinds) => m.content = disk[p]
      PROVE  HeardOf(b, p, kinds)'
  <2>1. Has(fromDaemon', p, Changes) <=> Has(fromDaemon, p, Changes)
    BY <1>1, <1>3, HasAppended
  <2>2. ASSUME Free(events, p), disk[p] # None, Fresh(fromDaemon, p, disk[p], kinds)
        PROVE  Fresh(fromDaemon', p, disk[p], kinds)
    BY <1>1, <1>3, <2>2, FreshAppended
  <2> QED
    BY <1>1, <2>1, <2>2 DEF HeardOf
<1>4. CASE ReadFile /\ fromDaemon' # fromDaemon
  <2> DEFINE m == Msg("error", Head(toDaemon).path, None)
  <2>1. fromDaemon' = Append(fromDaemon, m)
    BY <1>4 DEF ReadFile
  <2>2. ~News(m, p, Brings)
    BY DEF News, Brings, Changes, Msg
  <2> HIDE DEF m
  <2>3. ~News(m, p, Changes) /\ ~News(m, p, kinds)
    BY <2>2, NewsIs DEF News, Brings
  <2> QED
    BY <1>3, <2>1, <2>3
<1>5. CASE SendContent
  <2> DEFINE m == Msg("file_content", job.path, job.content)
  <2>1. fromDaemon' = Append(fromDaemon, m) /\ job.kind = "request_file"
    BY <1>5 DEF SendContent
  <2>2. ~News(m, p, Changes)
    BY DEF News, Changes, Msg
  <2>3. ASSUME Free(events, p), disk[p] # None, News(m, p, kinds)
        PROVE  m.content = disk[p]
    <3>1. kinds = Brings
      BY <2>2, <2>3 DEF Kinds
    <3>2. Told(p) /\ job.path = p
      BY <2>3, <3>1 DEF RelayInv, ToldWhenSeen, News, Msg
    <3> QED
      BY <2>1, <3>2 DEF Told, Msg
  <2> HIDE DEF m
  <2> QED
    BY <1>3, <2>1, <2>2, <2>3
<1> QED
  BY <1>2, <1>4, <1>5

LEMMA HeardEvent ==
  ASSUME Typed, RelayInv, NEW b \in Browsers, NEW p \in Paths, NEW kinds \in Kinds,
         HeardOf(b, p, kinds), HandleFSEvent
  PROVE  HeardOf(b, p, kinds)'
<1>1. IsSequence(fromDaemon) /\ UNCHANGED <<disk, down>>
  BY SeqIs DEF Typed, RelayTyped, HandleFSEvent
<1> SUFFICES ASSUME Free(events', p), disk[p] # None
             PROVE  /\ Fresh(fromDaemon', p, disk[p], kinds)
                    /\ ~Has(fromDaemon', p, Changes) => Fresh(down[b], p, disk[p], kinds)
  BY <1>1 DEF HeardOf
<1>2. CASE Free(events, p) /\ fromDaemon' = fromDaemon
  BY <1>2 DEF HeardOf
<1>3. ASSUME NEW m, fromDaemon' = Append(fromDaemon, m), Free(events, p), ~News(m, p, Brings)
      PROVE  /\ Fresh(fromDaemon', p, disk[p], kinds)
             /\ ~Has(fromDaemon', p, Changes) => Fresh(down[b], p, disk[p], kinds)
  <2>1. ~News(m, p, kinds)
    BY <1>3, NewsIs
  <2>2. /\ Fresh(fromDaemon, p, disk[p], kinds)
        /\ ~Has(fromDaemon, p, Changes) => Fresh(down[b], p, disk[p], kinds)
    BY <1>3 DEF HeardOf
  <2> QED
    BY <1>1, <1>3, <2>1, <2>2, FreshAppended, HasAppended
<1>4. ASSUME NEW m, fromDaemon' = Append(fromDaemon, m), News(m, p, Changes), m.content = disk[p]
      PROVE  /\ Fresh(fromDaemon', p, disk[p], kinds)
             /\ ~Has(fromDaemon', p, Changes) => Fresh(down[b], p, disk[p], kinds)
  BY <1>1, <1>4, FreshAppended, HasAppended
<1> QED
  BY <1>2, <1>3, <1>4, WatcherTells

LEMMA HeardNext ==
  ASSUME Typed, RelayInv, [Next]_vars, NEW b \in Browsers, NEW p \in Paths,
         NEW kinds \in Kinds, HeardOf(b, p, kinds), kinds = Brings => p \notin overtaken
  PROVE  HeardOf(b, p, kinds)'
<1>1. CASE UNCHANGED vars
  BY <1>1, HeardSame DEF vars, daemonVars
<1>2. ASSUME NEW a \in Browsers,
             \/ \E n \in Names : Click(a, n) \/ Close(a, n)
             \/ Type(a) \/ PressSave(a) \/ PressOverwrite(a) \/ PressReload(a) \/ SendSave(a)
      PROVE  HeardOf(b, p, kinds)'
  <2>1. UNCHANGED <<disk, events, fromDaemon>>
    BY <1>2, BrowserNext
  <2>2. down' = down
    BY <1>2 DEF Click, Close, Type, PressSave, PressOverwrite, PressReload, SendSave, PageOnly
  <2> QED
    BY <2>1, <2>2, HeardSame
<1>3. ASSUME NEW a \in Browsers, Receive(a) \/ RelayStep(a) PROVE HeardOf(b, p, kinds)'
  BY <1>3, HeardReceive, HeardRelayStep
<1>4. CASE RelayFromDaemon
  BY <1>4, HeardRelay
<1>5. CASE ReadFile \/ SendContent
  BY <1>5, HeardDaemon
<1>6. CASE TruncateFile \/ WriteFile \/ \E q \in Paths, kind \in Edits : Edit(q, kind)
  BY <1>6, Written DEF HeardOf
<1>7. CASE HandleFSEvent
  BY <1>7, HeardEvent
<1> QED
  BY <1>1, <1>2, <1>3, <1>4, <1>5, <1>6, <1>7 DEF Next, DaemonStep

-----------------------------------------------------------------------------
(* The page's copy, once all news has arrived.                             *)

(* What b saved as p is not on disk yet, or refused.                       *)
Unwritten(b, p) ==
    \/ page[b].saving # None /\ page[b].activeFile = p
    \/ Has(up[b], p, {"save_file"})
    \/ Has(toDaemon, p, {"write_file"})
    \/ job.kind = "write_file" /\ job.path = p
    \/ Has(down[b], p, {"save_rejected"})

AllTold(b, p) ==
    /\ Free(events, p) /\ disk[p] # None
    /\ ~Has(fromDaemon, p, Changes) /\ ~Has(down[b], p, Changes)

CopyOf(b, p) ==
    AllTold(b, p) /\ p \notin overtaken /\ b \notin conflicted /\ ~Unwritten(b, p)
        => page[b].openFiles[p] \in {None, disk[p]}

(* Who has pressed save stays with the file until the save is sent: no     *)
(* click, and no answer to an earlier one, makes another file active but   *)
(* that the file is closed.                                                *)
SaversStay ==
    \A b \in Browsers :
        page[b].saving # None /\ page'[b].saving # None =>
            \/ page[b].activeFile \in {None, page'[b].activeFile}
            \/ page'[b].openFiles[page[b].activeFile] = None

LEMMA CopySame ==
  ASSUME NEW b \in Browsers, NEW p \in Paths, CopyOf(b, p), page'[b] = page[b],
         overtaken \subseteq overtaken', conflicted \subseteq conflicted',
         AllTold(b, p)' => AllTold(b, p) /\ disk'[p] = disk[p],
         Free(events', p) /\ Unwritten(b, p) => Unwritten(b, p)'
  PROVE  CopyOf(b, p)'
BY DEF CopyOf, AllTold

LEMMA CopyUser ==
  ASSUME Typed, Known, SaversStay, NEW b \in Browsers, NEW p \in Paths, CopyOf(b, p),
         NEW a \in Browsers,
         (\E n \in Names : Click(a, n) \/ Close(a, n)) \/ Type(a) \/ PressSave(a)
         \/ PressOverwrite(a) \/ PressReload(a)
  PROVE  CopyOf(b, p)'
<1>1. UNCHANGED <<disk, events, fromDaemon, overtaken, job, conflicted, toDaemon, down>>
  BY DEF Click, Close, Type, PressSave, PressOverwrite, PressReload, PageOnly, daemonVars
<1>2. up \in [Browsers -> Seq(Asked)] /\ page \in [Browsers -> Pages]
  BY DEF Typed, RelayTyped, PagesTyped
<1>3. Has(up[b], p, {"save_file"}) => Has(up'[b], p, {"save_file"})
  <2>1. CASE up' = up
    BY <2>1
  <2>2. ASSUME NEW n \in Names, Click(a, n), up' # up
        PROVE  Has(up[b], p, {"save_file"}) => Has(up'[b], p, {"save_file"})
    <3> DEFINE m == Msg("open_file", ToPathToken(n), None)
    <3>1. up' = [up EXCEPT ![a] = Append(@, m)]
      BY <2>2 DEF Click
    <3> HIDE DEF m
    <3>2. a = b => up'[b] = Append(up[b], m)
      BY <1>2, <3>1
    <3>3. a # b => up'[b] = up[b]
      BY <1>2, <3>1
    <3> QED
      BY <1>2, <3>2, <3>3, HasAppended, SeqIs
  <2> QED
    BY <2>1, <2>2 DEF Close, Type, PressSave, PressOverwrite, PressReload, PageOnly
<1>4. CASE a # b
  <2>1. page'[b] = page[b]
    BY <1>2, <1>4 DEF Click, Close, Type, PressSave, PressOverwrite, PressReload
  <2> QED
    BY <1>1, <1>3, <2>1, CopySame DEF AllTold, Unwritten
<1>5. CASE a = b
  <2> SUFFICES ASSUME AllTold(b, p)', p \notin overtaken, b \notin conflicted, ~Unwritten(b, p)'
               PROVE  page'[b].openFiles[p] \in {None, disk[p]}
    BY <1>1 DEF CopyOf
  <2>1. Copies(page[b], page'[b])
    BY <1>5, UserKnown DEF Known
  <2>2. AllTold(b, p)
    BY <1>1 DEF AllTold
  <2>3. /\ ~(page'[b].saving # None /\ page'[b].activeFile = p)
        /\ Unwritten(b, p) => page[b].saving # None /\ page[b].activeFile = p
    BY <1>1, <1>3 DEF Unwritten
  <2>4. CASE /\ page'[b].saving = page[b].saving
             /\ \A q \in Paths : page'[b].openFiles[q] \in {None, page[b].openFiles[q]}
    <3>1. CASE Unwritten(b, p)
      <4>1. page[b].activeFile = p /\ p # None /\ page[b].saving # None
        BY <2>3, <3>1, NamesAssumption DEF Names
      <4>2. page'[b].openFiles[p] = None
        BY <2>3, <2>4, <4>1 DEF SaversStay
      <4> QED
        BY <4>2
    <3>2. CASE ~Unwritten(b, p)
      <4>1. page[b].openFiles[p] \in {None, disk[p]}
        BY <2>2, <3>2 DEF CopyOf
      <4> QED
        BY <2>4, <4>1
    <3> QED
      BY <3>1, <3>2
  <2>5. CASE /\ page'[b].saving # None /\ page'[b].activeFile = page[b].activeFile
             /\ \A q \in Paths : q # page'[b].activeFile
                                   => page'[b].openFiles[q] = page[b].openFiles[q]
    <3>1. ~Unwritten(b, p) /\ page'[b].openFiles[p] = page[b].openFiles[p]
      BY <2>3, <2>5
    <3> QED
      BY <2>2, <3>1 DEF CopyOf
  <2> QED
    BY <2>1, <2>4, <2>5 DEF Copies
<1> QED
  BY <1>4, <1>5

LEMMA CopySendSave ==
  ASSUME Typed, NEW b \in Browsers, NEW p \in Paths, CopyOf(b, p),
         NEW a \in Browsers, SendSave(a)
  PROVE  CopyOf(b, p)'
<1>1. UNCHANGED <<disk, events, fromDaemon, overtaken, job, conflicted, toDaemon, down>>
  BY DEF SendSave, daemonVars
<1>2. up \in [Browsers -> Seq(Asked)] /\ page \in [Browsers -> Pages]
  BY DEF Typed, RelayTyped, PagesTyped
<1> DEFINE n == page[a].activeFile
           m == Save(ToPathToken(n), page[a].saving, page[a].fileHashes[n])
<1>3. up' = IF n = None THEN up ELSE [up EXCEPT ![a] = Append(@, m)]
  BY DEF SendSave
<1>4. a = b /\ n = p => News(m, p, {"save_file"})
  BY TokenOf DEF Save, News
<1> HIDE DEF m
<1>5. p # None
  BY NamesAssumption DEF Names
<1>6. /\ Has(up[b], p, {"save_file"}) => Has(up'[b], p, {"save_file"})
      /\ a = b /\ n = p => Has(up'[b], p, {"save_file"})
  <2> HIDE DEF n
  <2>1. CASE a = b /\ n # None
    <3>1. up'[b] = Append(up[b], m)
      BY <1>2, <1>3, <2>1
    <3> QED
      BY <1>2, <1>4, <3>1, HasAppended, SeqIs
  <2>2. CASE ~(a = b /\ n # None)
    BY <1>2, <1>3, <1>5, <2>2
  <2> QED
    BY <2>1, <2>2
<1>7. CASE a # b
  <2>1. page'[b] = page[b]
    BY <1>2, <1>7 DEF SendSave
  <2> QED
    BY <1>1, <1>6, <2>1, CopySame DEF AllTold, Unwritten
<1>8. CASE a = b
  <2>1. page'[b].openFiles = page[b].openFiles
    BY <1>2, <1>8 DEF SendSave, Pages
  <2>2. Unwritten(b, p) => Unwritten(b, p)'
    BY <1>1, <1>6, <1>8 DEF Unwritten
  <2> QED
    BY <1>1, <2>1, <2>2 DEF CopyOf, AllTold
<1> QED
  BY <1>7, <1>8

LEMMA CopyReceive ==
  ASSUME Typed, Known, SaversStay, NEW b \in Browsers, NEW p \in Paths, CopyOf(b, p),
         p \notin overtaken => HeardOf(b, p, Brings), NEW a \in Browsers, Receive(a)
  PROVE  CopyOf(b, p)'
<1>1. UNCHANGED <<disk, events, fromDaemon, overtaken, job, toDaemon, up>>
  BY DEF Receive, daemonVars
<1>2. down \in [Browsers -> Seq(Answers)] /\ page \in [Browsers -> Pages] /\ down[a] # <<>>
  BY DEF Typed, RelayTyped, PagesTyped, Receive
<1> DEFINE m == Head(down[a])
           t == Tail(down[a])
<1>3. /\ page' = [page EXCEPT ![a] = Applied(@, m)] /\ down' = [down EXCEPT ![a] = t]
      /\ conflicted' = IF m.kind = "save_rejected" THEN conflicted \cup {a} ELSE conflicted
  BY DEF Receive
<1>4. m \in Answers /\ IsSequence(down[a])
  BY <1>2, Dequeued, SeqIs
<1>5. \A kinds : Has(down[a], p, kinds) <=> Has(t, p, kinds) \/ News(m, p, kinds)
  BY <1>2, <1>4, HasTaken
<1>6. CASE a # b
  <2>1. page'[b] = page[b] /\ down'[b] = down[b] /\ conflicted \subseteq conflicted'
    BY <1>2, <1>3, <1>6
  <2> QED
    BY <1>1, <2>1, CopySame DEF AllTold, Unwritten
<1>7. CASE a = b
  <2> SUFFICES ASSUME AllTold(b, p)', p \notin overtaken, b \notin conflicted', ~Unwritten(b, p)'
               PROVE  page'[b].openFiles[p] \in {None, disk[p]}
    BY <1>1 DEF CopyOf
  <2> DEFINE pg == page[b]
             r == page'[b]
  <2>1. /\ pg \in Pages /\ r = Applied(pg, m) /\ down'[b] = t
    BY <1>2, <1>3, <1>7
  <2>2. m.kind # "save_rejected" /\ b \notin conflicted
    BY <1>3, <1>7
  <2>3. KnownTo(pg)
    BY <2>2 DEF Known
  <2>a. m \in Answers
    BY <1>4
  <2> HIDE DEF m, t, pg, r
  <2>4. /\ m.path # p => r.openFiles[p] = pg.openFiles[p]
        /\ m.path = p => r.openFiles[p] \in {None} \cup
                              IF m.kind = "file_deleted" THEN {} ELSE {m.content}
    BY <2>1, <2>2, <2>3, <2>a, AppliedKnown
  <2>5. r.saving = pg.saving
    BY <2>1, <2>a, AppliedTyped
  <2>6. ~Has(fromDaemon, p, Changes) /\ ~Has(t, p, Changes) /\ Free(events, p) /\ disk[p] # None
    BY <1>1, <2>1 DEF AllTold
  <2>7. CASE m.path = p /\ m.kind # "file_deleted"
    <3>1. News(m, p, Brings)
      BY <2>2, <2>7, <2>a DEF Answers, Bare, Carrying, News, Brings
    <3>2. Fresh(down[b], p, disk[p], Brings)
      BY <2>6 DEF HeardOf
    <3>3. m.content = disk[p]
      BY <1>2, <1>4, <1>7, <2>6, <3>1, <3>2, FreshTaken DEF m, t
    <3> QED
      BY <2>4, <2>7, <3>3 DEF r
  <2>8. CASE m.path = p /\ m.kind = "file_deleted"
    BY <2>4, <2>8 DEF r
  <2>9. CASE m.path # p
    <3>1. AllTold(b, p)
      <4>1. ~Has(down[b], p, Changes)
        BY <1>5, <1>7, <2>6, <2>9 DEF News
      <4> QED
        BY <2>6, <4>1 DEF AllTold
    <3>2. /\ ~(r.saving # None /\ r.activeFile = p)
          /\ Unwritten(b, p) => pg.saving # None /\ pg.activeFile = p
      <4>1. Has(down[b], p, {"save_rejected"}) => Has(down'[b], p, {"save_rejected"})
        BY <1>5, <1>7, <2>1, <2>9 DEF News
      <4> QED
        BY <1>1, <4>1 DEF Unwritten, r, pg
    <3>3. CASE Unwritten(b, p)
      <4>1. pg.activeFile = p /\ p # None /\ pg.saving # None /\ r.saving # None
        BY <2>5, <3>2, <3>3, NamesAssumption DEF Names
      <4>2. pg.activeFile \in {None, r.activeFile} \/ r.openFiles[pg.activeFile] = None
        BY <4>1 DEF SaversStay, pg, r
      <4>3. r.openFiles[p] = None
        BY <3>2, <4>1, <4>2
      <4> QED
        BY <4>3 DEF r
    <3>4. CASE ~Unwritten(b, p)
      <4>1. pg.openFiles[p] \in {None, disk[p]}
        BY <2>2, <3>1, <3>4 DEF CopyOf, pg
      <4> QED
        BY <2>4, <2>9, <4>1 DEF r
    <3> QED
      BY <3>3, <3>4
  <2> QED
    BY <2>7, <2>8, <2>9
<1> QED
  BY <1>6, <1>7

LEMMA CopyRelayStep ==
  ASSUME Typed, NEW b \in Browsers, NEW p \in Paths, CopyOf(b, p),
         NEW a \in Browsers, RelayStep(a)
  PROVE  CopyOf(b, p)'
<1>1. UNCHANGED <<disk, events, fromDaemon, overtaken, conflicted, job, page>>
  BY DEF RelayStep, RelayOpen, RelaySave, daemonVars, pageVars
<1>2. /\ up \in [Browsers -> Seq(Asked)] /\ down \in [Browsers -> Seq(Answers)]
      /\ toDaemon \in Seq(Orders)
  BY DEF Typed, RelayTyped
<1> DEFINE m == Head(up[a])
<1>3. up[a] # <<>> /\ up' = [up EXCEPT ![a] = Tail(@)]
  BY DEF RelayStep, RelayOpen, RelaySave
<1>4. IsSequence(up[a]) /\ IsSequence(down[a]) /\ IsSequence(toDaemon)
  BY <1>2, SeqIs
<1>5. /\ a # b => up'[b] = up[b]
      /\ Has(up[a], p, {"save_file"}) =>
            Has(up'[a], p, {"save_file"}) \/ News(m, p, {"save_file"})
  <2>1. Has(up[a], p, {"save_file"}) =>
            Has(Tail(up[a]), p, {"save_file"}) \/ News(m, p, {"save_file"})
    BY <1>3, <1>4, HasTaken
  <2> QED
    BY <1>2, <1>3, <2>1
<1>6. CASE RelayOpen(a)
  <2> DEFINE k == Msg("request_file", m.path, None)
  <2>1. /\ toDaemon' = Append(toDaemon, k) /\ UNCHANGED down /\ ~News(m, p, {"save_file"})
    BY <1>6 DEF RelayOpen, News
  <2> HIDE DEF m, k
  <2>2. Has(toDaemon, p, {"write_file"}) => Has(toDaemon', p, {"write_file"})
    BY <1>4, <2>1, HasAppended
  <2>3. Unwritten(b, p) => Unwritten(b, p)'
    BY <1>1, <1>5, <2>1, <2>2 DEF Unwritten
  <2> QED
    BY <1>1, <2>1, <2>3, CopySame DEF AllTold
<1>7. CASE RelaySave(a)
  <2> DEFINE k == Msg("save_rejected", m.path, cache[m.path])
             w == Msg("write_file", m.path, m.content)
  <2>1. \/ down' = [down EXCEPT ![a] = Append(@, k)] /\ UNCHANGED toDaemon
        \/ toDaemon' = Append(toDaemon, w) /\ UNCHANGED down
    BY <1>7 DEF RelaySave
  <2>2. /\ News(m, p, {"save_file"}) => News(k, p, {"save_rejected"}) /\ News(w, p, {"write_file"})
        /\ ~News(k, p, Changes)
    BY DEF News, Changes, Msg
  <2> HIDE DEF m, k, w
  <2>3. CASE down' = [down EXCEPT ![a] = Append(@, k)] /\ UNCHANGED toDaemon
    <3>1. down'[a] = Append(down[a], k) /\ (a # b => down'[b] = down[b])
      BY <1>2, <2>3
    <3>2. \A kinds : Has(down'[a], p, kinds) <=> Has(down[a], p, kinds) \/ News(k, p, kinds)
      BY <1>4, <3>1, HasAppended
    <3>3. Has(down'[b], p, Changes) <=> Has(down[b], p, Changes)
      BY <2>2, <3>1, <3>2
    <3>4. Unwritten(b, p) => Unwritten(b, p)'
      BY <1>1, <1>5, <2>2, <2>3, <3>1, <3>2 DEF Unwritten
    <3> QED
      BY <1>1, <3>3, <3>4, CopySame DEF AllTold
  <2>4. CASE toDaemon' = Append(toDaemon, w) /\ UNCHANGED down
    <3>1. \A kinds : Has(toDaemon', p, kinds) <=> Has(toDaemon, p, kinds) \/ News(w, p, kinds)
      BY <1>4, <2>4, HasAppended
    <3>2. Unwritten(b, p) => Unwritten(b, p)'
      BY <1>1, <1>5, <2>2, <2>4, <3>1 DEF Unwritten
    <3> QED
      BY <1>1, <2>4, <3>2, CopySame DEF AllTold
  <2> QED
    BY <2>1, <2>3, <2>4
<1> QED
  BY <1>6, <1>7 DEF RelayStep

LEMMA CopyRelay ==
  ASSUME Typed, NEW b \in Browsers, NEW p \in Paths, CopyOf(b, p), RelayFromDaemon
  PROVE  CopyOf(b, p)'
<1> DEFINE m == Head(fromDaemon)
<1>1. /\ fromDaemon # <<>> /\ fromDaemon' = Tail(fromDaemon)
      /\ UNCHANGED <<disk, events, up, page, overtaken, conflicted, job, toDaemon>>
      /\ \/ down'[b] = Append(down[b], m)
         \/ down'[b] = down[b] /\ m.kind \notin Changes
  BY Relayed
<1>2. IsSequence(fromDaemon) /\ IsSequence(down[b])
  BY SeqIs DEF Typed, RelayTyped
<1> HIDE DEF m
<1>3. Has(fromDaemon, p, Changes) <=> Has(fromDaemon', p, Changes) \/ News(m, p, Changes)
  BY <1>1, <1>2, HasTaken DEF m
<1>4. CASE down'[b] = Append(down[b], m)
  <2>1. \A kinds : Has(down'[b], p, kinds) <=> Has(down[b], p, kinds) \/ News(m, p, kinds)
    BY <1>2, <1>4, HasAppended
  <2>2. Unwritten(b, p) => Unwritten(b, p)'
    BY <1>1, <2>1 DEF Unwritten
  <2>3. AllTold(b, p)' => AllTold(b, p)
    BY <1>1, <1>3, <2>1 DEF AllTold
  <2> QED
    BY <1>1, <2>2, <2>3, CopySame
<1>5. CASE down'[b] = down[b] /\ m.kind \notin Changes
  <2>1. ~News(m, p, Changes)
    BY <1>5 DEF News
  <2> QED
    BY <1>1, <1>3, <1>5, <2>1, CopySame DEF AllTold, Unwritten
<1> QED
  BY <1>1, <1>4, <1>5

LEMMA CopyDaemon ==
  ASSUME Typed, NEW b \in Browsers, NEW p \in Paths, CopyOf(b, p), ReadFile \/ SendContent
  PROVE  CopyOf(b, p)'
<1>1. /\ IsSequence(fromDaemon) /\ IsSequence(toDaemon)
      /\ UNCHANGED <<disk, events, up, down, page, overtaken, conflicted>>
  BY SeqIs DEF Typed, RelayTyped, ReadFile, SendContent, pageVars
<1>2. Has(fromDaemon, p, Changes) => Has(fromDaemon', p, Changes)
  <2>1. \A m : Has(Append(fromDaemon, m), p, Changes) <=>
                   Has(fromDaemon, p, Changes) \/ News(m, p, Changes)
    BY <1>1, HasAppended
  <2> QED
    BY <2>1 DEF ReadFile, SendContent
<1>3. job.kind # "write_file"
  BY DEF ReadFile, SendContent, Idle
<1>4. Has(toDaemon, p, {"write_file"}) => Has(toDaemon', p, {"write_file"})
  <2>1. CASE SendContent
    BY <2>1 DEF SendContent
  <2>2. CASE ReadFile
    <3>1. toDaemon # <<>> /\ toDaemon' = Tail(toDaemon) /\ Head(toDaemon).kind = "request_file"
      BY <2>2 DEF ReadFile
    <3>2. ~News(Head(toDaemon), p, {"write_file"})
      BY <3>1 DEF News
    <3> QED
      BY <1>1, <3>1, <3>2, HasTaken
  <2> QED
    BY <2>1, <2>2
<1>5. Unwritten(b, p) => Unwritten(b, p)'
  BY <1>1, <1>3, <1>4 DEF Unwritten
<1> QED
  BY <1>1, <1>2, <1>5, CopySame DEF AllTold

LEMMA CopyWrites ==
  ASSUME Typed, NEW b \in Browsers, NEW p \in Paths, CopyOf(b, p),
         TruncateFile \/ WriteFile \/ \E q \in Paths, kind \in Edits : Edit(q, kind)
  PROVE  CopyOf(b, p)'
<1>1. /\ Free(events', p) => Free(events, p) /\ disk'[p] = disk[p]
      /\ UNCHANGED <<fromDaemon, up, down, page, overtaken, conflicted>>
  BY Written
<1>2. IsSequence(toDaemon) /\ IsSequence(events)
  BY SeqIs DEF Typed, RelayTyped, DiskTyped
<1>3. Free(events', p) /\ Unwritten(b, p) => Unwritten(b, p)'
  <2>1. CASE TruncateFile
    <3> DEFINE q == Head(toDaemon).path
               k == Msg(IF disk[q] = None THEN "file_created" ELSE "file_changed", q, None)
    <3>1. /\ toDaemon # <<>> /\ toDaemon' = Tail(toDaemon) /\ events' = Append(events, k)
          /\ job = Idle /\ k.path = q
      BY <2>1 DEF TruncateFile, Msg
    <3>2. Free(events', p) => q # p
      BY <1>2, <3>1, AppendEvent
    <3>3. Has(toDaemon, p, {"write_file"}) =>
             Has(toDaemon', p, {"write_file"}) \/ News(Head(toDaemon), p, {"write_file"})
      BY <1>2, <3>1, HasTaken
    <3>4. News(Head(toDaemon), p, {"write_file"}) => q = p
      BY DEF News
    <3> QED
      BY <1>1, <3>1, <3>2, <3>3, <3>4 DEF Unwritten, Idle
  <2>2. CASE WriteFile
    <3> DEFINE k == Msg("file_changed", job.path, None)
    <3>1. UNCHANGED toDaemon /\ events' = Append(events, k) /\ k.path = job.path
      BY <2>2 DEF WriteFile, Msg
    <3>2. Free(events', p) => job.path # p
      BY <1>2, <3>1, AppendEvent
    <3> QED
      BY <1>1, <3>1, <3>2 DEF Unwritten
  <2>3. CASE \E q \in Paths, kind \in Edits : Edit(q, kind)
    BY <1>1, <2>3 DEF Edit, Unwritten
  <2> QED
    BY <2>1, <2>2, <2>3
<1> QED
  BY <1>1, <1>3, CopySame DEF AllTold

LEMMA CopyEvent ==
  ASSUME Typed, RelayInv, NEW b \in Browsers, NEW p \in Paths, CopyOf(b, p), HandleFSEvent
  PROVE  CopyOf(b, p)'
<1>1. /\ IsSequence(fromDaemon) /\ overtaken \subseteq overtaken'
      /\ UNCHANGED <<disk, job, toDaemon, up, down, page, conflicted>>
  BY SeqIs DEF Typed, RelayTyped, HandleFSEvent, pageVars
<1>2. \A m : Has(Append(fromDaemon, m), p, Changes) <=>
                 Has(fromDaemon, p, Changes) \/ News(m, p, Changes)
  BY <1>1, HasAppended
<1>3. AllTold(b, p)' => AllTold(b, p)
  <2> SUFFICES ASSUME Free(events', p), disk[p] # None, ~Has(fromDaemon', p, Changes)
               PROVE  Free(events, p) /\ ~Has(fromDaemon, p, Changes)
    BY <1>1 DEF AllTold
  <2> QED
    BY <1>2, WatcherTells
<1> QED
  BY <1>1, <1>3, CopySame DEF Unwritten

LEMMA CopyNext ==
  ASSUME Typed, RelayInv, Known, [Next]_vars, SaversStay, NEW b \in Browsers, NEW p \in Paths,
         p \notin overtaken => HeardOf(b, p, Brings), CopyOf(b, p)
  PROVE  CopyOf(b, p)'
<1>1. CASE UNCHANGED vars
  BY <1>1, CopySame DEF vars, daemonVars, pageVars, AllTold, Unwritten
<1>2. ASSUME NEW a \in Browsers,
             \/ \E n \in Names : Click(a, n) \/ Close(a, n)
             \/ Type(a) \/ PressSave(a) \/ PressOverwrite(a) \/ PressReload(a)
      PROVE  CopyOf(b, p)'
  BY <1>2, CopyUser
<1>3. ASSUME NEW a \in Browsers, SendSave(a) \/ Receive(a) \/ RelayStep(a)
      PROVE  CopyOf(b, p)'
  BY <1>3, CopySendSave, CopyReceive, CopyRelayStep
<1>4. CASE RelayFromDaemon
  BY <1>4, CopyRelay
<1>5. CASE ReadFile \/ SendContent
  BY <1>5, CopyDaemon
<1>6. CASE TruncateFile \/ WriteFile \/ \E q \in Paths, kind \in Edits : Edit(q, kind)
  BY <1>6, CopyWrites
<1>7. CASE HandleFSEvent
  BY <1>7, CopyEvent
<1> QED
  BY <1>1, <1>2, <1>3, <1>4, <1>5, <1>6, <1>7 DEF Next, DaemonStep

LEMMA KnownNext ==
  ASSUME Typed, Known, [Next]_vars
  PROVE  Known'
<1> SUFFICES ASSUME NEW b \in Browsers, b \notin conflicted' PROVE KnownTo(page'[b])
  BY DEF Known, KnownTo, Unknown
<1>0. page \in [Browsers -> Pages]
  BY DEF Typed, PagesTyped
<1>1. CASE UNCHANGED <<page, conflicted>>
  BY <1>1 DEF Known
<1>2. ASSUME NEW a \in Browsers,
             \/ \E n \in Names : Click(a, n) \/ Close(a, n)
             \/ Type(a) \/ PressSave(a) \/ PressOverwrite(a) \/ PressReload(a)
      PROVE  KnownTo(page'[b])
  <2>1. UNCHANGED conflicted
    BY <1>2 DEF Click, Close, Type, PressSave, PressOverwrite, PressReload, PageOnly
  <2>2. KnownTo(page[b])
    BY <2>1 DEF Known
  <2>3. CASE a = b
    BY <1>2, <2>2, <2>3, UserKnown
  <2>4. CASE a # b
    <3>1. page'[b] = page[b]
      BY <1>0, <1>2, <2>4 DEF Click, Close, Type, PressSave, PressOverwrite, PressReload
    <3> QED
      BY <2>2, <3>1
  <2> QED
    BY <2>3, <2>4
<1>3. ASSUME NEW a \in Browsers, SendSave(a) PROVE KnownTo(page'[b])
  <2>1. KnownTo(page[b])
    BY <1>3 DEF Known, SendSave
  <2>2. page'[b] = IF a = b THEN [page[b] EXCEPT !.saving = None] ELSE page[b]
    BY <1>0, <1>3 DEF SendSave
  <2> DEFINE pg == page[b]
             r == page'[b]
  <2>3. CASE a = b
    <3>1. r = [pg EXCEPT !.saving = None] /\ pg \in Pages
      BY <1>0, <2>2, <2>3
    <3> HIDE DEF pg, r
    <3>2. /\ r.pathMap = pg.pathMap /\ r.banner = pg.banner
          /\ r.openFiles = pg.openFiles /\ r.fileStates = pg.fileStates /\ r.tabs = pg.tabs
          /\ r.currentPath = pg.currentPath /\ r.activeFile = pg.activeFile
      BY <3>1 DEF Pages
    <3> QED
      BY <2>1, <3>2 DEF KnownTo, Unknown, pg, r
  <2> QED
    BY <2>1, <2>2, <2>3
<1>4. ASSUME NEW a \in Browsers, Receive(a) PROVE KnownTo(page'[b])
  <2> DEFINE m == Head(down[a])
             pg == page[b]
             r == page'[b]
  <2>1. /\ down \in [Browsers -> Seq(Answers)] /\ down[a] # <<>>
        /\ conflicted' = IF m.kind = "save_rejected" THEN conflicted \cup {a} ELSE conflicted
        /\ page' = [page EXCEPT ![a] = Applied(@, m)]
    BY <1>4 DEF Receive, Typed, RelayTyped
  <2>2. m \in Answers
    BY <2>1, Dequeued
  <2>3. KnownTo(pg)
    BY <2>1 DEF Known
  <2>4. CASE a = b
    <3>1. m.kind # "save_rejected" /\ r = Applied(pg, m) /\ pg \in Pages
      BY <1>0, <2>1, <2>4
    <3> HIDE DEF pg, m, r
    <3>2. KnownTo(r)
      BY <2>2, <2>3, <3>1, AppliedKnown
    <3> QED
      BY <3>2 DEF r
  <2>5. CASE a # b
    BY <1>0, <2>1, <2>3, <2>5
  <2> QED
    BY <2>4, <2>5
<1>5. ASSUME NEW a \in Browsers, RelayStep(a) PROVE KnownTo(page'[b])
  BY <1>1, <1>5 DEF RelayStep, RelayOpen, RelaySave, pageVars
<1>6. CASE UNCHANGED vars
  BY <1>1, <1>6 DEF vars, pageVars
<1>7. CASE RelayFromDaemon \/ DaemonStep \/ HandleFSEvent
           \/ \E p \in Paths, kind \in Edits : Edit(p, kind)
  BY <1>1, <1>7 DEF RelayFromDaemon, DaemonStep, ReadFile, SendContent, TruncateFile, WriteFile,
                    HandleFSEvent, Edit, pageVars
<1> QED
  BY <1>2, <1>3, <1>4, <1>5, <1>6, <1>7 DEF Next

LEMMA OvertakenGrows == [Next]_vars => overtaken \subseteq overtaken'
<1> SUFFICES ASSUME [Next]_vars PROVE overtaken \subseteq overtaken'
  OBVIOUS
<1>1. CASE UNCHANGED vars
  BY <1>1 DEF vars
<1>2. ASSUME NEW b \in Browsers,
             \/ \E n \in Names : Click(b, n) \/ Close(b, n)
             \/ Type(b) \/ PressSave(b) \/ PressOverwrite(b) \/ PressReload(b)
             \/ SendSave(b) \/ Receive(b) \/ RelayStep(b)
      PROVE  overtaken' = overtaken
  BY <1>2, BrowserNext
<1>3. CASE RelayFromDaemon \/ DaemonStep \/ \E p \in Paths, kind \in Edits : Edit(p, kind)
  BY <1>3 DEF RelayFromDaemon, DaemonStep, ReadFile, SendContent, TruncateFile, WriteFile, Edit
<1>4. CASE HandleFSEvent
  BY <1>4 DEF HandleFSEvent
<1> QED
  BY <1>1, <1>2, <1>3, <1>4 DEF Next

(* The inductive strengthening of PageConverges.                           *)
SyncInv ==
    /\ Typed /\ RelayInv /\ Known
    /\ \A b \in Browsers, p \in Paths :
          (p \notin overtaken => HeardOf(b, p, Brings)) /\ CopyOf(b, p)

LEMMA NothingOnItsWay ==
  ASSUME Init, NEW b \in Browsers, NEW p \in Paths, NEW kinds
  PROVE  HeardOf(b, p, kinds) /\ disk[p] = <<p, 0>>
BY DEF Init, HeardOf, Fresh

LEMMA SyncInvInit == Init => SyncInv
<1> SUFFICES ASSUME Init PROVE SyncInv
  OBVIOUS
<1>1. Typed /\ RelayInv
  BY TypedInit, RelayInvInit
<1>2. Known
  BY FirstPages DEF Known, KnownTo
<1>3. ASSUME NEW b \in Browsers, NEW p \in Paths
      PROVE  HeardOf(b, p, Brings) /\ CopyOf(b, p)
  BY NothingOnItsWay, FirstPages DEF CopyOf
<1> QED
  BY <1>1, <1>2, <1>3 DEF SyncInv

LEMMA SyncInvNext == SyncInv /\ [Next]_vars /\ [SaversStay]_vars => SyncInv'
<1> SUFFICES ASSUME SyncInv, [Next]_vars, [SaversStay]_vars PROVE SyncInv'
  OBVIOUS
<1>1. Typed /\ RelayInv /\ Known
  BY DEF SyncInv
<1>2. SaversStay
  BY DEF SaversStay, vars, pageVars
<1>3. Typed' /\ RelayInv' /\ Known'
  BY <1>1, TypedNext, RelayInvNext, KnownNext
<1>4. ASSUME NEW b \in Browsers, NEW p \in Paths
      PROVE  (p \notin overtaken' => HeardOf(b, p, Brings)') /\ CopyOf(b, p)'
  <2>1. (p \notin overtaken => HeardOf(b, p, Brings)) /\ CopyOf(b, p)
    BY DEF SyncInv
  <2>2. p \notin overtaken' => p \notin overtaken
    BY OvertakenGrows
  <2>3. p \notin overtaken' => HeardOf(b, p, Brings)'
    BY <1>1, <2>1, <2>2, HeardNext DEF Kinds
  <2>4. CopyOf(b, p)'
    BY <1>1, <1>2, <2>1, CopyNext
  <2> QED
    BY <2>3, <2>4
<1> QED
  BY <1>3, <1>4 DEF SyncInv

LEMMA FreeOf ==
  ASSUME NEW s, NEW p, NEW kinds, Free(s, p)
  PROVE  ~Has(s, p, kinds)
BY DEF Free, Concerns, Has, News

LEMMA SyncInvConverges == SyncInv => PageConverges
<1> SUFFICES ASSUME SyncInv, NEW b \in Browsers \ conflicted, NEW p \in Paths, Settled(b, p),
                    p \notin overtaken, page[b].openFiles[p] # None, disk[p] # None
             PROVE  page[b].openFiles[p] = disk[p]
  BY DEF PageConverges
<1>1. AllTold(b, p) /\ ~Unwritten(b, p)
  BY FreeOf DEF Settled, Reported, AllTold, Unwritten
<1> QED
  BY <1>1 DEF SyncInv, CopyOf

(* A page whose saves were never refused ends with the file on disk as its *)
(* copy, whatever it saved and whoever else did, if its user stays with    *)
(* the file from the press of the key until the save is sent (SaversStay): *)
(* the text in between is meant for that file, and the code sends it to    *)
(* the file that is then active (saveFile of app.js).                      *)
THEOREM PagesAlwaysConverge == Spec /\ [][SaversStay]_vars => []PageConverges
<1>1. Init => SyncInv
  BY SyncInvInit
<1>2. SyncInv /\ [Next]_vars /\ [SaversStay]_vars => SyncInv'
  BY SyncInvNext
<1>3. SyncInv => PageConverges
  BY SyncInvConverges
<1> QED
  BY <1>1, <1>2, <1>3, PTL DEF Spec

-----------------------------------------------------------------------------
(* A file is created where there was none: between two reports that p is   *)
(* created there is one that it is deleted.                                *)

Makes(m, p) == m.path = p /\ m.kind = "file_created"
Removes(m, p) == m.path = p /\ m.kind = "file_deleted"

NoneNew(s, p) == \A i \in DOMAIN s : ~Makes(s[i], p)
Gone(s, p) == \E i \in DOMAIN s :
                 Removes(s[i], p) /\ \A k \in DOMAIN s : i < k => ~Makes(s[k], p)
GoneBefore(s, j, p) ==
    \E i \in DOMAIN s : /\ i < j /\ Removes(s[i], p)
                        /\ \A k \in DOMAIN s : i < k /\ k < j => ~Makes(s[k], p)
(* Of a queue before which the file was there, or may have been gone.      *)
Strict(s, p) == \A j \in DOMAIN s : Makes(s[j], p) => GoneBefore(s, j, p)
Lax(s, p) ==
    \A j \in DOMAIN s : Makes(s[j], p) =>
        GoneBefore(s, j, p) \/ \A i \in DOMAIN s : i < j => ~Makes(s[i], p)

LEMMA EmptyOrder ==
  ASSUME NEW p
  PROVE  Lax(<<>>, p) /\ Strict(<<>>, p) /\ NoneNew(<<>>, p)
BY DEF Lax, Strict, NoneNew

LEMMA AppendOrder ==
  ASSUME NEW s, IsSequence(s), NEW m, NEW p, NEW t, t = Append(s, m)
  PROVE  /\ NoneNew(t, p) <=> NoneNew(s, p) /\ ~Makes(m, p)
         /\ Removes(m, p) => Gone(t, p)
         /\ Gone(s, p) /\ ~Makes(m, p) => Gone(t, p)
         /\ Strict(s, p) /\ (Makes(m, p) => Gone(s, p)) => Strict(t, p)
         /\ Lax(s, p) /\ (Makes(m, p) => Gone(s, p) \/ NoneNew(s, p)) => Lax(t, p)
<1> DEFINE l == Len(s) + 1
<1>1. /\ \A i \in DOMAIN s : i \in DOMAIN t /\ t[i] = s[i] /\ i < l /\ i \in Nat
      /\ l \in DOMAIN t /\ t[l] = m /\ l \in Nat
      /\ \A i \in DOMAIN t : i \in DOMAIN s \/ i = l
  <2>1. /\ Len(s) \in Nat /\ DOMAIN s = 1 .. Len(s)
        /\ DOMAIN t = 1 .. Len(s) + 1
        /\ \A i \in 1 .. Len(s) : t[i] = s[i]
        /\ t[Len(s) + 1] = m
    BY Appended
  <2> QED
    BY <2>1
<1> HIDE DEF l
<1>2. NoneNew(t, p) <=> NoneNew(s, p) /\ ~Makes(m, p)
  BY <1>1 DEF NoneNew
<1>3. Removes(m, p) => Gone(t, p)
  <2> SUFFICES ASSUME Removes(m, p) PROVE Gone(t, p)
    OBVIOUS
  <2>1. \A k \in DOMAIN t : ~(l < k)
    BY <1>1
  <2> QED
    BY <1>1, <2>1 DEF Gone
<1>4. Gone(s, p) /\ ~Makes(m, p) => Gone(t, p)
  BY <1>1 DEF Gone
<1>5. ASSUME NEW j \in DOMAIN s, GoneBefore(s, j, p) PROVE GoneBefore(t, j, p)
  <2>1. PICK i \in DOMAIN s : /\ i < j /\ Removes(s[i], p)
                              /\ \A k \in DOMAIN s : i < k /\ k < j => ~Makes(s[k], p)
    BY <1>5 DEF GoneBefore
  <2>2. \A k \in DOMAIN t : k < j => k \in DOMAIN s
    BY <1>1
  <2>3. \A k \in DOMAIN t : i < k /\ k < j => ~Makes(t[k], p)
    BY <1>1, <2>1, <2>2
  <2> QED
    BY <1>1, <2>1, <2>3 DEF GoneBefore
<1>6. Gone(s, p) => GoneBefore(t, l, p)
  <2> SUFFICES ASSUME Gone(s, p) PROVE GoneBefore(t, l, p)
    OBVIOUS
  <2>1. PICK i \in DOMAIN s : Removes(s[i], p) /\ \A k \in DOMAIN s : i < k => ~Makes(s[k], p)
    BY DEF Gone
  <2>2. \A k \in DOMAIN t : k < l => k \in DOMAIN s
    BY <1>1
  <2> QED
    BY <1>1, <2>1, <2>2 DEF GoneBefore
<1>7. ASSUME Strict(s, p), Makes(m, p) => Gone(s, p) PROVE Strict(t, p)
  BY <1>1, <1>5, <1>6, <1>7 DEF Strict
<1>8. ASSUME Lax(s, p), Makes(m, p) => Gone(s, p) \/ NoneNew(s, p) PROVE Lax(t, p)
  <2> SUFFICES ASSUME NEW j \in DOMAIN t, Makes(t[j], p), ~GoneBefore(t, j, p),
                      NEW i \in DOMAIN t, i < j
               PROVE  ~Makes(t[i], p)
    BY DEF Lax
  <2>1. i \in DOMAIN s
    BY <1>1
  <2>2. CASE j = l
    BY <1>1, <1>6, <1>8, <2>1, <2>2 DEF NoneNew
  <2>3. CASE j \in DOMAIN s
    BY <1>1, <1>5, <1>8, <2>1, <2>3 DEF Lax
  <2> QED
    BY <1>1, <2>2, <2>3
<1> QED
  BY <1>2, <1>3, <1>4, <1>7, <1>8

LEMMA TakeOrder ==
  ASSUME NEW s, IsSequence(s), s # <<>>, NEW p, NEW m, m = Head(s), NEW t, t = Tail(s)
  PROVE  /\ NoneNew(s, p) <=> NoneNew(t, p) /\ ~Makes(m, p)
         /\ Gone(s, p) => Gone(t, p) \/ (Removes(m, p) /\ NoneNew(t, p))
         /\ Gone(t, p) => Gone(s, p)
         /\ Removes(m, p) /\ NoneNew(t, p) => Gone(s, p)
         /\ Lax(s, p) => Lax(t, p)
         /\ Makes(m, p) /\ Lax(s, p) => Strict(t, p)
         /\ Strict(s, p) => ~Makes(m, p) /\ (~Removes(m, p) => Strict(t, p))
<1>1. /\ \A i \in DOMAIN s : i # 1 => i - 1 \in DOMAIN t /\ s[i] = t[i - 1]
      /\ \A i \in DOMAIN t : i + 1 \in DOMAIN s /\ t[i] = s[i + 1] /\ i >= 1
      /\ 1 \in DOMAIN s /\ m = s[1] /\ DOMAIN s \subseteq Nat /\ DOMAIN t \subseteq Nat
      /\ \A i \in DOMAIN s : i >= 1
  <2>1. /\ Len(s) \in Nat \ {0} /\ DOMAIN s = 1 .. Len(s)
        /\ DOMAIN t = 1 .. Len(s) - 1 /\ m = s[1]
        /\ \A i \in 1 .. Len(s) - 1 : t[i] = s[i + 1]
    BY Taken
  <2> QED
    BY <2>1
<1>2. NoneNew(s, p) <=> NoneNew(t, p) /\ ~Makes(m, p)
  <2>1. NoneNew(s, p) => NoneNew(t, p) /\ ~Makes(m, p)
    BY <1>1 DEF NoneNew
  <2>2. NoneNew(t, p) /\ ~Makes(m, p) => NoneNew(s, p)
    BY <1>1 DEF NoneNew
  <2> QED
    BY <2>1, <2>2
<1>3. Gone(s, p) => Gone(t, p) \/ (Removes(m, p) /\ NoneNew(t, p))
  <2> SUFFICES ASSUME Gone(s, p) PROVE Gone(t, p) \/ (Removes(m, p) /\ NoneNew(t, p))
    OBVIOUS
  <2>1. PICK i \in DOMAIN s : Removes(s[i], p) /\ \A k \in DOMAIN s : i < k => ~Makes(s[k], p)
    BY DEF Gone
  <2>2. \A k \in DOMAIN t : i < k + 1 => ~Makes(t[k], p)
    BY <1>1, <2>1
  <2>3. CASE i = 1
    <3>1. \A k \in DOMAIN t : i < k + 1
      BY <1>1, <2>3
    <3> QED
      BY <1>1, <2>1, <2>2, <2>3, <3>1 DEF NoneNew
  <2>4. CASE i # 1
    <3>1. i - 1 \in DOMAIN t /\ Removes(t[i - 1], p)
      BY <1>1, <2>1, <2>4
    <3>2. \A k \in DOMAIN t : i - 1 < k => i < k + 1
      BY <1>1
    <3> QED
      BY <2>2, <3>1, <3>2 DEF Gone
  <2> QED
    BY <2>3, <2>4
<1>4. Gone(t, p) => Gone(s, p)
  <2> SUFFICES ASSUME Gone(t, p) PROVE Gone(s, p)
    OBVIOUS
  <2>1. PICK i \in DOMAIN t : Removes(t[i], p) /\ \A k \in DOMAIN t : i < k => ~Makes(t[k], p)
    BY DEF Gone
  <2>2. i + 1 \in DOMAIN s /\ Removes(s[i + 1], p)
    BY <1>1, <2>1
  <2>3. ASSUME NEW k \in DOMAIN s, i + 1 < k PROVE ~Makes(s[k], p)
    <3>1. k # 1 /\ i < k - 1
      BY <1>1, <2>3
    <3> QED
      BY <1>1, <2>1, <3>1
  <2> QED
    BY <2>2, <2>3 DEF Gone
<1>5. Removes(m, p) /\ NoneNew(t, p) => Gone(s, p)
  <2> SUFFICES ASSUME Removes(m, p), NoneNew(t, p) PROVE Gone(s, p)
    OBVIOUS
  <2>1. ASSUME NEW k \in DOMAIN s, 1 < k PROVE ~Makes(s[k], p)
    <3>1. k # 1
      BY <1>1, <2>1
    <3> QED
      BY <1>1, <3>1 DEF NoneNew
  <2> QED
    BY <1>1, <2>1 DEF Gone
<1>6. ASSUME NEW j \in DOMAIN t, GoneBefore(s, j + 1, p)
      PROVE  GoneBefore(t, j, p) \/ (Removes(m, p) /\ \A k \in DOMAIN t : k < j => ~Makes(t[k], p))
  <2>1. PICK i \in DOMAIN s : /\ i < j + 1 /\ Removes(s[i], p)
                              /\ \A k \in DOMAIN s : i < k /\ k < j + 1 => ~Makes(s[k], p)
    BY <1>6 DEF GoneBefore
  <2>2. ASSUME NEW k \in DOMAIN t, i < k + 1, k < j PROVE ~Makes(t[k], p)
    <3>1. k + 1 \in DOMAIN s /\ k + 1 < j + 1
      BY <1>1, <2>2
    <3> QED
      BY <1>1, <2>1, <2>2, <3>1
  <2>3. CASE i = 1
    <3>1. \A k \in DOMAIN t : i < k + 1
      BY <1>1, <2>3
    <3> QED
      BY <1>1, <2>1, <2>2, <2>3, <3>1
  <2>4. CASE i # 1
    <3>1. i - 1 \in DOMAIN t /\ Removes(t[i - 1], p) /\ i - 1 < j
      BY <1>1, <2>1, <2>4
    <3>2. \A k \in DOMAIN t : i - 1 < k => i < k + 1
      BY <1>1
    <3> QED
      BY <2>2, <3>1, <3>2 DEF GoneBefore
  <2> QED
    BY <2>3, <2>4
<1>7. ASSUME NEW j \in DOMAIN t PROVE j + 1 \in DOMAIN s /\ s[j + 1] = t[j] /\ 1 < j + 1
  BY <1>1
<1>8. ASSUME Lax(s, p) PROVE Lax(t, p)
  <2> SUFFICES ASSUME NEW j \in DOMAIN t, Makes(t[j], p), ~GoneBefore(t, j, p),
                      NEW i \in DOMAIN t, i < j
               PROVE  ~Makes(t[i], p)
    BY DEF Lax
  <2>1. i + 1 < j + 1
    BY <1>1
  <2>2. GoneBefore(s, j + 1, p) \/ ~Makes(s[i + 1], p)
    BY <1>7, <1>8, <2>1 DEF Lax
  <2> QED
    BY <1>6, <1>7, <2>2
<1>9. ASSUME Makes(m, p), Lax(s, p) PROVE Strict(t, p)
  <2> SUFFICES ASSUME NEW j \in DOMAIN t, Makes(t[j], p) PROVE GoneBefore(t, j, p)
    BY DEF Strict
  <2>1. GoneBefore(s, j + 1, p)
    BY <1>1, <1>7, <1>9 DEF Lax
  <2>2. ~Removes(m, p)
    BY <1>9 DEF Makes, Removes
  <2> QED
    BY <1>6, <2>1, <2>2
<1>10. ASSUME Strict(s, p) PROVE ~Makes(m, p) /\ (~Removes(m, p) => Strict(t, p))
  <2>1. ~Makes(m, p)
    <3>1. ~GoneBefore(s, 1, p)
      BY <1>1 DEF GoneBefore
    <3> QED
      BY <1>1, <1>10, <3>1 DEF Strict
  <2>2. ASSUME ~Removes(m, p) PROVE Strict(t, p)
    BY <1>6, <1>7, <1>10, <2>2 DEF Strict
  <2> QED
    BY <2>1, <2>2
<1> QED
  BY <1>2, <1>3, <1>4, <1>5, <1>8, <1>9, <1>10

-----------------------------------------------------------------------------
(* Who never types nor asks, saves nothing and is sent no content.         *)

Lacks(s, kinds) == \A p \in Paths : ~Has(s, p, kinds)

LEMMA LacksAppended ==
  ASSUME NEW s, IsSequence(s), NEW kinds, Lacks(s, kinds), NEW m, m.kind \notin kinds
  PROVE  Lacks(Append(s, m), kinds)
BY HasAppended DEF Lacks, News

LEMMA LacksTaken ==
  ASSUME NEW s, IsSequence(s), s # <<>>, NEW kinds, Lacks(s, kinds)
  PROVE  Lacks(Tail(s), kinds) /\ (Head(s).path \in Paths => Head(s).kind \notin kinds)
BY HasTaken DEF Lacks, News

UserStep(b) == \/ \E n \in Names : Click(b, n) \/ Close(b, n)
               \/ Type(b) \/ PressSave(b) \/ PressOverwrite(b) \/ PressReload(b)
BrowserStep(b) == UserStep(b) \/ SendSave(b) \/ Receive(b) \/ RelayStep(b)

(* One browser does nothing to the others.                                 *)
LEMMA OthersKept ==
  ASSUME Typed, NEW a \in Browsers, NEW b \in Browsers \ {a}, BrowserStep(a)
  PROVE  /\ page'[b] = page[b] /\ up'[b] = up[b] /\ down'[b] = down[b]
         /\ asks'[b] = asks[b] /\ (b \in conflicted' => b \in conflicted)
         /\ \A p \in Paths : pendingFiles'[p] \in {pendingFiles[p], a}
<1>1. /\ page \in [Browsers -> Pages] /\ up \in [Browsers -> Seq(Asked)]
      /\ down \in [Browsers -> Seq(Answers)] /\ asks \in [Browsers -> 0 .. MaxAsks]
      /\ pendingFiles \in [Paths -> Browsers \cup {None}]
  BY DEF Typed, PagesTyped, RelayTyped
<1>2. page'[b] = page[b]
  BY <1>1 DEF BrowserStep, UserStep, Click, Close, Type, PressSave, PressOverwrite, PressReload,
              SendSave, Receive, RelayStep, RelayOpen, RelaySave, pageVars
<1>3. up'[b] = up[b]
  BY <1>1 DEF BrowserStep, UserStep, Click, Close, Type, PressSave, PressOverwrite, PressReload,
              PageOnly, SendSave, Receive, RelayStep, RelayOpen, RelaySave
<1>4. down'[b] = down[b]
  BY <1>1 DEF BrowserStep, UserStep, Click, Close, Type, PressSave, PressOverwrite, PressReload,
              PageOnly, SendSave, Receive, RelayStep, RelayOpen, RelaySave
<1>5. asks'[b] = asks[b]
  BY <1>1 DEF BrowserStep, UserStep, Click, Close, Type, PressSave, PressOverwrite, PressReload,
              PageOnly, SendSave, Receive, RelayStep, RelayOpen, RelaySave, pageVars
<1>6. b \in conflicted' => b \in conflicted
  BY <1>1 DEF BrowserStep, UserStep, Click, Close, Type, PressSave, PressOverwrite, PressReload,
              PageOnly, SendSave, Receive, RelayStep, RelayOpen, RelaySave
<1>7. \A p \in Paths : pendingFiles'[p] \in {pendingFiles[p], a}
  BY <1>1 DEF BrowserStep, UserStep, Click, Close, Type, PressSave, PressOverwrite, PressReload,
              PageOnly, SendSave, Receive, RelayStep, RelayOpen, RelaySave, relayVars
<1> QED
  BY <1>2, <1>3, <1>4, <1>5, <1>6, <1>7

Unasked(b) ==
    asks[b] = 0 => /\ Lacks(up[b], {"open_file"}) /\ Lacks(down[b], {"file_content"})
                   /\ \A p \in Paths : pendingFiles[p] # b

(* What the relay and the daemon's side do to a browser's queues.          *)
LEMMA RelayedTo ==
  ASSUME Typed, NEW b \in Browsers, RelayFromDaemon, \A p \in Paths : pendingFiles[p] # b
  PROVE  /\ \A p \in Paths : pendingFiles'[p] # b
         /\ \/ /\ down'[b] = Append(down[b], Head(fromDaemon))
               /\ Head(fromDaemon).kind \in Changes \cup {"file_deleted"}
            \/ down'[b] = down[b] /\ Head(fromDaemon).kind \notin Changes \cup {"file_deleted"}
<1> DEFINE m == Head(fromDaemon)
<1>1. /\ fromDaemon \in Seq(Reports) /\ down \in [Browsers -> Seq(Answers)]
      /\ pendingFiles \in [Paths -> Browsers \cup {None}]
      /\ fromDaemon # <<>>
      /\ RelayContent(m) \/ RelayChange(m) \/ RelayDelete(m) \/ RelayError(m)
  BY DEF RelayFromDaemon, Typed, RelayTyped
<1>2. m \in Reports
  BY <1>1, Dequeued
<1>3. m.path \in Paths
  BY <1>2 DEF Reports, Bare, Carrying
<1> HIDE DEF m
<1>4. ASSUME NEW p \in Paths, pendingFiles'[p] = b PROVE FALSE
  <2>1. pendingFiles'[p] \in {pendingFiles[p], None}
    BY <1>1, <1>3 DEF RelayContent, RelayChange, RelayDelete, RelayError, relayVars
  <2>2. b # None
    BY InputAssumption
  <2> QED
    BY <1>4, <2>1, <2>2
<1>5. \/ down'[b] = Append(down[b], m) /\ m.kind \in Changes \cup {"file_deleted"}
      \/ down'[b] = down[b] /\ m.kind \notin Changes \cup {"file_deleted"}
  <2>1. CASE RelayContent(m)
    BY <1>1, <1>3, <2>1 DEF RelayContent, Changes
  <2>2. CASE RelayChange(m)
    BY <1>1, <2>2 DEF RelayChange, Broadcast, Changes
  <2>3. CASE RelayDelete(m)
    BY <1>1, <2>3 DEF RelayDelete, Broadcast, Changes
  <2>4. CASE RelayError(m)
    BY <1>1, <2>4 DEF RelayError, Changes
  <2> QED
    BY <1>1, <2>1, <2>2, <2>3, <2>4
<1> QED
  BY <1>4, <1>5 DEF m

LEMMA UnaskedNext ==
  ASSUME Typed, [Next]_vars, NEW b \in Browsers, Unasked(b)
  PROVE  Unasked(b)'
<1>0. /\ up \in [Browsers -> Seq(Asked)] /\ down \in [Browsers -> Seq(Answers)]
      /\ asks \in [Browsers -> 0 .. MaxAsks] /\ IsSequence(up[b]) /\ IsSequence(down[b])
  BY SeqIs DEF Typed, PagesTyped, RelayTyped
<1>1. CASE UNCHANGED <<up, down, asks, pendingFiles>>
  BY <1>1 DEF Unasked
<1>2. ASSUME NEW a \in Browsers \ {b}, BrowserStep(a) PROVE Unasked(b)'
  BY <1>2, OthersKept DEF Unasked
<1>3. ASSUME NEW n \in Names, Click(b, n) PROVE Unasked(b)'
  <2>1. CASE asks' = [asks EXCEPT ![b] = @ + 1]
    BY <1>0, <2>1, BoundAssumption DEF Unasked
  <2>2. CASE UNCHANGED <<asks, up>>
    BY <1>1, <1>3, <2>2 DEF Click, relayVars
  <2> QED
    BY <1>3, <2>1, <2>2 DEF Click
<1>4. CASE \/ \E n \in Names : Close(b, n)
           \/ Type(b) \/ PressSave(b) \/ PressOverwrite(b) \/ PressReload(b)
  <2>1. UNCHANGED <<up, down, asks>>
    BY <1>4 DEF Close, Type, PressSave, PressOverwrite, PressReload, PageOnly
  <2>2. pendingFiles' = pendingFiles
    BY <1>4 DEF Close, Type, PressSave, PressOverwrite, PressReload, PageOnly, relayVars
  <2> QED
    BY <1>1, <2>1, <2>2
<1>5. CASE SendSave(b)
  <2> DEFINE n == page[b].activeFile
             m == Save(ToPathToken(n), page[b].saving, page[b].fileHashes[n])
  <2>1. /\ UNCHANGED <<asks, down, pendingFiles>>
        /\ up' = up \/ up' = [up EXCEPT ![b] = Append(@, m)]
    BY <1>5 DEF SendSave, relayVars
  <2>2. m.kind \notin {"open_file"}
    BY DEF Save
  <2> HIDE DEF m
  <2>3. up'[b] = up[b] \/ up'[b] = Append(up[b], m)
    BY <1>0, <2>1
  <2>4. ASSUME Lacks(up[b], {"open_file"}) PROVE Lacks(up'[b], {"open_file"})
    BY <1>0, <2>2, <2>3, <2>4, LacksAppended
  <2> HIDE DEF n
  <2> QED
    BY <2>1, <2>4 DEF Unasked
<1>6. CASE Receive(b)
  <2>1. /\ UNCHANGED <<asks, up, pendingFiles>> /\ down[b] # <<>> /\ down'[b] = Tail(down[b])
    BY <1>0, <1>6 DEF Receive, relayVars
  <2> QED
    BY <1>0, <2>1, LacksTaken DEF Unasked
<1>7. CASE RelayStep(b)
  <2> SUFFICES ASSUME asks[b] = 0
               PROVE  /\ Lacks(up'[b], {"open_file"}) /\ Lacks(down'[b], {"file_content"})
                      /\ \A p \in Paths : pendingFiles'[p] # b
    BY <1>7 DEF Unasked, RelayStep, RelayOpen, RelaySave, pageVars
  <2>1. /\ Lacks(up[b], {"open_file"}) /\ Lacks(down[b], {"file_content"})
        /\ \A p \in Paths : pendingFiles[p] # b
    BY DEF Unasked
  <2>2. up[b] # <<>> /\ up'[b] = Tail(up[b])
    BY <1>0, <1>7 DEF RelayStep, RelayOpen, RelaySave
  <2>3. Head(up[b]).path \in Paths
    BY <1>0, <2>2, Dequeued DEF Asked, Bare, Saving
  <2>4. Lacks(up'[b], {"open_file"}) /\ Head(up[b]).kind # "open_file"
    BY <1>0, <2>1, <2>2, <2>3, LacksTaken
  <2>5. RelaySave(b)
    BY <1>7, <2>4 DEF RelayStep, RelayOpen
  <2>6. pendingFiles' = pendingFiles
    BY <2>5 DEF RelaySave, relayVars
  <2>7. Lacks(down'[b], {"file_content"})
    <3> DEFINE k == Msg("save_rejected", Head(up[b]).path, cache[Head(up[b]).path])
    <3>1. down' = down \/ down' = [down EXCEPT ![b] = Append(@, k)]
      BY <2>5 DEF RelaySave
    <3>2. k.kind \notin {"file_content"}
      BY DEF Msg
    <3> HIDE DEF k
    <3>3. down'[b] = down[b] \/ down'[b] = Append(down[b], k)
      BY <1>0, <3>1
    <3> QED
      BY <1>0, <2>1, <3>2, <3>3, LacksAppended
  <2> QED
    BY <2>1, <2>4, <2>6, <2>7
<1>8. CASE RelayFromDaemon
  <2>1. UNCHANGED <<asks, up>>
    BY <1>8 DEF RelayFromDaemon, pageVars
  <2> SUFFICES ASSUME asks[b] = 0
               PROVE  /\ Lacks(up[b], {"open_file"}) /\ Lacks(down'[b], {"file_content"})
                      /\ \A p \in Paths : pendingFiles'[p] # b
    BY <2>1 DEF Unasked
  <2>2. /\ Lacks(up[b], {"open_file"}) /\ Lacks(down[b], {"file_content"})
        /\ \A p \in Paths : pendingFiles[p] # b
    BY DEF Unasked
  <2>3. /\ \A p \in Paths : pendingFiles'[p] # b
        /\ \/ /\ down'[b] = Append(down[b], Head(fromDaemon))
              /\ Head(fromDaemon).kind \in Changes \cup {"file_deleted"}
           \/ down'[b] = down[b]
    BY <1>8, <2>2, RelayedTo
  <2>4. Lacks(down'[b], {"file_content"})
    BY <1>0, <2>2, <2>3, LacksAppended DEF Changes
  <2> QED
    BY <2>2, <2>3, <2>4
<1>9. CASE DaemonStep \/ HandleFSEvent \/ \E p \in Paths, kind \in Edits : Edit(p, kind)
  BY <1>1, <1>9 DEF DaemonStep, ReadFile, SendContent, TruncateFile, WriteFile, HandleFSEvent,
                    Edit, relayVars, pageVars
<1>10. CASE UNCHANGED vars
  BY <1>1, <1>10 DEF vars, relayVars, pageVars
<1>11. ASSUME NEW a \in Browsers, BrowserStep(a) PROVE Unasked(b)'
  <2>1. CASE a # b
    BY <1>2, <1>11, <2>1
  <2>2. CASE a = b
    BY <1>3, <1>4, <1>5, <1>6, <1>7, <1>11, <2>2 DEF BrowserStep, UserStep
  <2> QED
    BY <2>1, <2>2
<1> QED
  BY <1>8, <1>9, <1>10, <1>11 DEF Next, BrowserStep, UserStep

(* Who does not type: nothing is saved, and nothing refused.               *)
Reader(b) ==
    b \notin Writers =>
        /\ page[b].saving = None /\ b \notin conflicted
        /\ Lacks(up[b], {"save_file"}) /\ Lacks(down[b], {"save_rejected"})

LEMMA ReaderUser ==
  ASSUME Typed, NEW b \in Browsers \ Writers, KnownTo(page[b]), UserStep(b)
  PROVE  /\ page'[b].pathMap = page[b].pathMap /\ page'[b].saving = page[b].saving
         /\ Mirrors(page[b]) => Mirrors(page'[b])
         /\ \A p \in Paths : page'[b].openFiles[p] \in {None, page[b].openFiles[p]}
         /\ conflicted' = conflicted /\ down' = down
         /\ up'[b] = up[b] \/ \E m : m.kind = "open_file" /\ up'[b] = Append(up[b], m)
<1> DEFINE pg == page[b]
           r == page'[b]
<1>0. pg \in Pages /\ page \in [Browsers -> Pages] /\ up \in [Browsers -> Seq(Asked)]
  BY DEF Typed, PagesTyped, RelayTyped
<1>1. ASSUME NEW n \in Names, Click(b, n)
      PROVE  /\ r.pathMap = pg.pathMap /\ r.saving = pg.saving /\ (Mirrors(pg) => Mirrors(r))
             /\ \A p \in Paths : r.openFiles[p] \in {None, pg.openFiles[p]}
             /\ conflicted' = conflicted /\ down' = down
             /\ up'[b] = up[b] \/ \E m : m.kind = "open_file" /\ up'[b] = Append(up[b], m)
  <2>1. r = OpenFile(pg, n) /\ conflicted' = conflicted /\ down' = down
    BY <1>0, <1>1 DEF Click
  <2>2. up'[b] = up[b] \/ \E m : m.kind = "open_file" /\ up'[b] = Append(up[b], m)
    BY <1>0, <1>1 DEF Click, Msg
  <2> HIDE DEF pg, r
  <2>3. Touches(pg, r, {n}) /\ r.openFiles = pg.openFiles /\ (Mirrors(pg) => Mirrors(r))
    BY <1>0, <2>1, OpenFileTouches
  <2> QED
    BY <2>1, <2>2, <2>3 DEF Touches
<1>2. ASSUME NEW n \in Names, Close(b, n)
      PROVE  /\ r.pathMap = pg.pathMap /\ r.saving = pg.saving /\ (Mirrors(pg) => Mirrors(r))
             /\ \A p \in Paths : r.openFiles[p] \in {None, pg.openFiles[p]}
             /\ conflicted' = conflicted /\ down' = down /\ up' = up
  <2>1. r = CloseTab(pg, n) /\ conflicted' = conflicted /\ down' = down /\ up' = up
        /\ InTabs(pg.tabs, n)
    BY <1>0, <1>2 DEF Close, PageOnly, InTabs
  <2>a. KnownTo(pg)
    OBVIOUS
  <2> HIDE DEF pg, r
  <2>2. Touches(pg, r, {n}) /\ (Mirrors(pg) => Mirrors(r))
    BY <1>0, <2>1, CloseTabTouches
  <2>3. \A p \in Paths : r.openFiles[p] \in {None, pg.openFiles[p]}
    BY <1>0, <2>1, <2>a, ClosedKnown
  <2> QED
    BY <2>1, <2>2, <2>3 DEF Touches
<1>3. ~Type(b) /\ ~PressSave(b) /\ ~PressOverwrite(b) /\ ~PressReload(b)
  BY DEF Type, PressSave, PressOverwrite, PressReload, KnownTo
<1> QED
  BY <1>1, <1>2, <1>3 DEF UserStep

(* What the steps of others do to a browser's queues.                      *)
LEMMA DaemonKeeps ==
  ASSUME \/ DaemonStep \/ HandleFSEvent \/ UNCHANGED vars
         \/ \E p \in Paths, kind \in Edits : Edit(p, kind)
  PROVE  UNCHANGED <<up, down, page, asks, conflicted, pendingFiles>>
<1>1. CASE DaemonStep
  BY <1>1 DEF DaemonStep, ReadFile, SendContent, TruncateFile, WriteFile, relayVars, pageVars
<1>2. CASE HandleFSEvent
  BY <1>2 DEF HandleFSEvent, relayVars, pageVars
<1>3. CASE \E p \in Paths, kind \in Edits : Edit(p, kind)
  BY <1>3 DEF Edit, relayVars, pageVars
<1>4. CASE UNCHANGED vars
  BY <1>4 DEF vars, relayVars, pageVars
<1> QED
  BY <1>1, <1>2, <1>3, <1>4

LEMMA ReaderNext ==
  ASSUME Typed, Known, [Next]_vars, NEW b \in Browsers, Reader(b)
  PROVE  Reader(b)'
<1> SUFFICES ASSUME b \notin Writers
             PROVE  /\ page'[b].saving = None /\ b \notin conflicted'
                    /\ Lacks(up'[b], {"save_file"}) /\ Lacks(down'[b], {"save_rejected"})
  BY DEF Reader
<1>1. /\ page[b].saving = None /\ b \notin conflicted
      /\ Lacks(up[b], {"save_file"}) /\ Lacks(down[b], {"save_rejected"})
  BY DEF Reader
<1>2. /\ up \in [Browsers -> Seq(Asked)] /\ down \in [Browsers -> Seq(Answers)]
      /\ page \in [Browsers -> Pages] /\ IsSequence(up[b]) /\ IsSequence(down[b])
  BY SeqIs DEF Typed, PagesTyped, RelayTyped
<1>3. KnownTo(page[b])
  BY <1>1 DEF Known
<1>4. ASSUME NEW a \in Browsers \ {b}, BrowserStep(a)
      PROVE  /\ page'[b].saving = None /\ b \notin conflicted'
             /\ Lacks(up'[b], {"save_file"}) /\ Lacks(down'[b], {"save_rejected"})
  BY <1>1, <1>4, OthersKept
<1>5. CASE UserStep(b)
  <2>1. /\ page'[b].saving = page[b].saving /\ conflicted' = conflicted /\ down' = down
        /\ up'[b] = up[b] \/ \E m : m.kind = "open_file" /\ up'[b] = Append(up[b], m)
    BY <1>3, <1>5, ReaderUser
  <2>2. Lacks(up'[b], {"save_file"})
    <3>1. ASSUME NEW m, m.kind = "open_file", up'[b] = Append(up[b], m)
          PROVE  Lacks(up'[b], {"save_file"})
      <4>1. m.kind \notin {"save_file"}
        BY <3>1
      <4> QED
        BY <1>1, <1>2, <3>1, <4>1, LacksAppended
    <3> QED
      BY <1>1, <2>1, <3>1
  <2> QED
    BY <1>1, <2>1, <2>2
<1>6. ~SendSave(b)
  BY <1>1 DEF SendSave
<1>7. CASE Receive(b)
  <2> DEFINE m == Head(down[b])
  <2>1. /\ down[b] # <<>> /\ down'[b] = Tail(down[b]) /\ up' = up
        /\ page'[b] = Applied(page[b], m)
        /\ conflicted' = IF m.kind = "save_rejected" THEN conflicted \cup {b} ELSE conflicted
    BY <1>2, <1>7 DEF Receive
  <2>2. m \in Answers
    BY <1>2, <2>1, Dequeued
  <2>3. m.path \in Paths
    BY <2>2 DEF Answers, Bare, Carrying
  <2>4. Lacks(down'[b], {"save_rejected"}) /\ m.kind # "save_rejected"
    BY <1>1, <1>2, <2>1, <2>3, LacksTaken
  <2>5. page'[b].saving = page[b].saving
    <3> DEFINE pg == page[b]
               r == page'[b]
    <3>1. pg \in Pages /\ r = Applied(pg, m)
      BY <1>2, <2>1
    <3> HIDE DEF pg, r, m
    <3>2. r.saving = pg.saving
      BY <2>2, <3>1, AppliedTyped
    <3> QED
      BY <3>2 DEF pg, r
  <2> QED
    BY <1>1, <2>1, <2>4, <2>5
<1>8. CASE RelayStep(b)
  <2>1. /\ up[b] # <<>> /\ up'[b] = Tail(up[b]) /\ UNCHANGED <<page, conflicted>>
    BY <1>2, <1>8 DEF RelayStep, RelayOpen, RelaySave, pageVars
  <2>2. Head(up[b]).path \in Paths
    BY <1>2, <2>1, Dequeued DEF Asked, Bare, Saving
  <2>3. Lacks(up'[b], {"save_file"}) /\ Head(up[b]).kind # "save_file"
    BY <1>1, <1>2, <2>1, <2>2, LacksTaken
  <2>4. down' = down
    BY <1>8, <2>3 DEF RelayStep, RelayOpen, RelaySave
  <2> QED
    BY <1>1, <2>1, <2>3, <2>4
<1>9. CASE RelayFromDaemon
  <2>1. /\ UNCHANGED <<up, page, conflicted>>
        /\ \/ /\ down'[b] = Append(down[b], Head(fromDaemon))
              /\ Head(fromDaemon).kind \in Changes \cup {"file_content", "file_deleted"}
           \/ down'[b] = down[b]
    BY <1>9, Relayed
  <2>2. Lacks(down'[b], {"save_rejected"})
    <3> DEFINE m == Head(fromDaemon)
    <3>1. CASE down'[b] = Append(down[b], m) /\ m.kind \notin {"save_rejected"}
      <4> HIDE DEF m
      <4> QED
        BY <1>1, <1>2, <3>1, LacksAppended
    <3> QED
      BY <1>1, <2>1, <3>1 DEF Changes
  <2> QED
    BY <1>1, <2>1, <2>2
<1>10. CASE \/ DaemonStep \/ HandleFSEvent \/ UNCHANGED vars
            \/ \E p \in Paths, kind \in Edits : Edit(p, kind)
  BY <1>1, <1>10, DaemonKeeps
<1>11. ASSUME NEW a \in Browsers, BrowserStep(a)
       PROVE  /\ page'[b].saving = None /\ b \notin conflicted'
              /\ Lacks(up'[b], {"save_file"}) /\ Lacks(down'[b], {"save_rejected"})
  <2>1. CASE a # b
    BY <1>4, <1>11, <2>1
  <2>2. CASE a = b
    BY <1>5, <1>6, <1>7, <1>8, <1>11, <2>2 DEF BrowserStep
  <2> QED
    BY <2>1, <2>2
<1> QED
  BY <1>9, <1>10, <1>11 DEF Next, BrowserStep, UserStep

(* The file has left a page whose map is pm once what is in its connection *)
(* (d), in the daemon's (f), and in the watcher's channel (e) has arrived. *)
LeftDown(pm, d, p) == Gone(d, p) \/ (p \notin pm /\ NoneNew(d, p))
LeftRelay(pm, d, f, p) == Gone(f, p) \/ (LeftDown(pm, d, p) /\ NoneNew(f, p))
LeftDisk(pm, d, f, e, p) == Gone(e, p) \/ (LeftRelay(pm, d, f, p) /\ NoneNew(e, p))

(* Each report that p is created finds it gone.                            *)
OnceIn(pm, d, f, e, c, p) ==
    /\ Lax(d, p) /\ (p \notin pm \/ Strict(d, p))
    /\ Lax(f, p) /\ (LeftDown(pm, d, p) \/ Strict(f, p))
    /\ Lax(e, p) /\ (LeftRelay(pm, d, f, p) \/ Strict(e, p))
    /\ c = None => LeftDisk(pm, d, f, e, p)

CreatedOnce(b, p) == OnceIn(page[b].pathMap, down[b], fromDaemon, events, disk[p], p)

LEMMA MakesOrRemoves == ASSUME NEW m, NEW p PROVE ~(Makes(m, p) /\ Removes(m, p))
BY DEF Makes, Removes

LEMMA OnceReceived ==
  ASSUME NEW pm, NEW d, IsSequence(d), d # <<>>, NEW f, NEW e, NEW c, NEW p,
         OnceIn(pm, d, f, e, c, p), NEW m, m = Head(d), NEW t, t = Tail(d), NEW qm,
         Removes(m, p) => p \notin qm, ~Makes(m, p) /\ p \notin pm => p \notin qm
  PROVE  OnceIn(qm, t, f, e, c, p) /\ (Makes(m, p) => p \notin pm)
<1>1. /\ NoneNew(d, p) <=> NoneNew(t, p) /\ ~Makes(m, p)
      /\ Gone(d, p) => Gone(t, p) \/ (Removes(m, p) /\ NoneNew(t, p))
      /\ Lax(d, p) => Lax(t, p)
      /\ Makes(m, p) /\ Lax(d, p) => Strict(t, p)
      /\ Strict(d, p) => ~Makes(m, p) /\ (~Removes(m, p) => Strict(t, p))
  BY TakeOrder
<1> QED
  BY <1>1 DEF OnceIn, LeftDown, LeftRelay, LeftDisk

LEMMA OnceRelayed ==
  ASSUME NEW pm, NEW d, IsSequence(d), NEW f, IsSequence(f), f # <<>>, NEW e, NEW c, NEW p,
         OnceIn(pm, d, f, e, c, p), NEW m, m = Head(f), NEW t, t = Tail(f), NEW u,
         u = Append(d, m) \/ (u = d /\ ~Makes(m, p) /\ ~Removes(m, p))
  PROVE  OnceIn(pm, u, t, e, c, p)
<1>1. /\ NoneNew(f, p) <=> NoneNew(t, p) /\ ~Makes(m, p)
      /\ Gone(f, p) => Gone(t, p) \/ (Removes(m, p) /\ NoneNew(t, p))
      /\ Lax(f, p) => Lax(t, p)
      /\ Makes(m, p) /\ Lax(f, p) => Strict(t, p)
      /\ Strict(f, p) => ~Makes(m, p) /\ (~Removes(m, p) => Strict(t, p))
  BY TakeOrder
<1>2. CASE u = Append(d, m)
  <2>1. /\ NoneNew(u, p) <=> NoneNew(d, p) /\ ~Makes(m, p)
        /\ Removes(m, p) => Gone(u, p)
        /\ Gone(d, p) /\ ~Makes(m, p) => Gone(u, p)
        /\ Strict(d, p) /\ (Makes(m, p) => Gone(d, p)) => Strict(u, p)
        /\ Lax(d, p) /\ (Makes(m, p) => Gone(d, p) \/ NoneNew(d, p)) => Lax(u, p)
    BY <1>2, AppendOrder
  <2> QED
    BY <1>1, <2>1, MakesOrRemoves DEF OnceIn, LeftDown, LeftRelay, LeftDisk
<1>3. CASE u = d /\ ~Makes(m, p) /\ ~Removes(m, p)
  BY <1>1, <1>3 DEF OnceIn, LeftDown, LeftRelay, LeftDisk
<1> QED
  BY <1>2, <1>3

LEMMA OnceReported ==
  ASSUME NEW pm, NEW d, NEW f, IsSequence(f), NEW e, IsSequence(e), e # <<>>, NEW c, NEW p,
         OnceIn(pm, d, f, e, c, p), NEW m, m = Head(e), NEW t, t = Tail(e), NEW u, NEW k,
         \/ u = Append(f, k) /\ (Makes(k, p) <=> Makes(m, p)) /\ (Removes(k, p) <=> Removes(m, p))
         \/ u = f /\ ~Removes(m, p) /\ (Makes(m, p) => c = None)
  PROVE  OnceIn(pm, d, u, t, c, p)
<1>1. /\ NoneNew(e, p) <=> NoneNew(t, p) /\ ~Makes(m, p)
      /\ Gone(e, p) => Gone(t, p) \/ (Removes(m, p) /\ NoneNew(t, p))
      /\ Lax(e, p) => Lax(t, p)
      /\ Makes(m, p) /\ Lax(e, p) => Strict(t, p)
      /\ Strict(e, p) => ~Makes(m, p) /\ (~Removes(m, p) => Strict(t, p))
  BY TakeOrder
<1>2. CASE /\ u = Append(f, k) /\ (Makes(k, p) <=> Makes(m, p))
           /\ (Removes(k, p) <=> Removes(m, p))
  <2>1. /\ NoneNew(u, p) <=> NoneNew(f, p) /\ ~Makes(k, p)
        /\ Removes(k, p) => Gone(u, p)
        /\ Gone(f, p) /\ ~Makes(k, p) => Gone(u, p)
        /\ Strict(f, p) /\ (Makes(k, p) => Gone(f, p)) => Strict(u, p)
        /\ Lax(f, p) /\ (Makes(k, p) => Gone(f, p) \/ NoneNew(f, p)) => Lax(u, p)
    BY <1>2, AppendOrder
  <2> QED
    BY <1>1, <1>2, <2>1, MakesOrRemoves DEF OnceIn, LeftDown, LeftRelay, LeftDisk
<1>3. CASE u = f /\ ~Removes(m, p) /\ (Makes(m, p) => c = None)
  BY <1>1, <1>3 DEF OnceIn, LeftDown, LeftRelay, LeftDisk
<1> QED
  BY <1>2, <1>3

LEMMA OnceWritten ==
  ASSUME NEW pm, NEW d, NEW f, NEW e, IsSequence(e), NEW c, NEW p,
         OnceIn(pm, d, f, e, c, p), NEW m, NEW u, u = Append(e, m), NEW x,
         Makes(m, p) => c = None, x = None => Removes(m, p) \/ (c = None /\ ~Makes(m, p))
  PROVE  OnceIn(pm, d, f, u, x, p)
<1>1. /\ NoneNew(u, p) <=> NoneNew(e, p) /\ ~Makes(m, p)
      /\ Removes(m, p) => Gone(u, p)
      /\ Gone(e, p) /\ ~Makes(m, p) => Gone(u, p)
      /\ Strict(e, p) /\ (Makes(m, p) => Gone(e, p)) => Strict(u, p)
      /\ Lax(e, p) /\ (Makes(m, p) => Gone(e, p) \/ NoneNew(e, p)) => Lax(u, p)
  BY AppendOrder
<1> QED
  BY <1>1, MakesOrRemoves DEF OnceIn, LeftDown, LeftRelay, LeftDisk

LEMMA OnceSent ==
  ASSUME NEW pm, NEW d, IsSequence(d), NEW f, IsSequence(f), NEW e, NEW c, NEW p,
         OnceIn(pm, d, f, e, c, p), NEW m, ~Makes(m, p), ~Removes(m, p)
  PROVE  OnceIn(pm, Append(d, m), f, e, c, p) /\ OnceIn(pm, d, Append(f, m), e, c, p)
<1> DEFINE u == Append(d, m)
           v == Append(f, m)
<1>1. /\ NoneNew(u, p) <=> NoneNew(d, p)
      /\ Gone(d, p) => Gone(u, p)
      /\ Strict(d, p) => Strict(u, p)
      /\ Lax(d, p) => Lax(u, p)
  BY AppendOrder
<1>2. /\ NoneNew(v, p) <=> NoneNew(f, p)
      /\ Gone(f, p) => Gone(v, p)
      /\ Strict(f, p) => Strict(v, p)
      /\ Lax(f, p) => Lax(v, p)
  BY AppendOrder
<1> HIDE DEF u, v
<1>3. OnceIn(pm, u, f, e, c, p) /\ OnceIn(pm, d, v, e, c, p)
  BY <1>1, <1>2 DEF OnceIn, LeftDown, LeftRelay, LeftDisk
<1> QED
  BY <1>3 DEF u, v

LEMMA AppliedMap ==
  ASSUME NEW pg \in Pages, NEW m \in Answers, NEW r, r = Applied(pg, m), NEW p \in Paths
  PROVE  /\ Removes(m, p) => p \notin r.pathMap
         /\ ~Makes(m, p) /\ p \notin pg.pathMap => p \notin r.pathMap
<1> DEFINE n == FromPathToken(pg, m.path)
<1>1. m.kind \in {"file_content", "file_changed", "file_created", "file_deleted", "save_rejected"}
  BY DEF Answers, Bare, Carrying, Changes
<1>2. CASE m.kind \in {"file_content", "file_changed"}
  <2>1. Touches(pg, r, {n})
    BY <1>2, AppliedText
  <2> QED
    BY <1>2, <2>1 DEF Touches, Removes
<1>3. CASE m.kind = "file_created"
  <2>1. r.pathMap = pg.pathMap \cup {m.path}
    BY <1>3, AppliedCreated DEF Learns
  <2> QED
    BY <1>3, <2>1 DEF Removes, Makes
<1>4. CASE m.kind = "file_deleted"
  <2>1. Learns(pg, r, pg.pathMap \ {m.path}, {n})
    BY <1>4, AppliedDeleted
  <2>2. r.pathMap = pg.pathMap \ {m.path}
    BY <2>1 DEF Learns
  <2> QED
    BY <1>4, <2>2 DEF Removes, Makes
<1>5. CASE m.kind = "save_rejected"
  <2>1. r.pathMap = pg.pathMap
    BY <1>5, AppliedRejected
  <2> QED
    BY <1>5, <2>1 DEF Removes
<1> QED
  BY <1>1, <1>2, <1>3, <1>4, <1>5

LEMMA CreatedReceive ==
  ASSUME Typed, NEW b \in Browsers, Receive(b), NEW p \in Paths, CreatedOnce(b, p)
  PROVE  /\ CreatedOnce(b, p)'
         /\ Makes(Head(down[b]), p) => p \notin page[b].pathMap
<1> DEFINE m == Head(down[b])
           d == down[b]
           pg == page[b]
           r == page'[b]
<1>1. /\ d # <<>> /\ down'[b] = Tail(d) /\ d \in Seq(Answers) /\ pg \in Pages
      /\ r = Applied(pg, m) /\ UNCHANGED <<fromDaemon, events, disk>>
  BY DEF Receive, Typed, RelayTyped, PagesTyped, daemonVars
<1>2. m \in Answers /\ IsSequence(d)
  BY <1>1, Dequeued, SeqIs
<1>3. OnceIn(pg.pathMap, d, fromDaemon, events, disk[p], p) /\ m = Head(d)
  BY DEF CreatedOnce
<1> HIDE DEF m, d, pg, r
<1>4. /\ Removes(m, p) => p \notin r.pathMap
      /\ ~Makes(m, p) /\ p \notin pg.pathMap => p \notin r.pathMap
  BY <1>1, <1>2, AppliedMap
<1> DEFINE t == Tail(d)
           qm == r.pathMap
           pm == pg.pathMap
<1>5. t = Tail(d) /\ OnceIn(pm, d, fromDaemon, events, disk[p], p)
      /\ (Removes(m, p) => p \notin qm) /\ (~Makes(m, p) /\ p \notin pm => p \notin qm)
  BY <1>3, <1>4
<1> HIDE DEF t, qm, pm
<1>6. OnceIn(qm, t, fromDaemon, events, disk[p], p) /\ (Makes(m, p) => p \notin pm)
  BY <1>1, <1>2, <1>3, <1>5, OnceReceived
<1> QED
  BY <1>1, <1>6 DEF CreatedOnce, t, qm, pm, m, d, pg, r

LEMMA CreatedSame ==
  ASSUME NEW b, NEW p, CreatedOnce(b, p), page'[b].pathMap = page[b].pathMap,
         down'[b] = down[b], UNCHANGED <<fromDaemon, events, disk>>
  PROVE  CreatedOnce(b, p)'
BY DEF CreatedOnce

LEMMA CreatedRelayStep ==
  ASSUME Typed, NEW b \in Browsers, RelayStep(b), NEW p \in Paths, CreatedOnce(b, p)
  PROVE  CreatedOnce(b, p)'
<1> DEFINE k == Msg("save_rejected", Head(up[b]).path, cache[Head(up[b]).path])
           d == down[b]
           pm == page[b].pathMap
<1>1. /\ UNCHANGED <<fromDaemon, events, disk, page>>
      /\ down'[b] = d \/ down'[b] = Append(d, k)
  BY DEF RelayStep, RelayOpen, RelaySave, daemonVars, pageVars, Typed, RelayTyped
<1>2. IsSequence(d) /\ IsSequence(fromDaemon)
  BY SeqIs DEF Typed, RelayTyped
<1>3. ~Makes(k, p) /\ ~Removes(k, p)
  BY DEF Makes, Removes, Msg
<1>4. OnceIn(pm, d, fromDaemon, events, disk[p], p)
  BY DEF CreatedOnce
<1> HIDE DEF k, d, pm
<1>5. OnceIn(pm, Append(d, k), fromDaemon, events, disk[p], p)
  BY <1>2, <1>3, <1>4, OnceSent
<1> QED
  BY <1>1, <1>4, <1>5 DEF CreatedOnce, d, pm

LEMMA CreatedRelay ==
  ASSUME Typed, NEW b \in Browsers, RelayFromDaemon, NEW p \in Paths, CreatedOnce(b, p)
  PROVE  CreatedOnce(b, p)'
<1> DEFINE m == Head(fromDaemon)
           d == down[b]
           f == fromDaemon
           pm == page[b].pathMap
           t == Tail(f)
           u == down'[b]
<1>1. /\ f # <<>> /\ fromDaemon' = t /\ UNCHANGED <<events, disk, page>>
      /\ u = Append(d, m) \/ (u = d /\ m.kind \notin Changes \cup {"file_deleted"})
  BY Relayed
<1>2. IsSequence(d) /\ IsSequence(f)
  BY SeqIs DEF Typed, RelayTyped
<1>3. OnceIn(pm, d, f, events, disk[p], p) /\ m = Head(f) /\ t = Tail(f)
  BY DEF CreatedOnce
<1> HIDE DEF m, d, f, pm, t, u
<1>4. u = Append(d, m) \/ (u = d /\ ~Makes(m, p) /\ ~Removes(m, p))
  BY <1>1 DEF Makes, Removes, Changes
<1>5. OnceIn(pm, u, t, events, disk[p], p)
  BY <1>1, <1>2, <1>3, <1>4, OnceRelayed
<1> QED
  BY <1>1, <1>5 DEF CreatedOnce, u, pm

LEMMA CreatedDaemon ==
  ASSUME Typed, NEW b \in Browsers, ReadFile \/ SendContent, NEW p \in Paths, CreatedOnce(b, p)
  PROVE  CreatedOnce(b, p)'
<1>1. UNCHANGED <<events, disk, page, down>> /\ IsSequence(down[b]) /\ IsSequence(fromDaemon)
  BY SeqIs DEF ReadFile, SendContent, pageVars, Typed, RelayTyped
<1>2. \/ fromDaemon' = fromDaemon
      \/ \E k : fromDaemon' = Append(fromDaemon, k) /\ k.kind \in {"error", "file_content"}
  BY DEF ReadFile, SendContent, Msg
<1>3. ASSUME NEW k, fromDaemon' = Append(fromDaemon, k), k.kind \in {"error", "file_content"}
      PROVE  CreatedOnce(b, p)'
  <2>1. ~Makes(k, p) /\ ~Removes(k, p)
    BY <1>3 DEF Makes, Removes
  <2> DEFINE pm == page[b].pathMap
             d == down[b]
             c == disk[p]
  <2>2. OnceIn(pm, d, fromDaemon, events, c, p) /\ IsSequence(d)
    BY <1>1 DEF CreatedOnce
  <2> HIDE DEF pm, d, c
  <2>3. OnceIn(pm, d, Append(fromDaemon, k), events, c, p)
    BY <1>1, <2>1, <2>2, OnceSent
  <2> QED
    BY <1>1, <1>3, <2>3 DEF CreatedOnce, pm, d, c
<1> QED
  BY <1>1, <1>2, <1>3, CreatedSame

LEMMA CreatedWrites ==
  ASSUME Typed, NEW b \in Browsers, NEW p \in Paths, CreatedOnce(b, p),
         TruncateFile \/ WriteFile \/ \E q \in Paths, kind \in Edits : Edit(q, kind),
         "replace" \notin Edits
  PROVE  CreatedOnce(b, p)'
<1>1. UNCHANGED <<fromDaemon, page, down>> /\ IsSequence(events)
      /\ disk \in [Paths -> Contents \cup {None}]
  BY Written, SeqIs DEF Typed, DiskTyped
<1>2. ASSUME NEW k, events' = Append(events, k), Makes(k, p) => disk[p] = None,
             disk'[p] = None => Removes(k, p) \/ (disk[p] = None /\ ~Makes(k, p))
      PROVE  CreatedOnce(b, p)'
  <2> DEFINE pm == page[b].pathMap
             d == down[b]
             c == disk[p]
             x == disk'[p]
             u == events'
  <2>1. /\ OnceIn(pm, d, fromDaemon, events, c, p) /\ u = Append(events, k)
        /\ Makes(k, p) => c = None
        /\ x = None => Removes(k, p) \/ (c = None /\ ~Makes(k, p))
    BY <1>2 DEF CreatedOnce
  <2> HIDE DEF pm, d, c, x, u
  <2>2. OnceIn(pm, d, fromDaemon, u, x, p)
    BY <1>1, <2>1, OnceWritten
  <2> QED
    BY <1>1, <2>2 DEF CreatedOnce, pm, d, x, u
<1>3. CASE TruncateFile
  <2> DEFINE q == Head(toDaemon).path
             k == Msg(IF disk[q] = None THEN "file_created" ELSE "file_changed", q, None)
  <2>1. events' = Append(events, k) /\ disk' = [disk EXCEPT ![q] = Blank]
    BY <1>3 DEF TruncateFile
  <2>2. Makes(k, p) => disk[p] = None
    BY DEF Makes, Msg
  <2>3. disk'[p] = None => disk[p] = None /\ q # p
    <3>1. Blank # None
      BY ContentsAssumption DEF Contents
    <3> QED
      BY <1>1, <2>1, <3>1
  <2>4. q # p => ~Makes(k, p)
    BY DEF Makes, Msg
  <2> HIDE DEF q, k
  <2> QED
    BY <1>2, <2>1, <2>2, <2>3, <2>4
<1>4. CASE WriteFile
  <2> DEFINE k == Msg("file_changed", job.path, None)
  <2>1. events' = Append(events, k) /\ disk' = [disk EXCEPT ![job.path] = job.content]
        /\ job.kind = "write_file"
    BY <1>4 DEF WriteFile
  <2>2. job.content # None
    BY <2>1, ContentsAssumption DEF Typed, DiskTyped, Jobs, Idle, Carrying
  <2>3. ~Makes(k, p) /\ (disk'[p] = None => disk[p] = None)
    BY <1>1, <2>1, <2>2 DEF Makes, Msg
  <2> HIDE DEF k
  <2> QED
    BY <1>2, <2>1, <2>3
<1>5. ASSUME NEW q \in Paths, NEW kind \in Edits, Edit(q, kind)
      PROVE  CreatedOnce(b, p)'
  <2> DEFINE k == Msg(CASE kind = "write" -> "file_changed"
                        [] kind = "replace" -> "file_created"
                        [] kind = "delete" -> "file_deleted", q, None)
             c == IF kind = "delete" THEN None ELSE <<q, texts'>>
  <2>1. events' = Append(events, k) /\ disk' = [disk EXCEPT ![q] = c] /\ texts' \in 0 .. MaxTexts
    BY <1>5, BoundAssumption DEF Edit, Typed, DiskTyped
  <2>2. kind \in {"write", "delete"}
    BY InputAssumption
  <2>3. ~Makes(k, p)
    BY <2>2 DEF Makes, Msg
  <2>4. disk'[p] = None => Removes(k, p) \/ disk[p] = None
    <3>1. CASE q = p /\ kind = "delete"
      BY <3>1 DEF Removes, Msg
    <3>2. CASE q = p /\ kind = "write"
      <4>1. c \in Contents
        BY <2>1, <3>2 DEF Contents
      <4> QED
        BY <1>1, <2>1, <3>2, <4>1, ContentsAssumption
    <3>3. CASE q # p
      BY <1>1, <2>1, <3>3
    <3> QED
      BY <2>2, <3>1, <3>2, <3>3
  <2> HIDE DEF k, c
  <2> QED
    BY <1>2, <2>1, <2>3, <2>4
<1> QED
  BY <1>3, <1>4, <1>5

LEMMA CreatedEvent ==
  ASSUME Typed, NEW b \in Browsers, NEW p \in Paths, CreatedOnce(b, p), HandleFSEvent
  PROVE  CreatedOnce(b, p)'
<1> DEFINE m == Head(events)
           k == Msg(m.kind, m.path, IF m.kind = "file_deleted" THEN None ELSE disk[m.path])
           pm == page[b].pathMap
           d == down[b]
           c == disk[p]
           f == fromDaemon
           e == events
           t == Tail(e)
           u == fromDaemon'
<1>1. /\ UNCHANGED <<disk, page, down>> /\ events' = t /\ e # <<>>
      /\ IF m.kind # "file_deleted" /\ disk[m.path] = None THEN u = f ELSE u = Append(f, k)
  BY DEF HandleFSEvent, pageVars
<1>2. IsSequence(f) /\ IsSequence(e)
  BY SeqIs DEF Typed, RelayTyped, DiskTyped
<1>3. (Makes(k, p) <=> Makes(m, p)) /\ (Removes(k, p) <=> Removes(m, p))
  BY DEF Makes, Removes, Msg
<1>4. OnceIn(pm, d, f, e, c, p) /\ m = Head(e) /\ t = Tail(e)
  BY DEF CreatedOnce
<1>5. u = Append(f, k) \/ (u = f /\ ~Removes(m, p) /\ (Makes(m, p) => c = None))
  BY <1>1 DEF Makes, Removes
<1> HIDE DEF m, k, pm, d, c, f, e, t, u
<1>6. \/ u = Append(f, k) /\ (Makes(k, p) <=> Makes(m, p)) /\ (Removes(k, p) <=> Removes(m, p))
      \/ u = f /\ ~Removes(m, p) /\ (Makes(m, p) => c = None)
  BY <1>1, <1>3, <1>5
<1>7. OnceIn(pm, d, u, t, c, p)
  BY <1>1, <1>2, <1>4, <1>6, OnceReported
<1> QED
  BY <1>1, <1>7 DEF CreatedOnce, pm, d, c, u

LEMMA CreatedNext ==
  ASSUME Typed, Known, [Next]_vars, NEW b \in Browsers \ Writers, Reader(b),
         NEW p \in Paths, CreatedOnce(b, p), "replace" \notin Edits
  PROVE  CreatedOnce(b, p)'
<1>1. ASSUME NEW a \in Browsers \ {b}, BrowserStep(a) PROVE CreatedOnce(b, p)'
  <2>1. page'[b] = page[b] /\ down'[b] = down[b]
    BY <1>1, OthersKept
  <2>2. UNCHANGED <<disk, events, fromDaemon>>
    BY <1>1, BrowserNext DEF BrowserStep, UserStep
  <2> QED
    BY <2>1, <2>2, CreatedSame
<1>2. CASE UserStep(b)
  <2>1. KnownTo(page[b])
    BY DEF Reader, Known
  <2>2. page'[b].pathMap = page[b].pathMap /\ down' = down
    BY <1>2, <2>1, ReaderUser
  <2>3. UNCHANGED <<disk, events, fromDaemon>>
    BY <1>2, BrowserNext DEF UserStep
  <2> QED
    BY <2>2, <2>3, CreatedSame
<1>3. ~SendSave(b)
  BY DEF Reader, SendSave
<1>4. CASE Receive(b)
  BY <1>4, CreatedReceive
<1>5. CASE RelayStep(b)
  BY <1>5, CreatedRelayStep
<1>6. CASE RelayFromDaemon
  BY <1>6, CreatedRelay
<1>7. CASE DaemonStep
  BY <1>7, CreatedDaemon, CreatedWrites DEF DaemonStep
<1>8. CASE HandleFSEvent
  BY <1>8, CreatedEvent
<1>9. CASE \E q \in Paths, kind \in Edits : Edit(q, kind)
  BY <1>9, CreatedWrites
<1>10. CASE UNCHANGED vars
  BY <1>10, CreatedSame DEF vars, daemonVars, pageVars
<1>11. ASSUME NEW a \in Browsers, BrowserStep(a) PROVE CreatedOnce(b, p)'
  <2>1. CASE a # b
    BY <1>1, <1>11, <2>1
  <2>2. CASE a = b
    BY <1>2, <1>3, <1>4, <1>5, <1>11, <2>2 DEF BrowserStep
  <2> QED
    BY <2>1, <2>2
<1> QED
  BY <1>6, <1>7, <1>8, <1>9, <1>10, <1>11 DEF Next, BrowserStep, UserStep

-----------------------------------------------------------------------------
(* The copy of a page that only follows.                                   *)

LEMMA ToldSame ==
  ASSUME NEW b, NEW p, UNCHANGED <<disk, events, fromDaemon>>, down'[b] = down[b]
  PROVE  AllTold(b, p)' => AllTold(b, p) /\ disk'[p] = disk[p]
BY DEF AllTold

LEMMA ToldBefore ==
  ASSUME Typed, RelayInv, NEW b \in Browsers, NEW p \in Paths,
         \/ RelayStep(b) \/ RelayFromDaemon \/ DaemonStep \/ HandleFSEvent
         \/ \E q \in Paths, kind \in Edits : Edit(q, kind)
  PROVE  AllTold(b, p)' => AllTold(b, p) /\ disk'[p] = disk[p]
<1>0. IsSequence(down[b]) /\ IsSequence(fromDaemon)
  BY SeqIs DEF Typed, RelayTyped
<1>1. CASE RelayStep(b)
  <2> DEFINE k == Msg("save_rejected", Head(up[b]).path, cache[Head(up[b]).path])
  <2>1. /\ UNCHANGED <<fromDaemon, events, disk>>
        /\ down'[b] = down[b] \/ down'[b] = Append(down[b], k)
    BY <1>1 DEF RelayStep, RelayOpen, RelaySave, daemonVars, Typed, RelayTyped
  <2>2. ~News(k, p, Changes)
    BY DEF News, Changes, Msg
  <2> HIDE DEF k
  <2>3. Has(down[b], p, Changes) => Has(down'[b], p, Changes)
    BY <1>0, <2>1, HasAppended
  <2> QED
    BY <2>1, <2>3 DEF AllTold
<1>2. CASE RelayFromDaemon
  <2> DEFINE m == Head(fromDaemon)
  <2>1. /\ fromDaemon # <<>> /\ fromDaemon' = Tail(fromDaemon) /\ UNCHANGED <<disk, events>>
        /\ \/ down'[b] = Append(down[b], m)
           \/ down'[b] = down[b] /\ m.kind \notin Changes
    BY <1>2, Relayed
  <2>2. Has(fromDaemon, p, Changes) => Has(fromDaemon', p, Changes) \/ News(m, p, Changes)
    BY <1>0, <2>1, HasTaken
  <2> HIDE DEF m
  <2>3. Has(down[b], p, Changes) \/ News(m, p, Changes) => Has(down'[b], p, Changes)
    <3>1. CASE down'[b] = Append(down[b], m)
      BY <1>0, <3>1, HasAppended
    <3>2. CASE down'[b] = down[b] /\ m.kind \notin Changes
      BY <3>2 DEF News
    <3> QED
      BY <2>1, <3>1, <3>2
  <2> QED
    BY <2>1, <2>2, <2>3 DEF AllTold
<1>3. CASE ReadFile \/ SendContent
  <2>1. UNCHANGED <<events, disk, down>>
    BY <1>3 DEF ReadFile, SendContent
  <2>2. fromDaemon' = fromDaemon \/ \E k : fromDaemon' = Append(fromDaemon, k)
    BY <1>3 DEF ReadFile, SendContent
  <2>3. Has(fromDaemon, p, Changes) => Has(fromDaemon', p, Changes)
    BY <1>0, <2>2, HasAppended
  <2> QED
    BY <2>1, <2>3 DEF AllTold
<1>4. CASE TruncateFile \/ WriteFile \/ \E q \in Paths, kind \in Edits : Edit(q, kind)
  BY <1>4, Written DEF AllTold
<1>5. CASE HandleFSEvent
  <2>1. UNCHANGED <<disk, down>>
    BY <1>5 DEF HandleFSEvent
  <2>2. \A m : Has(Append(fromDaemon, m), p, Changes) <=>
                   Has(fromDaemon, p, Changes) \/ News(m, p, Changes)
    BY <1>0, HasAppended
  <2> SUFFICES ASSUME Free(events', p), disk[p] # None, ~Has(fromDaemon', p, Changes)
               PROVE  Free(events, p) /\ ~Has(fromDaemon, p, Changes)
    BY <2>1 DEF AllTold
  <2> QED
    BY <1>5, <2>2, WatcherTells
<1> QED
  BY <1>1, <1>2, <1>3, <1>4, <1>5 DEF DaemonStep

(* What a page that only follows has of p, and shows.                      *)
Follows(b) == b \notin Writers /\ asks[b] = 0
FollowOf(b, p) ==
    Follows(b) /\ AllTold(b, p) => page[b].openFiles[p] \in {None, disk[p]}
MirrorOf(b) == Follows(b) => Mirrors(page[b])

LEMMA FollowSame ==
  ASSUME NEW b, NEW p, FollowOf(b, p), MirrorOf(b),
         AllTold(b, p)' => AllTold(b, p) /\ disk'[p] = disk[p],
         Follows(b)' => Follows(b) /\ page'[b] = page[b]
  PROVE  FollowOf(b, p)' /\ MirrorOf(b)'
BY DEF FollowOf, MirrorOf, Mirrors

LEMMA FollowUser ==
  ASSUME Typed, Known, NEW b \in Browsers \ Writers, Reader(b), NEW p \in Paths,
         FollowOf(b, p), MirrorOf(b), UserStep(b)
  PROVE  FollowOf(b, p)' /\ MirrorOf(b)'
<1>1. KnownTo(page[b])
  BY DEF Reader, Known
<1>2. /\ Mirrors(page[b]) => Mirrors(page'[b])
      /\ page'[b].openFiles[p] \in {None, page[b].openFiles[p]} /\ down' = down
  BY <1>1, ReaderUser
<1>3. UNCHANGED <<disk, events, fromDaemon>>
  BY BrowserNext DEF UserStep
<1>4. AllTold(b, p)' => AllTold(b, p)
  BY <1>2, <1>3, ToldSame
<1>5. Follows(b)' => Follows(b)
  <2>1. asks \in [Browsers -> Nat]
    BY BoundAssumption DEF Typed, PagesTyped
  <2>2. asks'[b] = asks[b] \/ asks'[b] = asks[b] + 1
    BY <2>1 DEF UserStep, Click, Close, Type, PressSave, PressOverwrite, PressReload, PageOnly
  <2> QED
    BY <2>1, <2>2 DEF Follows
<1>6. Mirrors(page[b])' <=> Mirrors(page'[b])
  BY DEF Mirrors
<1> QED
  BY <1>2, <1>3, <1>4, <1>5, <1>6 DEF FollowOf, MirrorOf

LEMMA FollowReceive ==
  ASSUME Typed, Known, NEW b \in Browsers \ Writers, Reader(b), Unasked(b), NEW p \in Paths,
         \A q \in Paths : CreatedOnce(b, q), HeardOf(b, p, Changes),
         FollowOf(b, p), MirrorOf(b), Receive(b)
  PROVE  FollowOf(b, p)' /\ MirrorOf(b)'
<1> SUFFICES ASSUME asks[b] = 0
             PROVE  /\ AllTold(b, p)' => page'[b].openFiles[p] \in {None, disk'[p]}
                    /\ Mirrors(page'[b])
  BY DEF FollowOf, MirrorOf, Follows, Receive, Mirrors
<1> DEFINE m == Head(down[b])
           t == Tail(down[b])
           pg == page[b]
           r == page'[b]
<1>1. /\ down[b] # <<>> /\ down'[b] = t /\ down[b] \in Seq(Answers) /\ pg \in Pages
      /\ r = Applied(pg, m) /\ UNCHANGED <<fromDaemon, events, disk>>
  BY DEF Receive, Typed, RelayTyped, PagesTyped, daemonVars
<1>2. m \in Answers /\ IsSequence(down[b])
  BY <1>1, Dequeued, SeqIs
<1>3. m.path \in Paths
  BY <1>2 DEF Answers, Bare, Carrying
<1>4. m.kind \notin {"file_content"} /\ m.kind \notin {"save_rejected"}
  BY <1>1, <1>2, <1>3, LacksTaken DEF Unasked, Reader
<1>5. m.kind \in {"file_created", "file_changed", "file_deleted"}
  BY <1>2, <1>4 DEF Answers, Bare, Carrying, Changes
<1>6. KnownTo(pg) /\ Mirrors(pg)
  BY DEF Reader, Known, MirrorOf, Follows
<1>7. Makes(m, m.path) => m.path \notin pg.pathMap
  BY <1>3, CreatedReceive
<1>8. (Has(down[b], p, Changes) <=> Has(t, p, Changes) \/ News(m, p, Changes))
  BY <1>1, <1>2, HasTaken
<1>9. ASSUME Fresh(down[b], p, disk[p], Changes), ~Has(t, p, Changes), News(m, p, Changes)
      PROVE  m.content = disk[p]
  BY <1>1, <1>2, <1>9, FreshTaken
<1> HIDE DEF m, t, pg, r
<1>10. Mirrors(r)
  <2>1. CASE m.kind = "file_created"
    <3>1. m.path \notin pg.pathMap
      BY <1>7, <2>1 DEF Makes
    <3>2. Unknown(pg, m.path)
      BY <1>3, <1>6, <3>1 DEF KnownTo
    <3> QED
      BY <1>1, <1>2, <1>6, <2>1, <3>2, AppliedCreated
  <2>2. CASE m.kind \in {"file_changed"}
    <3>1. \A n : n = FromPathToken(pg, m.path) => Touches(pg, r, {n}) /\ Mirrors(r)
      BY <1>1, <1>2, <1>6, <2>2, AppliedText
    <3> QED
      BY <3>1
  <2>3. CASE m.kind = "file_deleted"
    <3>1. \A n : n = FromPathToken(pg, m.path) => Unknown(r, n) /\ Mirrors(r)
      BY <1>1, <1>2, <1>6, <2>3, AppliedDeleted
    <3> QED
      BY <3>1
  <2> QED
    BY <1>5, <2>1, <2>2, <2>3
<1>11. ASSUME AllTold(b, p)' PROVE r.openFiles[p] \in {None, disk[p]}
  <2>1. /\ m.path # p => r.openFiles[p] = pg.openFiles[p]
        /\ m.path = p => r.openFiles[p] \in {None} \cup
                              IF m.kind = "file_deleted" THEN {} ELSE {m.content}
    BY <1>1, <1>2, <1>4, <1>6, AppliedKnown
  <2>2. Free(events, p) /\ disk[p] # None /\ ~Has(fromDaemon, p, Changes) /\ ~Has(t, p, Changes)
    BY <1>1, <1>11 DEF AllTold
  <2>3. Fresh(down[b], p, disk[p], Changes)
    BY <2>2 DEF HeardOf
  <2>4. CASE News(m, p, Changes)
    <3>1. m.content = disk[p]
      BY <1>9, <2>2, <2>3, <2>4
    <3> QED
      BY <2>1, <2>4, <3>1 DEF News
  <2>5. CASE ~News(m, p, Changes)
    <3>1. AllTold(b, p)
      BY <1>8, <2>2, <2>5 DEF AllTold
    <3>2. pg.openFiles[p] \in {None, disk[p]}
      BY <3>1 DEF FollowOf, Follows, pg
    <3>3. m.path = p => m.kind = "file_deleted"
      BY <1>5, <2>5 DEF News, Changes
    <3> QED
      BY <2>1, <3>2, <3>3
  <2> QED
    BY <2>4, <2>5
<1> QED
  BY <1>1, <1>10, <1>11 DEF r

LEMMA FollowNext ==
  ASSUME Typed, RelayInv, Known, [Next]_vars, NEW b \in Browsers \ Writers, Reader(b),
         Unasked(b), NEW p \in Paths, \A q \in Paths : CreatedOnce(b, q),
         HeardOf(b, p, Changes), FollowOf(b, p), MirrorOf(b)
  PROVE  FollowOf(b, p)' /\ MirrorOf(b)'
<1>1. ASSUME NEW a \in Browsers \ {b}, BrowserStep(a) PROVE FollowOf(b, p)' /\ MirrorOf(b)'
  <2>1. page'[b] = page[b] /\ down'[b] = down[b] /\ asks'[b] = asks[b]
    BY <1>1, OthersKept
  <2>2. UNCHANGED <<disk, events, fromDaemon>>
    BY <1>1, BrowserNext DEF BrowserStep, UserStep
  <2>3. AllTold(b, p)' => AllTold(b, p) /\ disk'[p] = disk[p]
    BY <2>1, <2>2, ToldSame
  <2> QED
    BY <2>1, <2>3, FollowSame DEF Follows
<1>2. ASSUME UserStep(b) \/ Receive(b) PROVE FollowOf(b, p)' /\ MirrorOf(b)'
  BY <1>2, FollowUser, FollowReceive
<1>3. ~SendSave(b)
  BY DEF Reader, SendSave
<1>4. ASSUME \/ RelayStep(b) \/ RelayFromDaemon \/ DaemonStep \/ HandleFSEvent
             \/ \E q \in Paths, kind \in Edits : Edit(q, kind)
      PROVE  FollowOf(b, p)' /\ MirrorOf(b)'
  <2>1. UNCHANGED <<page, asks>>
    BY <1>4, DaemonKeeps DEF RelayStep, RelayOpen, RelaySave, RelayFromDaemon, pageVars
  <2>2. AllTold(b, p)' => AllTold(b, p) /\ disk'[p] = disk[p]
    BY <1>4, ToldBefore
  <2> QED
    BY <2>1, <2>2, FollowSame DEF Follows
<1>5. CASE UNCHANGED vars
  <2>1. UNCHANGED <<page, asks, disk, events, fromDaemon, down>>
    BY <1>5 DEF vars, daemonVars, pageVars
  <2>2. AllTold(b, p)' => AllTold(b, p) /\ disk'[p] = disk[p]
    BY <2>1, ToldSame
  <2> QED
    BY <2>1, <2>2, FollowSame DEF Follows
<1>6. ASSUME NEW a \in Browsers, BrowserStep(a) PROVE FollowOf(b, p)' /\ MirrorOf(b)'
  <2>1. CASE a # b
    BY <1>1, <1>6, <2>1
  <2>2. CASE a = b
    BY <1>2, <1>3, <1>4, <1>6, <2>2 DEF BrowserStep
  <2> QED
    BY <2>1, <2>2
<1> QED
  BY <1>4, <1>5, <1>6 DEF Next, BrowserStep, UserStep

(* The inductive strengthening of FollowerShowsDisk: news of a file is on  *)
(* its way until the page's copy is what is on disk, and the view shows    *)
(* that copy.                                                              *)
FollowInv ==
    /\ Typed /\ RelayInv /\ Known
    /\ \A b \in Browsers \ Writers, p \in Paths :
         /\ Reader(b) /\ Unasked(b) /\ MirrorOf(b)
         /\ CreatedOnce(b, p) /\ HeardOf(b, p, Changes) /\ FollowOf(b, p)

LEMMA FollowInvInit == Init => FollowInv
<1> SUFFICES ASSUME Init PROVE FollowInv
  OBVIOUS
<1>1. Typed /\ RelayInv
  BY TypedInit, RelayInvInit
<1>2. Known
  BY FirstPages DEF Known, KnownTo
<1>3. ASSUME NEW b \in Browsers
      PROVE  Reader(b) /\ Unasked(b) /\ MirrorOf(b)
  <2>1. /\ up[b] = <<>> /\ down[b] = <<>> /\ conflicted = {} /\ page[b].saving = None
        /\ Mirrors(page[b]) /\ \A p \in Paths : pendingFiles[p] # b
    BY <1>3, FirstPages, InputAssumption DEF Init
  <2>2. \A kinds : Lacks(<<>>, kinds)
    BY DEF Lacks, Has
  <2> QED
    BY <2>1, <2>2 DEF Reader, Unasked, MirrorOf
<1>4. ASSUME NEW b \in Browsers, NEW p \in Paths
      PROVE  CreatedOnce(b, p) /\ HeardOf(b, p, Changes) /\ FollowOf(b, p)
  <2>1. HeardOf(b, p, Changes) /\ disk[p] = <<p, 0>>
    BY NothingOnItsWay
  <2>2. FollowOf(b, p)
    BY <2>1, FirstPages DEF FollowOf
  <2>3. CreatedOnce(b, p)
    <3>1. <<p, 0>> # None
      BY ContentsAssumption, BoundAssumption DEF Contents
    <3>2. down[b] = <<>> /\ fromDaemon = <<>> /\ events = <<>>
      BY DEF Init
    <3>3. Lax(<<>>, p) /\ Strict(<<>>, p)
      BY EmptyOrder
    <3> QED
      BY <2>1, <3>1, <3>2, <3>3 DEF CreatedOnce, OnceIn
  <2> QED
    BY <2>1, <2>2, <2>3
<1> QED
  BY <1>1, <1>2, <1>3, <1>4 DEF FollowInv

LEMMA FollowInvNext ==
  ASSUME "replace" \notin Edits
  PROVE  FollowInv /\ [Next]_vars => FollowInv'
<1> SUFFICES ASSUME FollowInv, [Next]_vars PROVE FollowInv'
  OBVIOUS
<1>1. Typed /\ RelayInv /\ Known
  BY DEF FollowInv
<1>2. Typed' /\ RelayInv' /\ Known'
  BY <1>1, TypedNext, RelayInvNext, KnownNext
<1>3. ASSUME NEW b \in Browsers \ Writers, NEW p \in Paths
      PROVE  /\ Reader(b)' /\ Unasked(b)' /\ MirrorOf(b)'
             /\ CreatedOnce(b, p)' /\ HeardOf(b, p, Changes)' /\ FollowOf(b, p)'
  <2>1. /\ Reader(b) /\ Unasked(b) /\ MirrorOf(b)
        /\ \A q \in Paths : CreatedOnce(b, q)
        /\ CreatedOnce(b, p) /\ HeardOf(b, p, Changes) /\ FollowOf(b, p)
    BY DEF FollowInv
  <2>2. Reader(b)' /\ Unasked(b)'
    BY <1>1, <2>1, ReaderNext, UnaskedNext
  <2>3. CreatedOnce(b, p)'
    BY <1>1, <2>1, CreatedNext
  <2>4. HeardOf(b, p, Changes)'
    <3>1. Changes # Brings
      BY DEF Changes, Brings
    <3> QED
      BY <1>1, <2>1, <3>1, HeardNext DEF Kinds
  <2>5. FollowOf(b, p)' /\ MirrorOf(b)'
    BY <1>1, <2>1, FollowNext
  <2> QED
    BY <2>2, <2>3, <2>4, <2>5
<1> QED
  BY <1>2, <1>3 DEF FollowInv

LEMMA FollowInvShows == FollowInv => FollowerShowsDisk
<1> SUFFICES ASSUME FollowInv, NEW b \in Browsers \ Writers, NEW p \in Paths, asks[b] = 0,
                    Settled(b, p), disk[p] # None, page[b].currentPath = p
             PROVE  page[b].view = disk[p]
  BY DEF FollowerShowsDisk
<1>1. AllTold(b, p)
  BY FreeOf DEF Settled, Reported, AllTold
<1>2. page[b].openFiles[p] \in {None, disk[p]}
  BY <1>1 DEF FollowInv, FollowOf, Follows
<1>3. page[b].view = page[b].openFiles[p]
  <2>1. p # None
    BY NamesAssumption DEF Names
  <2> QED
    BY <2>1 DEF FollowInv, MirrorOf, Follows, Mirrors
<1>4. page[b].view # None
  <2>1. page[b] \in Pages
    BY DEF FollowInv, Typed, PagesTyped
  <2> QED
    BY <2>1, ContentsAssumption DEF Pages
<1> QED
  BY <1>2, <1>3, <1>4

(* FileSync.FollowerShowsDisk: a page on which nobody types, and which     *)
(* never had to ask for a file, shows the file as it is on disk once all   *)
(* news of it has come, if no program of the host puts a new file in the   *)
(* place of an old one: the page takes that one for its copy of the file   *)
(* and leaves the view as it is (the case file_created of handleMessage in *)
(* app.js).                                                                *)
THEOREM FollowersShowDisk ==
  ASSUME "replace" \notin Edits
  PROVE  Spec => []FollowerShowsDisk
<1>1. Init => FollowInv
  BY FollowInvInit
<1>2. FollowInv /\ [Next]_vars => FollowInv'
  BY FollowInvNext
<1>3. FollowInv => FollowerShowsDisk
  BY FollowInvShows
<1> QED
  BY <1>1, <1>2, <1>3, PTL DEF Spec
=============================================================================
