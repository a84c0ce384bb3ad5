------------------------- MODULE StorageFilesProofs -------------------------
(***************************************************************************)
(* Proofs about the two files of a chunk, for any number of nodes, chunks, *)
(* connections and faults: what the steps of several goroutines, one after *)
(* the other or in between, leave of them while requests for the chunk do  *)
(* not cross, why none is missing, and what a node counts.                 *)
(***************************************************************************)
EXTENDS StorageNodeProofs

\* What is under way, and what is served, for a chunk.
MailFor(c) == {m \in mail : m.chunk = c}
Serving(c) == {j \in Job : job[j] # None /\ job[j].msg.chunk = c}

\* All that is going on for a chunk comes from one request, so it is all deleting
\* or there is no delete.
Deletes(c) == /\ \A m \in MailFor(c) : m.type = "delete"
              /\ \A j \in Serving(c) : job[j].at \in DeletePc
Stores(c)  == /\ \A m \in MailFor(c) : m.type # "delete"
              /\ \A j \in Serving(c) : job[j].at \notin DeletePc
OneKind(c) == Deletes(c) \/ Stores(c)

\* Files that do not agree are being worked on.
FilesOK(n, c) ==
  /\ meta[n][c] = "none" /\ data[n][c] # "none" =>
       \E j \in On(n, c) : At(j, "removeData")
  /\ meta[n][c] # "none" /\ data[n][c] = "none" =>
       \E j \in On(n, c) : At(j, "writeMeta") \/ At(j, "createData")
  /\ meta[n][c] = "empty" => \E j \in On(n, c) : At(j, "writeMeta")
  /\ \A j \in On(n, c) : At(j, "writeMeta") => "meta" \in job[j].open
  /\ \A j \in On(n, c) : At(j, "writeMeta") \/ At(j, "createData") =>
       meta[n][c] # "none"
  /\ \A j \in On(n, c) : At(j, "copy") /\ "data" \in job[j].open =>
       data[n][c] # "none"
  /\ \A j \in On(n, c) : job[j].at \in DeletePc \ {"removeMeta"} =>
       meta[n][c] = "none"

\* A node that a delete named has lost the chunk, or the delete is on its way.
Pending(c, n) ==
  \/ \E m \in MailFor(c) : n = m.to \/ n \in Entries(m.replicas)
  \/ \E j \in Serving(c) : job[j].node = n /\ At(j, "removeMeta")
  \/ \E j \in Serving(c) : job[j].at \in DeletePc \ {"uncount"}
                           /\ n \in Entries(job[j].msg.replicas)

DeleteOK(c) ==
  ended = {} /\ doomed[c] # {} =>
    Deletes(c) /\ \A n \in doomed[c] : meta[n][c] = "none" \/ Pending(c, n)

\* While a node looks at a chunk for a client, nothing else works on the chunk.
Alone(j, c) ==
  /\ MailFor(c) = {} /\ ~job[j].asking
  /\ \A i \in Serving(c) \ {j} : At(i, "sleep") /\ ~job[i].asking

ServedOK(c) ==
  Prompt =>
    /\ <<c, "torn">> \notin answered
    /\ \A m \in MailFor(c) : m.type = "read" /\ m.from = Client =>
         MailFor(c) = {m} /\ Serving(c) = {}
    /\ \A j \in Serving(c) : job[j].reader = Client =>
         /\ job[j].at \in {"load", "validate"} => Alone(j, c)
         /\ At(j, "validate") /\ job[j].loaded = "torn" =>
              data[job[j].node][c] # "whole"
         /\ job[j].at \in {"reply", "send"} => job[j].loaded = "whole"

\* Only a process that has ended is not up.
StatusOK == \A n \in Node : ~Up(n) => n \in ended

ChunkOK(c) == /\ OneKind(c)
              /\ \A n \in Node \ ended : FilesOK(n, c)
              /\ DeleteOK(c)
              /\ ServedOK(c)

ChunksInv == /\ TypeOK
             /\ StatusOK
             /\ \A c \in Chunk \ crossed : ChunkOK(c)

-----------------------------------------------------------------------------
(* A step is about one chunk. *)

\* What is on n's files of c serves c.
LEMMA OnServes ==
  ASSUME NEW n, NEW c
  PROVE  On(n, c) = {j \in Serving(c) : job[j].node = n}
BY DEF On, Serving

\* Goroutine j goes on, or returns, with what it works on unchanged.
Moves(j, v) ==
  /\ job[j] # None
  /\ v # None => v.node = job[j].node /\ v.msg.chunk = job[j].msg.chunk
  /\ job' = [job EXCEPT ![j] = v]

LEMMA MoveShape ==
  ASSUME TypeOK, NEW j \in Job, NEW v, Moves(j, v), NEW c, c = job[j].msg.chunk
  PROVE  /\ \A i \in Job : job'[i] = IF i = j THEN v ELSE job[i]
         /\ \A d : d # c => Serving(d)' = Serving(d)
         /\ Serving(c)' = IF v = None THEN Serving(c) \ {j} ELSE Serving(c)
         /\ \A k : On(k, c)' = IF v = None THEN On(k, c) \ {j} ELSE On(k, c)
<1>1. \A i \in Job : job'[i] = IF i = j THEN v ELSE job[i]
  BY DEF TypeOK, Moves
<1>2. ASSUME NEW d, d # c
      PROVE  Serving(d)' = Serving(d)
  <2>1. ASSUME NEW i
        PROVE  i \in Serving(d)' <=> i \in Serving(d)
    BY <1>1, <1>2 DEF Moves, Serving
  <2>2. QED
    BY <2>1
<1>3. ASSUME NEW i
      PROVE  /\ i \in Serving(c)' <=> i \in Serving(c) /\ (i = j => v # None)
             /\ \A k : i \in On(k, c)' <=> i \in On(k, c) /\ (i = j => v # None)
  BY <1>1 DEF Moves, Serving, On
<1>4. Serving(c)' = IF v = None THEN Serving(c) \ {j} ELSE Serving(c)
  BY <1>3
<1>5. ASSUME NEW k
      PROVE  On(k, c)' = IF v = None THEN On(k, c) \ {j} ELSE On(k, c)
  BY <1>3
<1>6. QED
  BY <1>1, <1>2, <1>4, <1>5

\* Nothing happens that chunk d's invariant is about.
Elsewhere(d) ==
  /\ \A k \in Node : meta'[k][d] = meta[k][d] /\ data'[k][d] = data[k][d]
  /\ MailFor(d)' = MailFor(d)
  /\ Serving(d)' = Serving(d)
  /\ \A i \in Serving(d) : job'[i] = job[i]
  /\ <<d, "torn">> \in answered' => <<d, "torn">> \in answered
  /\ doomed'[d] = doomed[d]
  /\ ended' = ended

LEMMA OnStays ==
  ASSUME NEW d, Elsewhere(d), NEW k
  PROVE  On(k, d)' = On(k, d) /\ \A i \in On(k, d) : job'[i] = job[i]
BY DEF On, Serving, Elsewhere

LEMMA ElsewhereStays ==
  ASSUME TypeOK, NEW d \in Chunk, Elsewhere(d), ChunkOK(d)
  PROVE  ChunkOK(d)'
<1>1. /\ OneKind(d)' = OneKind(d)
      /\ Deletes(d)' = Deletes(d)
  BY DEF OneKind, Deletes, Stores, Elsewhere
<1>2. ASSUME NEW k \in Node, FilesOK(k, d)
      PROVE  FilesOK(k, d)'
  BY <1>2, OnStays DEF FilesOK, At, Elsewhere
<1>3. ASSUME NEW k \in Node, Pending(d, k)
      PROVE  Pending(d, k)'
  BY <1>3 DEF Pending, Elsewhere, At
<1>4. DeleteOK(d)'
  BY <1>1, <1>3 DEF TypeOK, ChunkOK, DeleteOK, Elsewhere
<1>5. ASSUME NEW j \in Serving(d)
      PROVE  Alone(j, d)' <=> Alone(j, d)
  BY <1>5 DEF Alone, At, Elsewhere, Serving
<1>6. ServedOK(d)'
  <2>1. SUFFICES ASSUME Prompt PROVE ServedOK(d)'
    BY DEF ServedOK
  <2>2. \A j \in Serving(d) : job[j] \in Goroutine
    BY GoroutineType DEF Serving
  <2>3. \A j \in Serving(d) : data'[job[j].node][d] = data[job[j].node][d]
    BY <2>2 DEF Goroutine, Elsewhere
  <2>4. QED
    BY <1>5, <2>1, <2>3 DEF ChunkOK, ServedOK, Elsewhere, At
<1>7. QED
  BY <1>1, <1>2, <1>4, <1>6 DEF ChunkOK, Elsewhere

\* A process ends: of what is going on for a chunk some is no more.
LEMMA ExitStays ==
  ASSUME TypeOK, NEW d \in Chunk, NEW n \in Node, NEW why, Exit(n, why),
         UNCHANGED <<files, answered>>, ChunkOK(d)
  PROVE  ChunkOK(d)'
<1>1. /\ \A i \in Job : job'[i] = IF job[i] # None /\ job[i].node = n THEN None
                                  ELSE job[i]
      /\ mail' = {m \in mail : m.to # n}
      /\ ended' = ended \cup {n}
  BY DEF Exit
<1>2. /\ MailFor(d)' \subseteq MailFor(d) /\ Serving(d)' \subseteq Serving(d)
      /\ \A i \in Serving(d)' : job'[i] = job[i]
  BY <1>1 DEF MailFor, Serving
<1>3. OneKind(d)'
  BY <1>2 DEF ChunkOK, OneKind, Deletes, Stores
<1>4. ASSUME NEW k \in Node \ ended'
      PROVE  FilesOK(k, d)'
  <2>1. On(k, d)' = On(k, d) /\ \A i \in On(k, d) : job'[i] = job[i]
    BY <1>1, <1>4 DEF On
  <2>2. FilesOK(k, d)
    BY <1>1, <1>4 DEF ChunkOK
  <2>3. QED
    BY <2>1, <2>2 DEF FilesOK, At, On, files
<1>5. DeleteOK(d)'
  BY <1>1 DEF DeleteOK
<1>6. ASSUME NEW j \in Serving(d)', Alone(j, d)
      PROVE  Alone(j, d)'
  BY <1>2, <1>6 DEF Alone, At
<1>7. ServedOK(d)'
  <2>1. SUFFICES ASSUME Prompt PROVE ServedOK(d)'
    BY DEF ServedOK
  <2>2. \A m \in MailFor(d)' : m.type = "read" /\ m.from = Client =>
          MailFor(d)' = {m} /\ Serving(d)' = {}
    BY <1>2, <2>1 DEF ChunkOK, ServedOK
  <2>3. QED
    BY <1>2, <1>6, <2>1, <2>2 DEF ChunkOK, ServedOK, At, files
<1>8. QED
  BY <1>3, <1>4, <1>5, <1>7 DEF ChunkOK

-----------------------------------------------------------------------------
(* The steps of a goroutine. *)

\* The step changes nothing of any other chunk.
StepOn(c) ==
  /\ \A k \in Node, d \in Chunk : d # c =>
       meta'[k][d] = meta[k][d] /\ data'[k][d] = data[k][d]
  /\ \A d \in Chunk : d # c => MailFor(d)' = MailFor(d)
  /\ \A d \in Chunk : d # c /\ <<d, "torn">> \in answered' => <<d, "torn">> \in answered
  /\ \A d \in Chunk : d # c => doomed'[d] = doomed[d]
  /\ ended' = ended

LEMMA JobStays ==
  ASSUME ChunksInv, NEW j \in Job, NEW v, Moves(j, v), NEW c \in Chunk,
         c = job[j].msg.chunk, StepOn(c), crossed' = crossed,
         c \notin crossed => ChunkOK(c)'
  PROVE  \A d \in Chunk \ crossed' : ChunkOK(d)'
<1>1. ASSUME NEW d \in Chunk \ crossed', d # c
      PROVE  ChunkOK(d)'
  <2>1. Serving(d)' = Serving(d) /\ \A i \in Job : job'[i] = IF i = j THEN v ELSE job[i]
    BY <1>1, MoveShape DEF ChunksInv
  <2>2. \A i \in Serving(d) : job'[i] = job[i]
    BY <1>1, <2>1 DEF Serving
  <2>3. Elsewhere(d)
    BY <1>1, <2>1, <2>2 DEF StepOn, Elsewhere
  <2>4. QED
    BY <1>1, <2>3, ElsewhereStays DEF ChunksInv
<1>2. QED
  BY <1>1

\* What j works on stays of one kind if j and what it sends do.
LEMMA KindHere ==
  ASSUME TypeOK, NEW j \in Job, NEW v, Moves(j, v), NEW c, c = job[j].msg.chunk,
         v # None => (v.at \in DeletePc <=> job[j].at \in DeletePc),
         \A m \in mail' \ mail : m.type = "delete" <=> job[j].at \in DeletePc,
         OneKind(c)
  PROVE  OneKind(c)' /\ (Deletes(c) => Deletes(c)')
<1>1. j \in Serving(c)
  BY DEF Moves, Serving
<1>2. \A i \in Serving(c)' : i \in Serving(c)
        /\ (job'[i].at \in DeletePc <=> job[i].at \in DeletePc)
  BY MoveShape DEF Serving
<1>3. \A m \in MailFor(c)' :
        m \in MailFor(c) \/ (m.type = "delete" <=> job[j].at \in DeletePc)
  BY DEF MailFor
<1>4. CASE Deletes(c)
  BY <1>1, <1>2, <1>3, <1>4 DEF OneKind, Deletes
<1>5. CASE Stores(c)
  <2>1. Stores(c)' /\ ~Deletes(c)
    BY <1>1, <1>2, <1>3, <1>5 DEF Stores, Deletes
  <2>2. QED
    BY <2>1 DEF OneKind
<1>6. QED
  BY <1>4, <1>5 DEF OneKind

\* A goroutine that is not what the files wait for goes on.
LEMMA FilesHere ==
  ASSUME TypeOK, NEW j \in Job, NEW v, Moves(j, v), NEW c, c = job[j].msg.chunk,
         NEW k \in Node, meta'[k][c] = meta[k][c],
         data'[k][c] = "none" <=> data[k][c] = "none",
         job[j].at \notin {"writeMeta", "createData", "removeData"},
         v # None =>
           /\ v.at \notin {"writeMeta", "createData", "copy"}
           /\ v.at \in DeletePc \ {"removeMeta"} =>
                job[j].at \in DeletePc \ {"removeMeta"},
         FilesOK(k, c)
  PROVE  FilesOK(k, c)'
<1>1. \A i \in Job : job'[i] = IF i = j THEN v ELSE job[i]
  BY MoveShape
<1>2. On(k, c)' \subseteq On(k, c) /\ On(k, c) \ {j} \subseteq On(k, c)'
  BY MoveShape
<1>3. \A i \in On(k, c) \ {j} : i \in On(k, c)' /\ job'[i] = job[i]
  BY <1>1, <1>2 DEF On
<1>4. ASSUME NEW i \in On(k, c)', i = j
      PROVE  i \in On(k, c) /\ job'[i] = v /\ v # None
  BY <1>1, <1>2, <1>4 DEF On
<1>5. \A i \in On(k, c)' : i \in On(k, c)
  BY <1>2
<1>6. ASSUME NEW l \in {"writeMeta", "createData", "removeData"},
             \E i \in On(k, c) : At(i, l)
      PROVE  \E i \in On(k, c)' : At(i, l)'
  BY <1>3, <1>6 DEF At
<1>7. \A i \in On(k, c)', l \in {"writeMeta", "createData", "copy"} :
        At(i, l)' => At(i, l) /\ job'[i] = job[i]
  BY <1>3, <1>4, <1>5 DEF At
<1>8. \A i \in On(k, c)' : job'[i].at \in DeletePc \ {"removeMeta"} =>
                             job[i].at \in DeletePc \ {"removeMeta"}
  BY <1>3, <1>4, <1>5
<1>9. QED
  BY <1>5, <1>6, <1>7, <1>8 DEF FilesOK

\* What a client is sent is as whole as before if a goroutine that is not asleep
\* goes on, or one that wakes up when all others sleep.
ServesOK(j, v, c) ==
  v # None /\ v.reader = Client =>
    /\ v.at \in {"load", "validate"} => Alone(j, c)'
    /\ v.at = "validate" /\ v.loaded = "torn" => data'[v.node][c] # "whole"
    /\ v.at \in {"reply", "send"} => v.loaded = "whole"

Awake(j) == At(j, "sleep") /\ ~job[j].asking => Settled(j)

\* All who work on a chunk work on some node.
LEMMA SettledAll ==
  ASSUME TypeOK, NEW j \in Job, job[j] # None, Settled(j), NEW c, c = job[j].msg.chunk
  PROVE  MailFor(c) = {} /\ \A i \in Serving(c) : At(i, "sleep") /\ ~job[i].asking
<1>1. \A i \in Serving(c) : job[i].node \in Node /\ i \in On(job[i].node, c)
  BY GoroutineType DEF Serving, On
<1>2. QED
  BY <1>1 DEF Settled, MailFor

LEMMA ServedHere ==
  ASSUME TypeOK, NEW j \in Job, NEW v, Moves(j, v), NEW c, c = job[j].msg.chunk,
         Prompt => Awake(j), Prompt => ServesOK(j, v, c),
         \A m \in mail' \ mail : ~(m.type = "read" /\ m.from = Client),
         Prompt /\ <<c, "torn">> \in answered' => <<c, "torn">> \in answered,
         ServedOK(c)
  PROVE  ServedOK(c)'
<1>1. SUFFICES ASSUME Prompt PROVE ServedOK(c)'
  BY DEF ServedOK
<1>2. j \in Serving(c) /\ \A i \in Job : job'[i] = IF i = j THEN v ELSE job[i]
  <2>1. j \in Serving(c)
    BY DEF Moves, Serving
  <2>2. QED
    BY <2>1, MoveShape
<1>3. \A i \in Serving(c)' : i \in Serving(c) /\ (i = j => v # None)
  BY <1>2, MoveShape DEF Serving
<1>4. ASSUME NEW m \in MailFor(c)', m.type = "read", m.from = Client
      PROVE  FALSE
  BY <1>1, <1>2, <1>4 DEF MailFor, ServedOK
<1>5. ASSUME NEW i \in Serving(c), i # j, job[i].reader = Client,
             job[i].at \in {"load", "validate"}
      PROVE  FALSE
  <2>1. At(j, "sleep") /\ ~job[j].asking
    BY <1>1, <1>2, <1>5 DEF ServedOK, Alone
  <2>2. At(i, "sleep")
    BY <1>1, <1>5, <2>1, SettledAll DEF Awake, Moves
  <2>3. QED
    BY <1>5, <2>2 DEF At
<1>6. <<c, "torn">> \notin answered'
  BY <1>1 DEF ServedOK
<1>7. ASSUME NEW i \in Serving(c)', job'[i].reader = Client
      PROVE  /\ job'[i].at \in {"load", "validate"} => Alone(i, c)'
             /\ At(i, "validate")' /\ job'[i].loaded = "torn" =>
                  data'[job'[i].node][c] # "whole"
             /\ job'[i].at \in {"reply", "send"} => job'[i].loaded = "whole"
  <2>1. CASE i = j
    BY <1>1, <1>2, <1>3, <1>7, <2>1 DEF ServesOK, At
  <2>2. CASE i # j
    <3>1. i \in Serving(c) /\ i \in Job /\ job'[i] = job[i]
      BY <1>2, <1>3, <1>7, <2>2 DEF Serving
    <3>2. job'[i].at \notin {"load", "validate"}
      BY <1>5, <1>7, <2>2, <3>1
    <3>3. QED
      BY <1>1, <1>7, <3>1, <3>2 DEF ServedOK, At
  <2>3. QED
    BY <2>1, <2>2
<1>8. QED
  BY <1>4, <1>6, <1>7 DEF ServedOK

\* No delete is under way where something else is done.
LEMMA DeleteHere ==
  ASSUME NEW j \in Job, job[j] # None, NEW c, c = job[j].msg.chunk,
         job[j].at \notin DeletePc, doomed' = doomed, ended' = ended, DeleteOK(c)
  PROVE  DeleteOK(c)'
BY DEF DeleteOK, Deletes, Serving

\* What j sends is about its chunk, and no delete, and not for a client to have.
Sends(j) ==
  /\ mail \subseteq mail'
  /\ \A m \in mail' \ mail : /\ m.chunk = job[j].msg.chunk
                             /\ m.type # "delete"
                             /\ ~(m.type = "read" /\ m.from = Client)

\* A step that creates no file, removes none and writes no line.
LEMMA PlainStays ==
  ASSUME ChunksInv, NEW j \in Job, NEW v, Moves(j, v), NEW c, c = job[j].msg.chunk,
         UNCHANGED <<meta, doomed, ended, crossed>>, Sends(j),
         \A k \in Node, d \in Chunk : d # c => data'[k][d] = data[k][d],
         c \notin crossed => \A k \in Node \ ended :
           data'[k][c] = "none" <=> data[k][c] = "none",
         job[j].at \notin DeletePc \cup {"writeMeta", "createData"},
         v # None => v.at \notin DeletePc \cup {"writeMeta", "createData", "copy"},
         Prompt => Awake(j),
         Prompt /\ ServedOK(c) =>
           ServesOK(j, v, c) /\ (<<c, "torn">> \in answered' => <<c, "torn">> \in answered),
         \A d \in Chunk :
           d # c /\ <<d, "torn">> \in answered' => <<d, "torn">> \in answered
  PROVE  \A d \in Chunk \ crossed' : ChunkOK(d)'
<1>1. TypeOK /\ c \in Chunk
  BY GoroutineType DEF ChunksInv, Moves
<1>2. StepOn(c)
  BY DEF StepOn, Sends, MailFor
<1>3. ASSUME c \notin crossed
      PROVE  ChunkOK(c)'
  <2>1. ChunkOK(c)
    BY <1>1, <1>3 DEF ChunksInv
  <2>2. OneKind(c)'
    BY <1>1, <2>1, KindHere DEF ChunkOK, Sends
  <2>3. ASSUME NEW k \in Node \ ended'
        PROVE  FilesOK(k, c)'
    <3>1. k \in Node \ ended /\ FilesOK(k, c)
      BY <2>1, <2>3 DEF ChunkOK
    <3>2. job[j].at \notin {"writeMeta", "createData", "removeData"}
          /\ (v # None => v.at \notin {"writeMeta", "createData", "copy"} /\ v.at \notin DeletePc)
      BY DEF DeletePc
    <3>3. QED
      BY <1>1, <1>3, <3>1, <3>2, FilesHere
  <2>4. DeleteOK(c)'
    BY <2>1, DeleteHere DEF ChunkOK, Moves
  <2>5. ServedOK(c)'
    BY <1>1, <2>1, ServedHere DEF ChunkOK, Sends
  <2>6. QED
    BY <2>2, <2>3, <2>4, <2>5 DEF ChunkOK
<1>4. QED
  BY <1>1, <1>2, <1>3, JobStays

\* Facts of every step of a goroutine.
LEMMA Facts ==
  ASSUME ChunksInv, NEW j \in Job, job[j] # None
  PROVE  /\ TypeOK /\ job[j] \in Goroutine /\ GoroutineOK(job[j])
         /\ job[j].node \in Node /\ job[j].msg \in Message
         /\ job[j].msg.chunk \in Chunk /\ job[j].msg.replicas \in Seq(Node)
BY GoroutineType DEF ChunksInv

\* A goroutine that goes on at another step, or returns, is not None.
LEMMA GotoMoves ==
  ASSUME ChunksInv, NEW j \in Job, job[j] # None, NEW l \in BusyPc, Goto(j, l)
  PROVE  \E v \in Goroutine : /\ Moves(j, v) /\ v.at = l /\ v.reader = job[j].reader
                              /\ v.loaded = job[j].loaded /\ v.node = job[j].node
<1> DEFINE v == [job[j] EXCEPT !.at = l]
<1>1. v \in Goroutine /\ v.at = l /\ v.reader = job[j].reader
      /\ v.loaded = job[j].loaded /\ v.node = job[j].node
      /\ v.msg.chunk = job[j].msg.chunk
  BY Facts DEF Goroutine
<1>2. Moves(j, v)
  BY <1>1 DEF Moves, Goto
<1>3. QED
  BY <1>1, <1>2

LEMMA FinishMoves ==
  ASSUME ChunksInv, NEW j \in Job, job[j] # None, Finish(j)
  PROVE  \E v : Moves(j, v) /\ (v # None => v.at = "asked" /\ job[j].asking)
<1> DEFINE v == Finished(j)
<1>1. v # None => v.node = job[j].node /\ v.msg.chunk = job[j].msg.chunk
                  /\ v.at = "asked" /\ job[j].asking
  BY Facts DEF Finished, Goroutine
<1>2. Moves(j, v)
  BY <1>1 DEF Moves, Finish
<1>3. QED
  BY <1>1, <1>2

\* Storing, but for the steps that create the files.
LEMMA SavePlain ==
  ASSUME ChunksInv, NEW j \in Job, Copy(j) \/ CopyCut(j) \/ PassOn(j) \/ Count(j)
  PROVE  \A d \in Chunk \ crossed' : ChunkOK(d)'
<1> USE DEF files, history, Local
<1>1. job[j] # None /\ job[j].at \in {"copy", "passOn", "count"}
  BY DEF Copy, CopyCut, PassOn, Count, At
<1>2. job[j].at \notin DeletePc \cup {"writeMeta", "createData", "sleep"}
  BY <1>1 DEF DeletePc
<1>3. Awake(j)
  BY <1>2 DEF Awake, At
<1> DEFINE g == job[j]
           n == g.node
           rest == g.msg.replicas
<1>4. PICK c : c = job[j].msg.chunk
  OBVIOUS
<1>5. /\ TypeOK /\ c \in Chunk /\ n \in Node /\ g \in Goroutine /\ GoroutineOK(g)
      /\ g.msg \in Message /\ rest \in Seq(Node)
  BY <1>1, <1>4, Facts
<1>6. UNCHANGED <<meta, doomed, ended, crossed, answered>>
  BY DEF Copy, CopyCut, PassOn, Count
<1>7. \A k \in Node, d \in Chunk : d # c => data'[k][d] = data[k][d]
  <2>1. CASE Copy(j)
    BY <1>4, <1>5, <2>1 DEF Copy, TypeOK
  <2>2. CASE CopyCut(j) \/ PassOn(j) \/ Count(j)
    BY <2>2 DEF CopyCut, PassOn, Count
  <2>3. QED
    BY <2>1, <2>2
<1>8. ASSUME c \notin crossed, NEW k \in Node \ ended
      PROVE  data'[k][c] = "none" <=> data[k][c] = "none"
  <2>1. CASE Copy(j) /\ "data" \in g.open
    <3>1. g.msg.data \in {"torn", "whole"}
      BY <1>5 DEF Message
    <3>2. data' = [data EXCEPT ![n][c] = g.msg.data]
      BY <1>4, <2>1 DEF Copy
    <3>3. j \in On(n, c) /\ At(j, "copy")
      BY <1>1, <1>4, <2>1 DEF Copy, On
    <3>4. FilesOK(k, c)
      BY <1>5, <1>8 DEF ChunksInv, ChunkOK
    <3>5. k = n => data[k][c] # "none"
      BY <2>1, <3>3, <3>4 DEF FilesOK
    <3>6. QED
      BY <1>5, <1>8, <3>1, <3>2, <3>5 DEF TypeOK
  <2>2. CASE ~(Copy(j) /\ "data" \in g.open)
    BY <2>2 DEF Copy, CopyCut, PassOn, Count
  <2>3. QED
    BY <2>1, <2>2
<1>9. ASSUME NEW v, Moves(j, v), Sends(j),
             v # None => v.at \in {"passOn", "count", "asked"}
      PROVE  \A d \in Chunk \ crossed' : ChunkOK(d)'
  <2>1. v # None => v.at \notin DeletePc \cup {"writeMeta", "createData", "copy"}
    BY <1>9 DEF DeletePc
  <2>2. ServesOK(j, v, c)
    BY <1>9 DEF ServesOK
  <2>3. QED
    BY <1>2, <1>3, <1>4, <1>6, <1>7, <1>8, <1>9, <2>1, <2>2, PlainStays
<1>10. CASE Copy(j) \/ CopyCut(j)
  <2>1. Goto(j, "passOn") /\ "passOn" \in BusyPc /\ mail' = mail
    BY <1>10 DEF Copy, CopyCut, BusyPc, WritePc
  <2>2. PICK v \in Goroutine : Moves(j, v) /\ v.at = "passOn"
    BY <1>1, <2>1, GotoMoves
  <2>3. QED
    BY <1>9, <2>1, <2>2 DEF Sends
<1>11. CASE PassOn(j)
  <2>1. CASE rest # <<>> /\ Up(Head(rest))
    <3> DEFINE v == [g EXCEPT !.msg.replicas = Tail(rest)]
    <3>1. v.at = "passOn" /\ v.node = n /\ v.msg.chunk = g.msg.chunk
      BY <1>5, <1>11 DEF PassOn, At, Goroutine, Message
    <3>2. job' = [job EXCEPT ![j] = v] /\ mail' = mail \cup {Upload(j)}
      BY <1>11, <2>1 DEF PassOn
    <3>3. Moves(j, v)
      BY <1>1, <3>1, <3>2 DEF Moves
    <3>4. Upload(j).type = "write" /\ Upload(j).chunk = g.msg.chunk
      BY DEF Upload
    <3>5. Sends(j)
      BY <3>2, <3>4 DEF Sends
    <3>6. QED
      BY <1>9, <3>1, <3>3, <3>5
  <2>2. CASE ~(rest # <<>> /\ Up(Head(rest)))
    <3>1. Goto(j, "count") /\ "count" \in BusyPc /\ mail' = mail
      BY <1>11, <2>2 DEF PassOn, BusyPc, WritePc
    <3>2. PICK v \in Goroutine : Moves(j, v) /\ v.at = "count"
      BY <1>1, <3>1, GotoMoves
    <3>3. QED
      BY <1>9, <3>1, <3>2 DEF Sends
  <2>3. QED
    BY <2>1, <2>2
<1>12. CASE Count(j)
  <2>1. PICK v : Moves(j, v) /\ (v # None => v.at = "asked")
    BY <1>1, <1>12, FinishMoves DEF Count
  <2>2. Sends(j)
    BY <1>12 DEF Count, Sends
  <2>3. QED
    BY <1>9, <2>1, <2>2
<1>13. QED
  BY <1>10, <1>11, <1>12

\* Reading and fetching change no file.
LEMMA ReadStays ==
  ASSUME ChunksInv, NEW j \in Job, NEW v, Moves(j, v), NEW c, c = job[j].msg.chunk,
         UNCHANGED <<files, doomed, ended, crossed>>, Sends(j),
         job[j].at \in ReadPc \cup {"fetch"}, v # None => v.at \in ReadPc,
         Prompt => Awake(j),
         Prompt /\ ServedOK(c) =>
           ServesOK(j, v, c) /\ (<<c, "torn">> \in answered' => <<c, "torn">> \in answered),
         \A d \in Chunk :
           d # c /\ <<d, "torn">> \in answered' => <<d, "torn">> \in answered
  PROVE  \A d \in Chunk \ crossed' : ChunkOK(d)'
<1>1. /\ job[j].at \notin DeletePc \cup {"writeMeta", "createData"}
      /\ v # None => v.at \notin DeletePc \cup {"writeMeta", "createData", "copy"}
  BY DEF ReadPc, DeletePc
<1>2. UNCHANGED <<meta, data>>
  BY DEF files
<1>3. QED
  BY <1>1, <1>2, PlainStays

LEMMA ServePlain ==
  ASSUME ChunksInv, NEW j \in Job,
         \/ Load(j) \/ Validated(j) \/ Corrupted(j) \/ Reply(j) \/ Send(j)
         \/ Fetch(j)
  PROVE  \A d \in Chunk \ crossed' : ChunkOK(d)'
<1> USE DEF history, Local
<1>1. job[j] # None /\ job[j].at \in ReadPc \cup {"fetch"}
  BY DEF Load, Validated, Corrupted, Reply, Send, Fetch, At, ReadPc
<1> DEFINE g == job[j]
           n == g.node
           m == g.msg
<1>2. PICK c : c = job[j].msg.chunk
  OBVIOUS
<1>3. /\ TypeOK /\ c \in Chunk /\ n \in Node /\ g \in Goroutine /\ GoroutineOK(g)
      /\ g.msg \in Message
  BY <1>1, <1>2, Facts
<1>4. UNCHANGED <<files, doomed, ended, crossed>>
  BY DEF Load, Validated, Corrupted, Reply, Send, Fetch
<1>5. j \in Serving(c)
  BY <1>1, <1>2 DEF Serving
<1>6. Load(j) \/ Awake(j)
  BY DEF Validated, Corrupted, Reply, Send, Fetch, At, Awake
<1>7. CASE Load(j)
  <2> DEFINE v == [g EXCEPT !.at = "validate", !.sum = ReadSum(n, c),
                            !.loaded = ReadData(n, c)]
  <2>1. job' = [job EXCEPT ![j] = v]
    BY <1>2, <1>7 DEF Load
  <2>2. /\ v.at = "validate" /\ v.node = n /\ v.msg.chunk = c /\ v.reader = g.reader
        /\ v.loaded = ReadData(n, c) /\ v.asking = g.asking
    BY <1>2, <1>3 DEF Goroutine
  <2>3. Moves(j, v)
    BY <1>1, <1>2, <2>1, <2>2 DEF Moves
  <2>4. ASSUME Prompt, ServedOK(c), g.reader = Client
        PROVE  Alone(j, c)'
    <3>1. Alone(j, c)
      <4>1. CASE At(j, "load")
        BY <1>5, <2>4, <4>1 DEF ServedOK, At
      <4>2. CASE At(j, "sleep") /\ Settled(j)
        BY <1>1, <1>2, <1>3, <1>5, <4>2, SettledAll DEF Alone
      <4>3. QED
        BY <1>7, <2>4, <4>1, <4>2 DEF Load
    <3>2. \A i \in Job : job'[i] = IF i = j THEN v ELSE job[i]
      BY <1>2, <1>3, <2>3, MoveShape
    <3>3. Serving(c)' \subseteq Serving(c) /\ MailFor(c)' = MailFor(c)
      BY <1>2, <1>3, <1>7, <2>3, MoveShape DEF Load, MailFor
    <3>4. \A i \in Serving(c)' \ {j} : job'[i] = job[i]
      BY <3>2 DEF Serving
    <3>5. QED
      BY <2>2, <3>1, <3>2, <3>3, <3>4 DEF Alone, At
  <2>5. ReadData(n, c) = "torn" => data'[n][c] # "whole"
    BY <1>4 DEF files, ReadData
  <2>6. Prompt /\ ServedOK(c) => ServesOK(j, v, c)
    BY <2>2, <2>4, <2>5 DEF ServesOK
  <2>7. Prompt => Awake(j)
    BY <1>7 DEF Load, Awake, At
  <2>8. Sends(j) /\ answered' = answered
    BY <1>7 DEF Load, Sends
  <2>9. v.at \in ReadPc
    BY <2>2 DEF ReadPc
  <2>10. QED
    BY <1>1, <1>2, <1>4, <2>3, <2>6, <2>7, <2>8, <2>9, ReadStays
<1>8. CASE Validated(j)
  <2>1. Goto(j, "reply") /\ "reply" \in BusyPc \cap ReadPc
        /\ Sends(j) /\ answered' = answered
    BY <1>8 DEF Validated, BusyPc, ReadPc, Sends
  <2>2. PICK v \in Goroutine : Moves(j, v) /\ v.at = "reply" /\ v.reader = g.reader
                               /\ v.loaded = g.loaded
    BY <1>1, <2>1, GotoMoves
  <2>3. g.loaded \in {"torn", "whole"}
    BY <1>3, <1>8 DEF Validated, At, Goroutine, GoroutineOK, DataFile
  <2>4. data[n][c] = "whole"
    BY <1>2, <1>8 DEF Validated, Valid
  <2>5. Prompt /\ ServedOK(c) => ServesOK(j, v, c)
    BY <1>5, <1>8, <2>2, <2>3, <2>4 DEF Validated, ServedOK, ServesOK
  <2>6. Awake(j)
    BY <1>8 DEF Validated, At, Awake
  <2>7. QED
    BY <1>1, <1>2, <1>4, <2>1, <2>2, <2>5, <2>6, ReadStays
<1>9. CASE Corrupted(j)
  <2> DEFINE v == [g EXCEPT !.at = "sleep", !.asking = TRUE, !.reader = m.from]
  <2>1. job' = [job EXCEPT ![j] = v] /\ Sends(j) /\ answered' = answered
    BY <1>9 DEF Corrupted, Sends
  <2>2. v.at = "sleep" /\ v.node = n /\ v.msg.chunk = c
    BY <1>2, <1>3 DEF Goroutine
  <2>3. Moves(j, v)
    BY <1>1, <1>2, <2>1, <2>2 DEF Moves
  <2>4. Awake(j) /\ ServesOK(j, v, c) /\ v.at \in ReadPc
    BY <1>9, <2>2 DEF Corrupted, At, Awake, ServesOK, ReadPc
  <2>5. QED
    BY <1>1, <1>2, <1>4, <2>1, <2>3, <2>4, ReadStays
<1>10. CASE Reply(j)
  <2>1. Sends(j) /\ answered' = answered /\ Awake(j)
    BY <1>10 DEF Reply, Sends, At, Awake
  <2>2. CASE g.reader \in Node /\ ~Up(g.reader)
    <3>1. PICK v : Moves(j, v) /\ (v # None => v.at = "asked")
      BY <1>1, <1>10, <2>2, FinishMoves DEF Reply
    <3>2. ServesOK(j, v, c) /\ (v # None => v.at \in ReadPc)
      BY <3>1 DEF ServesOK, ReadPc
    <3>3. QED
      BY <1>1, <1>2, <1>4, <2>1, <3>1, <3>2, ReadStays
  <2>3. CASE ~(g.reader \in Node /\ ~Up(g.reader))
    <3> DEFINE v == [g EXCEPT !.at = "send", !.msg.type = "write", !.msg.from = n]
    <3>1. job' = [job EXCEPT ![j] = v]
      BY <1>10, <2>3 DEF Reply
    <3>2. v.at = "send" /\ v.node = n /\ v.msg.chunk = c /\ v.reader = g.reader
          /\ v.loaded = g.loaded
      BY <1>2, <1>3 DEF Goroutine, Message
    <3>3. Moves(j, v)
      BY <1>1, <1>2, <3>1, <3>2 DEF Moves
    <3>4. Prompt /\ ServedOK(c) => ServesOK(j, v, c)
      BY <1>5, <1>10, <3>2 DEF Reply, At, ServedOK, ServesOK
    <3>5. v.at \in ReadPc
      BY <3>2 DEF ReadPc
    <3>6. QED
      BY <1>1, <1>2, <1>4, <2>1, <3>3, <3>4, <3>5, ReadStays
  <2>4. QED
    BY <2>2, <2>3
<1>11. CASE Send(j)
  <2> DEFINE out == [m EXCEPT !.to = g.reader, !.data = g.loaded, !.sum = g.sum]
  <2>1. PICK v : Moves(j, v) /\ (v # None => v.at = "asked")
    BY <1>1, <1>11, FinishMoves DEF Send
  <2>2. ServesOK(j, v, c) /\ (v # None => v.at \in ReadPc)
    BY <2>1 DEF ServesOK, ReadPc
  <2>3. Awake(j)
    BY <1>11 DEF Send, At, Awake
  <2>4. out.type \in {"write", "replica"} /\ out.chunk = m.chunk
    BY <1>3, <1>11 DEF Send, At, GoroutineOK, Message
  <2>5. mail' = mail \/ mail' = mail \cup {out}
    BY <1>11 DEF Send
  <2>6. Sends(j)
    BY <2>4, <2>5 DEF Sends
  <2>7. answered' = answered
        \/ (g.reader = Client /\ answered' = answered \cup {<<c, g.loaded>>})
    BY <1>2, <1>11 DEF Send
  <2>8. Prompt /\ ServedOK(c) /\ g.reader = Client => g.loaded = "whole"
    BY <1>5, <1>11 DEF Send, At, ServedOK
  <2>9. QED
    BY <1>1, <1>2, <1>4, <2>1, <2>2, <2>3, <2>6, <2>7, <2>8, ReadStays
<1>12. CASE Fetch(j)
  <2> DEFINE out == Request("read", m.chunk, n, Head(m.replicas), Tail(m.replicas))
  <2>1. PICK v : Moves(j, v) /\ (v # None => v.at = "asked")
    BY <1>1, <1>12, FinishMoves DEF Fetch
  <2>2. ServesOK(j, v, c) /\ (v # None => v.at \in ReadPc)
    BY <2>1 DEF ServesOK, ReadPc
  <2>3. Awake(j) /\ answered' = answered
    BY <1>12 DEF Fetch, At, Awake
  <2>4. out.from # Client /\ out.chunk = m.chunk /\ out.type = "read"
    BY <1>3, Outsiders DEF Request
  <2>5. mail' = mail \/ mail' = mail \cup {out}
    BY <1>12 DEF Fetch
  <2>6. Sends(j)
    BY <2>4, <2>5 DEF Sends
  <2>7. QED
    BY <1>1, <1>2, <1>4, <2>1, <2>2, <2>3, <2>6, ReadStays
<1>13. QED
  BY <1>7, <1>8, <1>9, <1>10, <1>11, <1>12

LEMMA AskPlain ==
  ASSUME ChunksInv, NEW j \in Job, Ask(j) \/ AskFails(j)
  PROVE  \A d \in Chunk \ crossed' : ChunkOK(d)'
<1> USE DEF history
<1>1. job[j] # None /\ job[j].asking
  BY DEF Ask, AskFails
<1> DEFINE g == job[j]
           n == g.node
<1>2. PICK c : c = job[j].msg.chunk
  OBVIOUS
<1>3. /\ TypeOK /\ c \in Chunk /\ n \in Node /\ g \in Goroutine /\ GoroutineOK(g)
      /\ g.msg \in Message
  BY <1>1, <1>2, Facts
<1>4. UNCHANGED <<files, doomed, ended, crossed, answered>> /\ g.at \in ReadPc
  BY <1>1, <1>3 DEF Ask, AskFails, GoroutineOK
<1>5. j \in Serving(c) /\ Awake(j)
  BY <1>1, <1>2 DEF Serving, Awake
<1>6. PICK v : /\ job' = [job EXCEPT ![j] = v]
               /\ v # None => /\ v.at = g.at /\ v.node = n /\ v.msg.chunk = c
                              /\ v.reader = g.reader /\ v.loaded = g.loaded
  <2> DEFINE v == [g EXCEPT !.asking = FALSE, !.msg.from = n, !.msg.type = "replica"]
             w == [g EXCEPT !.asking = FALSE]
             same(x) == /\ x.at = g.at /\ x.node = n /\ x.msg.chunk = c
                        /\ x.reader = g.reader /\ x.loaded = g.loaded
  <2>1. same(v) /\ same(w)
    BY <1>2, <1>3 DEF Goroutine, Message
  <2>2. \/ job' = [job EXCEPT ![j] = None]
        \/ job' = [job EXCEPT ![j] = v]
        \/ job' = [job EXCEPT ![j] = w]
    BY DEF Ask, AskFails
  <2> HIDE DEF v, w
  <2>3. QED
    BY <2>1, <2>2
<1>7. Moves(j, v)
  BY <1>1, <1>2, <1>6 DEF Moves
<1>8. Prompt /\ ServedOK(c) => ServesOK(j, v, c)
  BY <1>1, <1>5, <1>6 DEF ServedOK, ServesOK, Alone, At
<1>9. Sends(j)
  BY <1>3, Outsiders DEF Ask, AskFails, Sends, Request
<1>10. QED
  BY <1>2, <1>4, <1>5, <1>6, <1>7, <1>8, <1>9, ReadStays

\* Another node's files wait for nothing that happens here.
LEMMA FilesThere ==
  ASSUME NEW k \in Node, NEW c, meta'[k][c] = meta[k][c], data'[k][c] = data[k][c],
         On(k, c)' = On(k, c), \A i \in On(k, c) : job'[i] = job[i], FilesOK(k, c)
  PROVE  FilesOK(k, c)'
BY DEF FilesOK, At

\* The steps that create the two files and write the line.
LEMMA CreateStays ==
  ASSUME ChunksInv, NEW j \in Job, CreateMeta(j) \/ WriteMeta(j) \/ CreateData(j)
  PROVE  \A d \in Chunk \ crossed' : ChunkOK(d)'
<1> USE DEF files, history, Local
<1>1. job[j] # None /\ job[j].at \in {"createMeta", "writeMeta", "createData"}
  BY DEF CreateMeta, WriteMeta, CreateData, At
<1> DEFINE g == job[j]
<1>2. PICK c : c = job[j].msg.chunk
  OBVIOUS
<1>3. PICK n : n = job[j].node
  OBVIOUS
<1>4. /\ TypeOK /\ c \in Chunk /\ n \in Node /\ g \in Goroutine /\ GoroutineOK(g)
      /\ g.msg \in Message
  BY <1>1, <1>2, <1>3, Facts
<1>5. /\ UNCHANGED <<doomed, ended, crossed, answered, mail>>
      /\ \A k \in Node, d \in Chunk : k # n \/ d # c =>
           meta'[k][d] = meta[k][d] /\ data'[k][d] = data[k][d]
  <2>1. CASE CreateMeta(j)
    BY <1>2, <1>3, <1>4, <2>1 DEF CreateMeta, TypeOK
  <2>2. CASE WriteMeta(j)
    BY <1>2, <1>3, <1>4, <2>2 DEF WriteMeta, TypeOK
  <2>3. CASE CreateData(j)
    BY <1>2, <1>3, <1>4, <2>3 DEF CreateData, TypeOK
  <2>4. QED
    BY <2>1, <2>2, <2>3
<1>6. j \in On(n, c) /\ j \in Serving(c)
  BY <1>1, <1>2, <1>3 DEF On, Serving
<1>7. g.at \notin DeletePc /\ Awake(j)
  BY <1>1 DEF DeletePc, Awake, At
<1>8. ASSUME NEW v \in Goroutine, Moves(j, v), v.at \in {"writeMeta", "createData", "copy"},
             c \notin crossed,
             n \notin ended /\ FilesOK(n, c) /\ Stores(c) => FilesOK(n, c)'
      PROVE  ChunkOK(c)'
  <2>1. ChunkOK(c) /\ Stores(c)
    BY <1>4, <1>6, <1>7, <1>8 DEF ChunksInv, ChunkOK, OneKind, Deletes
  <2>2. v.at \notin DeletePc /\ ServesOK(j, v, c)
    BY <1>8 DEF DeletePc, ServesOK
  <2>3. OneKind(c)'
    BY <1>2, <1>4, <1>5, <1>7, <1>8, <2>1, <2>2, KindHere DEF ChunkOK
  <2>4. ASSUME NEW k \in Node \ ended', k # n
        PROVE  FilesOK(k, c)'
    <3>1. \A i \in Job : job'[i] = IF i = j THEN v ELSE job[i]
      BY <1>2, <1>4, <1>8, MoveShape
    <3>2. j \notin On(k, c)
      BY <1>3, <2>4 DEF On
    <3>3. On(k, c)' = On(k, c)
      BY <1>2, <1>4, <1>8, <3>2, NoneAssumption, MoveShape
    <3>4. \A i \in On(k, c) : job'[i] = job[i]
      BY <3>1, <3>2 DEF On
    <3>5. FilesOK(k, c)
      BY <1>5, <2>1, <2>4 DEF ChunkOK
    <3>6. QED
      BY <1>4, <1>5, <2>4, <3>3, <3>4, <3>5, FilesThere
  <2>5. \A k \in Node \ ended' : FilesOK(k, c)'
    BY <1>4, <1>5, <1>8, <2>1, <2>4 DEF ChunkOK
  <2>6. DeleteOK(c)'
    BY <1>1, <1>2, <1>5, <1>7, <2>1, DeleteHere DEF ChunkOK
  <2>7. ServedOK(c)'
    BY <1>2, <1>4, <1>5, <1>7, <1>8, <2>1, <2>2, ServedHere DEF ChunkOK
  <2>8. QED
    BY <2>3, <2>5, <2>6, <2>7 DEF ChunkOK
<1>9. StepOn(c)
  BY <1>4, <1>5 DEF StepOn, MailFor
<1>10. ASSUME NEW v \in Goroutine, Moves(j, v)
       PROVE  /\ \A i \in Job : job'[i] = IF i = j THEN v ELSE job[i]
              /\ On(n, c)' = On(n, c)
  BY <1>2, <1>4, <1>10, NoneAssumption, MoveShape
<1>11. ASSUME NEW i \in On(n, c), Stores(c)
       PROVE  i \in Job /\ job[i] # None /\ job[i].at \notin DeletePc
  BY <1>11 DEF On, Serving, Stores
<1>12. CASE CreateMeta(j)
  <2> DEFINE v == [g EXCEPT !.at = "writeMeta", !.open = {"meta"}]
  <2>1. v \in Goroutine /\ v.at = "writeMeta" /\ v.open = {"meta"} /\ v.node = n
        /\ v.msg.chunk = c
    BY <1>2, <1>3, <1>4 DEF Goroutine, BusyPc, WritePc
  <2>2. job' = [job EXCEPT ![j] = v]
    BY <1>12 DEF CreateMeta
  <2>3. Moves(j, v)
    BY <1>1, <1>2, <1>3, <2>1, <2>2 DEF Moves
  <2> HIDE DEF v
  <2>4. meta'[n][c] = "empty" /\ data'[n][c] = data[n][c]
    BY <1>2, <1>3, <1>4, <1>12 DEF CreateMeta, TypeOK
  <2>5. ASSUME FilesOK(n, c), Stores(c)
        PROVE  FilesOK(n, c)'
    <3>1. \A i \in On(n, c) : i = j \/ job'[i] = job[i]
      BY <1>10, <2>1, <2>3, <1>11, <2>5
    <3>2. job'[j] = v /\ v # None
      BY <1>10, <2>1, <2>3, NoneAssumption
    <3>3. On(n, c)' = On(n, c)
      BY <1>10, <2>1, <2>3
    <3>4. \A i \in On(n, c) : job'[i].at \notin DeletePc
      BY <1>11, <2>1, <2>5, <3>1, <3>2 DEF DeletePc
    <3>5. QED
      BY <1>6, <2>1, <2>4, <2>5, <3>1, <3>2, <3>3, <3>4 DEF FilesOK, At
  <2>6. QED
    BY <1>2, <1>4, <1>5, <1>8, <1>9, <2>1, <2>3, <2>5, JobStays
<1>13. CASE WriteMeta(j)
  <2> DEFINE v == [g EXCEPT !.at = "createData"]
  <2>1. v \in Goroutine /\ v.at = "createData" /\ v.node = n /\ v.msg.chunk = c
    BY <1>2, <1>3, <1>4 DEF Goroutine, BusyPc, WritePc
  <2>2. job' = [job EXCEPT ![j] = v]
    BY <1>13 DEF WriteMeta, Goto
  <2>3. Moves(j, v)
    BY <1>1, <1>2, <1>3, <2>1, <2>2 DEF Moves
  <2> HIDE DEF v
  <2>4. "meta" \in g.open => meta'[n][c] \in MetaFile \ {"none", "empty"}
    <3>1. PICK x \in {"blank", "sum", "garbled"} :
            "meta" \in g.open => meta' = [meta EXCEPT ![n][c] = x]
      BY <1>2, <1>3, <1>13 DEF WriteMeta, Written
    <3>2. QED
      BY <1>4, <3>1 DEF TypeOK, MetaFile
  <2>5. ASSUME FilesOK(n, c), Stores(c)
        PROVE  FilesOK(n, c)'
    <3>1. \A i \in On(n, c) : i = j \/ job'[i] = job[i]
      BY <1>10, <1>11, <2>1, <2>3, <2>5
    <3>2. job'[j] = v /\ v # None
      BY <1>10, <2>1, <2>3, NoneAssumption
    <3>3. On(n, c)' = On(n, c)
      BY <1>10, <2>1, <2>3
    <3>4. \A i \in On(n, c) : job'[i].at \notin DeletePc
      BY <1>11, <2>1, <2>5, <3>1, <3>2 DEF DeletePc
    <3>5. meta'[n][c] \notin {"none", "empty"} /\ data'[n][c] = data[n][c]
      BY <1>6, <1>13, <2>4, <2>5 DEF WriteMeta, FilesOK
    <3>6. QED
      BY <1>6, <2>1, <2>5, <3>1, <3>2, <3>3, <3>4, <3>5 DEF FilesOK, At
  <2>6. QED
    BY <1>2, <1>4, <1>5, <1>8, <1>9, <2>1, <2>3, <2>5, JobStays
<1>14. CASE CreateData(j)
  <2> DEFINE v == [g EXCEPT !.at = "copy", !.open = {"data"}]
  <2>1. v \in Goroutine /\ v.at = "copy" /\ v.node = n /\ v.msg.chunk = c
    BY <1>2, <1>3, <1>4 DEF Goroutine, BusyPc, WritePc
  <2>2. job' = [job EXCEPT ![j] = v]
    BY <1>14 DEF CreateData
  <2>3. Moves(j, v)
    BY <1>1, <1>2, <1>3, <2>1, <2>2 DEF Moves
  <2> HIDE DEF v
  <2>4. data'[n][c] = "torn" /\ meta'[n][c] = meta[n][c]
    BY <1>2, <1>3, <1>4, <1>14 DEF CreateData, TypeOK
  <2>5. ASSUME FilesOK(n, c), Stores(c)
        PROVE  FilesOK(n, c)'
    <3>1. \A i \in On(n, c) : i = j \/ job'[i] = job[i]
      BY <1>10, <1>11, <2>1, <2>3, <2>5
    <3>2. job'[j] = v /\ v # None
      BY <1>10, <2>1, <2>3, NoneAssumption
    <3>3. On(n, c)' = On(n, c)
      BY <1>10, <2>1, <2>3
    <3>4. \A i \in On(n, c) : job'[i].at \notin DeletePc
      BY <1>11, <2>1, <2>5, <3>1, <3>2 DEF DeletePc
    <3>5. At(j, "createData") /\ meta[n][c] # "none"
      BY <1>6, <1>14, <2>5 DEF CreateData, FilesOK
    <3>6. QED
      BY <1>6, <2>1, <2>4, <2>5, <3>1, <3>2, <3>3, <3>4, <3>5 DEF FilesOK, At
  <2>6. QED
    BY <1>2, <1>4, <1>5, <1>8, <1>9, <2>1, <2>3, <2>5, JobStays
<1>15. QED
  BY <1>12, <1>13, <1>14

\* Deleting: what the others on the chunk's files keep, and what j does.
LEMMA UnlinkShape ==
  ASSUME ChunksInv, NEW j \in Job, job[j] # None, NEW n, n = job[j].node,
         NEW c, c = job[j].msg.chunk, NEW kind, NEW l \in DeletePc,
         job' = [Unlinked(n, c, kind) EXCEPT ![j].at = l]
  PROVE  /\ \A i \in Job : i \notin On(n, c) => job'[i] = job[i]
         /\ \A i \in On(n, c) : /\ job'[i] # None /\ job'[i].node = n
                                /\ job'[i].msg = job[i].msg
                                /\ i = j => job'[i].at = l
                                /\ i # j => job'[i].at = job[i].at
         /\ \A d : Serving(d)' = Serving(d)
         /\ \A k : \A d : On(k, d)' = On(k, d)
<1> DEFINE u == Unlinked(n, c, kind)
           v(i) == [job[i] EXCEPT !.open = @ \ {kind}]
           w == [u[j] EXCEPT !.at = l]
<1>1. TypeOK /\ j \in On(n, c)
  BY DEF ChunksInv, On
<1>2. ASSUME NEW i \in On(n, c)
      PROVE  /\ i \in Job /\ job[i] # None /\ job[i] \in Goroutine
             /\ job[i].node = n /\ job[i].msg.chunk = c
  BY <1>1, <1>2, GoroutineType DEF On
<1>3. ASSUME NEW i \in On(n, c)
      PROVE  /\ v(i) \in Goroutine /\ v(i).node = n /\ v(i).msg = job[i].msg
             /\ v(i).at = job[i].at
  BY <1>2, <1>3 DEF Goroutine
<1>4. \A i \in Job : u[i] = IF i \in On(n, c) THEN v(i) ELSE job[i]
  BY DEF Unlinked
<1>5. u[j] \in Goroutine /\ u[j].node = n /\ u[j].msg = job[j].msg
  BY <1>1, <1>3, <1>4
<1>6. w \in Goroutine /\ w.node = n /\ w.msg = job[j].msg /\ w.at = l
  BY <1>5 DEF Goroutine, BusyPc
<1>7. \A i \in Job : job'[i] = IF i = j THEN w ELSE u[i]
  BY DEF Unlinked
<1> HIDE DEF u, v, w
<1>8. \A i \in Job : i \notin On(n, c) => job'[i] = job[i]
  BY <1>1, <1>4, <1>7
<1>9. ASSUME NEW i \in On(n, c)
      PROVE  /\ job'[i] # None /\ job'[i].node = n /\ job'[i].msg = job[i].msg
             /\ i = j => job'[i].at = l
             /\ i # j => job'[i].at = job[i].at
  <2>1. CASE i = j
    <3>1. job'[i] = w
      BY <1>2, <1>7, <2>1
    <3>2. w # None /\ w.node = n /\ w.msg = job[i].msg /\ w.at = l
      BY <1>6, <2>1, NoneAssumption
    <3>3. QED
      BY <2>1, <3>1, <3>2
  <2>2. CASE i # j
    <3>1. job'[i] = v(i) /\ v(i) \in Goroutine
      BY <1>2, <1>3, <1>4, <1>7, <1>9, <2>2
    <3>2. QED
      BY <1>3, <1>9, <2>2, <3>1, NoneAssumption
  <2>3. QED
    BY <2>1, <2>2
<1>10. \A i \in Job : /\ job'[i] = None <=> job[i] = None
                      /\ job[i] # None => job'[i].node = job[i].node
                                          /\ job'[i].msg = job[i].msg
  BY <1>2, <1>8, <1>9
<1>11. ASSUME NEW d
       PROVE  Serving(d)' = Serving(d)
  BY <1>10 DEF Serving
<1>12. ASSUME NEW k, NEW d
       PROVE  On(k, d)' = On(k, d)
  BY <1>10 DEF On
<1>13. QED
  BY <1>8, <1>9, <1>11, <1>12

LEMMA UnlinkStays ==
  ASSUME ChunksInv, NEW j \in Job, RemoveMeta(j) \/ RemoveData(j)
  PROVE  \A d \in Chunk \ crossed' : ChunkOK(d)'
<1> USE DEF files, history, Local
<1>1. job[j] # None /\ job[j].at \in DeletePc
  BY DEF RemoveMeta, RemoveData, At, DeletePc
<1> DEFINE g == job[j]
<1>2. PICK c : c = job[j].msg.chunk
  OBVIOUS
<1>3. PICK n : n = job[j].node
  OBVIOUS
<1>4. TypeOK /\ c \in Chunk /\ n \in Node
  BY <1>1, <1>2, <1>3, Facts
<1>5. PICK kind \in {"meta", "data"}, l \in {"removeData", "passDelete"} :
        /\ job' = [Unlinked(n, c, kind) EXCEPT ![j].at = l]
        /\ RemoveMeta(j) => l = "removeData"
        /\ RemoveData(j) => l = "passDelete"
  BY <1>2, <1>3 DEF RemoveMeta, RemoveData, At
<1>6. l \in DeletePc
  BY DEF DeletePc
<1>7. /\ \A i \in Job : i \notin On(n, c) => job'[i] = job[i]
      /\ \A i \in On(n, c) : /\ job'[i] # None /\ job'[i].node = n
                             /\ job'[i].msg = job[i].msg
                             /\ i = j => job'[i].at = l
                             /\ i # j => job'[i].at = job[i].at
      /\ \A d : Serving(d)' = Serving(d)
      /\ \A k : \A d : On(k, d)' = On(k, d)
  <2>1. job[j] # None /\ n = job[j].node /\ c = job[j].msg.chunk
        /\ job' = [Unlinked(n, c, kind) EXCEPT ![j].at = l]
    BY <1>1, <1>2, <1>3, <1>5
  <2>2. \A i \in Job : i \notin On(n, c) => job'[i] = job[i]
    BY <1>6, <2>1, UnlinkShape
  <2>3. \A i \in On(n, c) : /\ job'[i] # None /\ job'[i].node = n
                            /\ job'[i].msg = job[i].msg
                            /\ i = j => job'[i].at = l
                            /\ i # j => job'[i].at = job[i].at
    BY <1>6, <2>1, UnlinkShape
  <2>4. \A d : Serving(d)' = Serving(d)
    BY <1>6, <2>1, UnlinkShape
  <2>5. \A k : \A d : On(k, d)' = On(k, d)
    BY <1>6, <2>1, UnlinkShape
  <2>6. QED
    BY <2>2, <2>3, <2>4, <2>5
<1>8. /\ UNCHANGED <<doomed, ended, crossed, answered, mail>>
      /\ \A k \in Node, d \in Chunk : k # n \/ d # c =>
           meta'[k][d] = meta[k][d] /\ data'[k][d] = data[k][d]
      /\ RemoveMeta(j) => meta'[n][c] = "none" /\ data'[n][c] = data[n][c]
      /\ RemoveData(j) => data'[n][c] = "none" /\ meta'[n][c] = meta[n][c]
  <2>1. CASE RemoveMeta(j)
    BY <1>2, <1>3, <1>4, <2>1 DEF RemoveMeta, RemoveData, At, TypeOK
  <2>2. CASE RemoveData(j)
    BY <1>2, <1>3, <1>4, <2>2 DEF RemoveMeta, RemoveData, At, TypeOK
  <2>3. QED
    BY <2>1, <2>2
<1>9. j \in On(n, c) /\ j \in Serving(c)
  BY <1>1, <1>2, <1>3 DEF On, Serving
<1>10. \A d : MailFor(d)' = MailFor(d)
  BY <1>8 DEF MailFor
<1>11. ASSUME NEW d \in Chunk \ crossed', d # c
       PROVE  ChunkOK(d)'
  <2>1. \A i \in Serving(d) : i \in Job /\ i \notin On(n, c)
    BY <1>11 DEF Serving, On
  <2>2. Elsewhere(d)
    BY <1>7, <1>8, <1>10, <1>11, <2>1 DEF Elsewhere
  <2>3. QED
    BY <1>4, <1>8, <1>11, <2>2, ElsewhereStays DEF ChunksInv
<1>12. ASSUME c \notin crossed
       PROVE  ChunkOK(c)'
  <2>1. ChunkOK(c) /\ Deletes(c)
    BY <1>1, <1>4, <1>9, <1>12 DEF ChunksInv, ChunkOK, OneKind, Stores
  <2>2. \A i \in Serving(c) : i \in Job /\ job[i].at \in DeletePc
                              /\ job'[i].at \in DeletePc
    BY <1>6, <1>7, <2>1 DEF Deletes, Serving
  <2>3. Deletes(c)' /\ OneKind(c)'
    BY <1>7, <1>10, <2>1, <2>2 DEF Deletes, OneKind
  <2>4. ASSUME NEW k \in Node \ ended', k # n
        PROVE  FilesOK(k, c)'
    <3>1. \A i \in On(k, c) : i \in Job /\ i \notin On(n, c)
      BY <2>4 DEF On
    <3>2. FilesOK(k, c)
      BY <1>8, <2>1, <2>4 DEF ChunkOK
    <3>3. QED
      BY <1>4, <1>7, <1>8, <2>4, <3>1, <3>2, FilesThere
  <2>5. ASSUME n \notin ended'
        PROVE  FilesOK(n, c)'
    <3>1. FilesOK(n, c)
      BY <1>4, <1>8, <2>1, <2>5 DEF ChunkOK
    <3>2. On(n, c) \subseteq Serving(c)
      BY DEF On, Serving
    <3>3. \A i \in On(n, c) : job'[i].at \notin {"writeMeta", "createData", "copy"}
      BY <2>2, <3>2 DEF DeletePc
    <3>4. meta'[n][c] = "none"
      BY <1>8, <1>9, <3>1 DEF RemoveMeta, RemoveData, FilesOK, At, DeletePc
    <3>5. data'[n][c] # "none" => RemoveMeta(j)
      BY <1>8
    <3>6. RemoveMeta(j) => At(j, "removeData")'
      BY <1>5, <1>7, <1>9 DEF At
    <3>7. QED
      BY <1>7, <1>9, <3>3, <3>4, <3>5, <3>6 DEF FilesOK, At
  <2>6. DeleteOK(c)'
    <3>1. SUFFICES ASSUME ended' = {}, doomed'[c] # {}, NEW k \in doomed'[c],
                          meta'[k][c] # "none"
                   PROVE  Pending(c, k)'
      BY <2>3 DEF DeleteOK
    <3>2. k \in Node
      BY <1>4, <1>8 DEF TypeOK
    <3>3. Pending(c, k)
      <4>1. meta[k][c] # "none"
        BY <1>4, <1>8, <3>1, <3>2
      <4>2. ended = {} /\ doomed[c] # {} /\ k \in doomed[c]
        BY <1>8, <3>1
      <4>3. QED
        BY <2>1, <4>1, <4>2 DEF ChunkOK, DeleteOK
    <3>4. \A i \in Serving(c) : job'[i].msg = job[i].msg
      BY <1>7 DEF Serving
    <3>5. CASE \E m \in MailFor(c) : k = m.to \/ k \in Entries(m.replicas)
      BY <1>10, <3>5 DEF Pending
    <3>6. ASSUME NEW i \in Serving(c), job[i].node = k, At(i, "removeMeta")
          PROVE  Pending(c, k)'
      <4>1. i # j
        BY <1>3, <1>8, <3>1, <3>6 DEF RemoveData, At
      <4>2. At(i, "removeMeta")' /\ job'[i].node = k
        <5>1. i \in Job /\ job[i] # None /\ job[i].at = "removeMeta"
          BY <3>6 DEF At, Serving
        <5>2. CASE i \in On(n, c)
          <6>1. job'[i] # None /\ job'[i].node = n /\ job'[i].at = job[i].at
            BY <1>7, <4>1, <5>2
          <6>2. n = k
            BY <3>6, <5>2 DEF On
          <6>3. QED
            BY <5>1, <6>1, <6>2 DEF At
        <5>3. CASE i \notin On(n, c)
          <6>1. job'[i] = job[i]
            BY <1>7, <5>1, <5>3
          <6>2. QED
            BY <3>6, <5>1, <6>1 DEF At
        <5>4. QED
          BY <5>2, <5>3
      <4>3. QED
        BY <1>7, <3>6, <4>2 DEF Pending
    <3>7. ASSUME NEW i \in Serving(c), job[i].at \in DeletePc \ {"uncount"},
                 k \in Entries(job[i].msg.replicas)
          PROVE  Pending(c, k)'
      <4>1. job'[i].at \in DeletePc \ {"uncount"}
        BY <1>7, <3>7 DEF Serving, DeletePc
      <4>2. k \in Entries(job[i].msg.replicas)'
        BY <3>4, <3>7 DEF Entries
      <4>3. QED
        BY <1>7, <3>7, <4>1, <4>2 DEF Pending
    <3>8. QED
      BY <3>3, <3>5, <3>6, <3>7 DEF Pending
  <2>7. ServedOK(c)'
    <3>1. \A i \in Serving(c)' : job'[i].at \notin {"load", "validate", "reply", "send"}
      BY <1>7, <2>2 DEF DeletePc
    <3>2. QED
      BY <1>7, <1>8, <1>9, <1>10, <2>1, <3>1 DEF ChunkOK, ServedOK, At
  <2>8. QED
    BY <1>4, <2>3, <2>4, <2>5, <2>6, <2>7 DEF ChunkOK
<1>13. QED
  BY <1>8, <1>11, <1>12

\* What a list names is its first or one of the others.
LEMMA RestEntries ==
  ASSUME NEW s \in Seq(Node), s # <<>>, NEW i \in DOMAIN s
  PROVE  s[i] = Head(s) \/ s[i] \in Entries(Tail(s))
<1>1. CASE i = 1
  BY <1>1
<1>2. CASE i # 1
  <2>1. i - 1 \in DOMAIN Tail(s) /\ s[i] = Tail(s)[i - 1]
    BY <1>2
  <2>2. QED
    BY <2>1 DEF Entries
<1>3. QED
  BY <1>1, <1>2

LEMMA PassDeleteStays ==
  ASSUME ChunksInv, NEW j \in Job, PassDelete(j) \/ Uncount(j)
  PROVE  \A d \in Chunk \ crossed' : ChunkOK(d)'
<1> USE DEF files, history, Local
<1>1. job[j] # None /\ job[j].at \in {"passDelete", "uncount"}
  BY DEF PassDelete, Uncount, At
<1> DEFINE g == job[j]
           rest == g.msg.replicas
<1>2. PICK c : c = job[j].msg.chunk
  OBVIOUS
<1>3. /\ TypeOK /\ c \in Chunk /\ g.node \in Node /\ g \in Goroutine /\ GoroutineOK(g)
      /\ g.msg \in Message /\ rest \in Seq(Node)
  BY <1>1, <1>2, Facts
<1>4. UNCHANGED <<meta, data, doomed, ended, crossed, answered>>
  BY DEF PassDelete, Uncount
<1>5. g.at \in DeletePc /\ Awake(j) /\ j \in Serving(c) /\ ~g.asking
  BY <1>1, <1>2, <1>3 DEF DeletePc, ReadPc, Awake, At, Serving, GoroutineOK
<1>6. ASSUME NEW v, Moves(j, v), v # None => v.at \in {"passDelete", "uncount"},
             mail \subseteq mail',
             \A m \in mail' \ mail : m.chunk = c /\ m.type = "delete",
             ended = {} => \A i \in DOMAIN rest :
               \/ v # None /\ v.at = "passDelete" /\ rest[i] \in Entries(v.msg.replicas)
               \/ \E m \in mail' : m.chunk = c /\ rest[i] = m.to
               \/ g.at = "uncount"
      PROVE  \A d \in Chunk \ crossed' : ChunkOK(d)'
  <2>1. StepOn(c)
    BY <1>4, <1>6 DEF StepOn, MailFor
  <2>2. ASSUME c \notin crossed
        PROVE  ChunkOK(c)'
    <3>1. ChunkOK(c) /\ Deletes(c)
      BY <1>3, <1>5, <2>2 DEF ChunksInv, ChunkOK, OneKind, Stores
    <3>2. OneKind(c)' /\ Deletes(c)'
      BY <1>2, <1>3, <1>5, <1>6, <3>1, KindHere DEF ChunkOK, DeletePc
    <3>3. ASSUME NEW k \in Node \ ended'
          PROVE  FilesOK(k, c)'
      <4>1. g.at \notin {"writeMeta", "createData", "removeData"}
            /\ g.at \in DeletePc \ {"removeMeta"}
        BY <1>1 DEF DeletePc
      <4>2. FilesOK(k, c)
        BY <1>4, <3>1, <3>3 DEF ChunkOK
      <4>3. QED
        BY <1>2, <1>3, <1>4, <1>6, <4>1, <4>2, FilesHere
    <3>4. DeleteOK(c)'
      <4>1. SUFFICES ASSUME ended' = {}, doomed'[c] # {}, NEW k \in doomed'[c],
                            meta'[k][c] # "none"
                     PROVE  Pending(c, k)'
        BY <3>2 DEF DeleteOK
      <4>2. Pending(c, k)
        BY <1>4, <3>1, <4>1 DEF ChunkOK, DeleteOK
      <4>3. /\ \A i \in Job : job'[i] = IF i = j THEN v ELSE job[i]
            /\ \A i \in Serving(c) : i # j \/ v # None => i \in Serving(c)'
        BY <1>2, <1>3, <1>6, MoveShape
      <4>4. CASE \E m \in MailFor(c) : k = m.to \/ k \in Entries(m.replicas)
        BY <1>6, <4>4 DEF Pending, MailFor
      <4>5. ASSUME NEW i \in Serving(c), job[i].node = k, At(i, "removeMeta")
            PROVE  Pending(c, k)'
        <5>1. i # j
          BY <1>1, <4>5 DEF At
        <5>2. job'[i] = job[i] /\ i \in Serving(c)'
          BY <4>3, <4>5, <5>1 DEF Serving
        <5>3. QED
          BY <4>5, <5>2 DEF Pending, At
      <4>6. ASSUME NEW i \in Serving(c), job[i].at \in DeletePc \ {"uncount"},
                   k \in Entries(job[i].msg.replicas)
            PROVE  Pending(c, k)'
        <5>1. CASE i # j
          <6>1. job'[i] = job[i] /\ i \in Serving(c)'
            BY <4>3, <4>6, <5>1 DEF Serving
          <6>2. k \in Entries(job'[i].msg.replicas)
            BY <4>6, <6>1
          <6>3. QED
            BY <4>6, <6>1, <6>2 DEF Pending
        <5>2. CASE i = j
          <6>1. PICK x \in DOMAIN rest : k = rest[x]
            BY <4>6, <5>2 DEF Entries
          <6>2. CASE v # None /\ v.at = "passDelete" /\ k \in Entries(v.msg.replicas)
            <7>1. j \in Serving(c)' /\ job'[j] = v
              BY <1>5, <4>3, <6>2
            <7>2. job'[j].at \in DeletePc \ {"uncount"}
                  /\ k \in Entries(job'[j].msg.replicas)
              BY <6>2, <7>1 DEF DeletePc
            <7>3. QED
              BY <7>1, <7>2 DEF Pending
          <6>3. CASE \E m \in mail' : m.chunk = c /\ k = m.to
            BY <6>3 DEF Pending, MailFor
          <6>4. QED
            BY <1>4, <1>6, <4>1, <4>6, <5>2, <6>1, <6>2, <6>3
        <5>3. QED
          BY <5>1, <5>2
      <4>7. QED
        BY <4>2, <4>4, <4>5, <4>6 DEF Pending
    <3>5. ServesOK(j, v, c)
      BY <1>6 DEF ServesOK
    <3>6. ServedOK(c)'
      BY <1>2, <1>3, <1>4, <1>5, <1>6, <3>1, <3>5, ServedHere DEF ChunkOK
    <3>7. QED
      BY <3>2, <3>3, <3>4, <3>6 DEF ChunkOK
  <2>3. QED
    BY <1>2, <1>3, <1>4, <1>6, <2>1, <2>2, JobStays
<1>7. CASE PassDelete(j)
  <2>1. CASE rest # <<>> /\ Up(Head(rest))
    <3> DEFINE v == [g EXCEPT !.msg.replicas = Tail(rest)]
               out == Request("delete", g.msg.chunk, g.node, Head(rest), <<>>)
    <3>1. v.at = "passDelete" /\ v.node = g.node /\ v.msg.chunk = c
          /\ v.msg.replicas = Tail(rest) /\ v \in Goroutine
      BY <1>2, <1>3, <1>7, <2>1, FirstAndRest DEF PassDelete, At, Goroutine, Message
    <3>2. job' = [job EXCEPT ![j] = v] /\ mail' = mail \cup {out}
      BY <1>7, <2>1 DEF PassDelete
    <3>3. Moves(j, v)
      BY <1>1, <1>2, <3>1, <3>2 DEF Moves
    <3>4. out.chunk = c /\ out.type = "delete" /\ out.to = Head(rest)
      BY <1>2 DEF Request
    <3>5. \A i \in DOMAIN rest :
            rest[i] = Head(rest) \/ rest[i] \in Entries(Tail(rest))
      BY <1>3, <2>1, RestEntries
    <3>6. v # None
      BY <3>1, NoneAssumption
    <3> HIDE DEF v, out
    <3>7. QED
      BY <1>6, <3>1, <3>2, <3>3, <3>4, <3>5, <3>6
  <2>2. CASE ~(rest # <<>> /\ Up(Head(rest)))
    <3>1. Goto(j, "uncount") /\ "uncount" \in BusyPc /\ mail' = mail
      BY <1>7, <2>2 DEF PassDelete, BusyPc, DeletePc
    <3>2. PICK v \in Goroutine : Moves(j, v) /\ v.at = "uncount"
      BY <1>1, <3>1, GotoMoves
    <3>3. ended = {} => rest = <<>>
      BY <1>3, <2>2, FirstAndRest DEF ChunksInv, StatusOK
    <3>4. QED
      BY <1>6, <3>1, <3>2, <3>3
  <2>3. QED
    BY <2>1, <2>2
<1>8. CASE Uncount(j)
  <2>1. PICK v : Moves(j, v) /\ (v # None => g.asking)
    BY <1>1, <1>8, FinishMoves DEF Uncount
  <2>2. mail' = mail /\ g.at = "uncount"
    BY <1>8 DEF Uncount, At
  <2>3. QED
    BY <1>5, <1>6, <2>1, <2>2
<1>9. QED
  BY <1>7, <1>8

\* A dial that fails: the goroutine goes on as if the other process were down.  The
\* nodes that a delete does not get to are then no longer those it named.
LEMMA DialPlain ==
  ASSUME ChunksInv, NEW j \in Job, DialFails(j)
  PROVE  \A d \in Chunk \ crossed' : ChunkOK(d)'
<1> USE DEF files, history
<1> DEFINE g == job[j]
<1>1. /\ g # None /\ g.at \in {"passOn", "passDelete", "fetch", "reply"}
      /\ UNCHANGED <<meta, data, mail, answered, ended, crossed>>
      /\ g.at # "passDelete" => doomed' = doomed
      /\ g.at = "passDelete" => doomed' = [doomed EXCEPT ![g.msg.chunk] = {}]
  BY DEF DialFails, At
<1>2. PICK c : c = job[j].msg.chunk
  OBVIOUS
<1>3. TypeOK /\ c \in Chunk /\ g \in Goroutine
  BY <1>1, <1>2, Facts
<1>4. Awake(j) /\ Sends(j)
  BY <1>1 DEF Awake, At, Sends
<1>5. CASE g.at = "passOn"
  <2>1. Goto(j, "count") /\ "count" \in BusyPc
    BY <1>5 DEF DialFails, At, BusyPc, WritePc
  <2>2. PICK v \in Goroutine : Moves(j, v) /\ v.at = "count"
    BY <1>1, <2>1, GotoMoves
  <2>3. v.at \notin DeletePc \cup {"writeMeta", "createData", "copy"}
        /\ g.at \notin DeletePc \cup {"writeMeta", "createData"}
    BY <1>5, <2>2 DEF DeletePc
  <2>4. ServesOK(j, v, c)
    BY <2>2 DEF ServesOK
  <2>5. QED
    BY <1>1, <1>2, <1>4, <1>5, <2>2, <2>3, <2>4, PlainStays
<1>6. CASE g.at = "passDelete"
  <2>1. Goto(j, "uncount") /\ "uncount" \in BusyPc
    BY <1>6 DEF DialFails, At, BusyPc, DeletePc
  <2>2. PICK v \in Goroutine : Moves(j, v) /\ v.at = "uncount"
    BY <1>1, <2>1, GotoMoves
  <2>3. StepOn(c)
    BY <1>1, <1>2, <1>3, <1>6 DEF StepOn, MailFor, TypeOK
  <2>4. ASSUME c \notin crossed
        PROVE  ChunkOK(c)'
    <3>1. ChunkOK(c)
      BY <1>3, <2>4 DEF ChunksInv
    <3>2. OneKind(c)'
      BY <1>1, <1>2, <1>3, <1>6, <2>2, <3>1, KindHere DEF ChunkOK, DeletePc
    <3>3. ASSUME NEW k \in Node \ ended'
          PROVE  FilesOK(k, c)'
      <4>1. g.at \notin {"writeMeta", "createData", "removeData"}
            /\ g.at \in DeletePc \ {"removeMeta"}
        BY <1>6 DEF DeletePc
      <4>2. FilesOK(k, c)
        BY <1>1, <3>1, <3>3 DEF ChunkOK
      <4>3. QED
        BY <1>1, <1>2, <1>3, <2>2, <4>1, <4>2, FilesHere
    <3>4. DeleteOK(c)'
      BY <1>1, <1>2, <1>3, <1>6 DEF DeleteOK, TypeOK
    <3>5. ServesOK(j, v, c)
      BY <2>2 DEF ServesOK
    <3>6. ServedOK(c)'
      BY <1>1, <1>2, <1>3, <1>4, <2>2, <3>1, <3>5, ServedHere DEF ChunkOK
    <3>7. QED
      BY <3>2, <3>3, <3>4, <3>6 DEF ChunkOK
  <2>5. QED
    BY <1>1, <1>2, <1>3, <2>2, <2>3, <2>4, JobStays
<1>7. CASE g.at \in {"fetch", "reply"}
  <2>1. Finish(j) /\ g.at \in ReadPc \cup {"fetch"}
    BY <1>7 DEF DialFails, At, ReadPc
  <2>2. PICK v : Moves(j, v) /\ (v # None => v.at = "asked")
    BY <1>1, <2>1, FinishMoves
  <2>3. ServesOK(j, v, c) /\ (v # None => v.at \in ReadPc)
    BY <2>2 DEF ServesOK, ReadPc
  <2>4. UNCHANGED <<files, doomed, ended, crossed>>
    BY <1>1, <1>7
  <2>5. QED
    BY <1>1, <1>2, <1>4, <2>1, <2>2, <2>3, <2>4, ReadStays
<1>8. QED
  BY <1>1, <1>5, <1>6, <1>7

-----------------------------------------------------------------------------
(* The steps of the others, and of messages. *)

\* Heartbeats and restarts are about no chunk.
LEMMA IdleStays ==
  ASSUME ChunksInv, UNCHANGED <<files, job, mail, answered, doomed, ended, crossed>>
  PROVE  \A d \in Chunk \ crossed' : ChunkOK(d)'
<1>1. ASSUME NEW d \in Chunk \ crossed'
      PROVE  ChunkOK(d)'
  <2>1. MailFor(d)' = MailFor(d) /\ Serving(d)' = Serving(d)
    BY DEF MailFor, Serving
  <2>2. Elsewhere(d)
    BY <2>1 DEF Elsewhere, files
  <2>3. QED
    BY <2>2, ElsewhereStays DEF ChunksInv
<1>2. QED
  BY <1>1

LEMMA EndStays ==
  ASSUME ChunksInv, NEW n \in Node, NEW why, Exit(n, why),
         UNCHANGED <<files, answered, crossed>>
  PROVE  \A d \in Chunk \ crossed' : ChunkOK(d)'
BY ExitStays DEF ChunksInv

\* A damaged file is still there, and no longer whole.
LEMMA DamageStays ==
  ASSUME ChunksInv, NEW n \in Node, NEW c \in Chunk, Damage(n, c)
  PROVE  \A d \in Chunk \ crossed' : ChunkOK(d)'
<1>1. UNCHANGED <<meta, job, mail, answered, doomed, ended, crossed>>
  BY DEF Damage
<1>2. \A k \in Node, d \in Chunk :
        /\ data'[k][d] = "none" <=> data[k][d] = "none"
        /\ data[k][d] # "whole" => data'[k][d] # "whole"
  BY DEF Damage, ChunksInv, TypeOK
<1>3. ASSUME NEW d \in Chunk \ crossed'
      PROVE  ChunkOK(d)'
  <2>1. /\ MailFor(d)' = MailFor(d) /\ Serving(d)' = Serving(d)
        /\ \A k : On(k, d)' = On(k, d)
    BY <1>1 DEF MailFor, Serving, On
  <2>2. ChunkOK(d)
    BY <1>1 DEF ChunksInv
  <2>3. OneKind(d)'
    BY <1>1, <2>1, <2>2 DEF ChunkOK, OneKind, Deletes, Stores
  <2>4. ASSUME NEW k \in Node \ ended'
        PROVE  FilesOK(k, d)'
    <3>1. FilesOK(k, d)
      BY <1>1, <2>2 DEF ChunkOK
    <3>2. QED
      BY <1>1, <1>2, <2>1, <3>1 DEF FilesOK, At
  <2>5. DeleteOK(d)'
    <3>1. \A k : Pending(d, k)' <=> Pending(d, k)
      BY <1>1, <2>1 DEF Pending, At
    <3>2. QED
      BY <1>1, <2>1, <2>2, <3>1 DEF ChunkOK, DeleteOK, Deletes
  <2>6. ServedOK(d)'
    <3>1. \A j \in Serving(d) : job[j].node \in Node
      BY GoroutineType DEF ChunksInv, Serving
    <3>2. \A j \in Serving(d) : Alone(j, d)' <=> Alone(j, d)
      BY <1>1, <2>1 DEF Alone, At
    <3>3. QED
      BY <1>1, <1>2, <2>1, <2>2, <3>1, <3>2 DEF ChunkOK, ServedOK, At
  <2>7. QED
    BY <2>3, <2>4, <2>5, <2>6 DEF ChunkOK
<1>4. QED
  BY <1>3

\* A goroutine starts to serve a message.
LEMMA ReceiveShape ==
  ASSUME TypeOK, NEW j \in Job, NEW m, Receive(j, m)
  PROVE  /\ m \in mail /\ MessageOK(m) /\ m.to \in Node /\ m.chunk \in Chunk
         /\ job[j] = None /\ \A i \in Job \ {j} : job'[i] = job[i]
         /\ job'[j] # None /\ job'[j].at = FirstStep[m.type] /\ job'[j].msg = m
         /\ job'[j].node = m.to /\ job'[j].reader = m.from /\ ~job'[j].asking
         /\ mail' = mail \ {m}
<1> DEFINE v == [at |-> FirstStep[m.type], node |-> m.to, msg |-> m,
                 reader |-> m.from, loaded |-> "none", sum |-> FALSE,
                 asking |-> FALSE, open |-> {}]
<1>1. m \in mail /\ MessageOK(m) /\ m.to \in Node /\ m.chunk \in Chunk
  BY DEF TypeOK, Receive, MessageOK, Message
<1>2. v \in Goroutine
  BY <1>1, FirstStepType DEF Goroutine, MessageOK, Message, DataFile
<1>3. /\ v.at = FirstStep[m.type] /\ v.msg = m /\ v.node = m.to
      /\ v.reader = m.from /\ ~v.asking
  OBVIOUS
<1>4. job' = [job EXCEPT ![j] = v] /\ job[j] = None /\ mail' = mail \ {m}
  BY DEF Receive
<1> HIDE DEF v
<1>5. job'[j] = v /\ \A i \in Job \ {j} : job'[i] = job[i]
  BY <1>4 DEF TypeOK
<1>6. QED
  BY <1>1, <1>2, <1>3, <1>4, <1>5, NoneAssumption

LEMMA ReceiveStays ==
  ASSUME ChunksInv, NEW j \in Job, NEW m, Receive(j, m)
  PROVE  \A d \in Chunk \ crossed' : ChunkOK(d)'
<1> USE DEF files, history
<1>1. TypeOK
  BY DEF ChunksInv
<1>2. PICK c : c = m.chunk
  OBVIOUS
<1>3. /\ m \in MailFor(c) /\ MessageOK(m) /\ m.to \in Node /\ c \in Chunk
      /\ job[j] = None /\ \A i \in Job \ {j} : job'[i] = job[i]
      /\ mail' = mail \ {m}
  BY <1>1, <1>2, ReceiveShape DEF MailFor
<1>4. /\ job'[j] # None /\ job'[j].at = FirstStep[m.type] /\ job'[j].msg = m
      /\ job'[j].node = m.to /\ job'[j].reader = m.from /\ ~job'[j].asking
  BY <1>1, ReceiveShape
<1>5. UNCHANGED <<meta, data, answered, doomed, ended, crossed>>
  BY DEF Receive
<1>6. \A d : d # c => MailFor(d)' = MailFor(d) /\ Serving(d)' = Serving(d)
  BY <1>2, <1>3, <1>4 DEF MailFor, Serving
<1>7. MailFor(c)' = MailFor(c) \ {m} /\ Serving(c)' = Serving(c) \cup {j}
      /\ j \notin Serving(c)
  BY <1>2, <1>3, <1>4 DEF MailFor, Serving
<1>8. \A d : \A i \in Serving(d) : job'[i] = job[i]
  BY <1>3 DEF Serving
<1>9. ASSUME NEW d \in Chunk \ crossed', d # c
      PROVE  ChunkOK(d)'
  <2>1. Elsewhere(d)
    BY <1>5, <1>6, <1>8, <1>9 DEF Elsewhere
  <2>2. QED
    BY <1>1, <1>5, <1>9, <2>1, ElsewhereStays DEF ChunksInv
<1>10. ASSUME c \notin crossed
       PROVE  ChunkOK(c)'
  <2>1. ChunkOK(c)
    BY <1>3, <1>10 DEF ChunksInv
  <2>2. /\ job'[j].at \in {"createMeta", "removeMeta", "load", "fetch"}
        /\ job'[j].at = "removeMeta" <=> m.type = "delete"
        /\ job'[j].at = "load" <=> m.type = "read"
    BY <1>3, <1>4, FirstStepType
  <2>3. /\ Deletes(c) => Deletes(c)' /\ m.type = "delete"
        /\ Stores(c) => Stores(c)'
    BY <1>3, <1>7, <1>8, <2>2 DEF Deletes, Stores, DeletePc
  <2>4. ASSUME NEW k \in Node \ ended'
        PROVE  FilesOK(k, c)'
    <3>1. FilesOK(k, c)
      BY <1>5, <2>1, <2>4 DEF ChunkOK
    <3>2. /\ \A i \in On(k, c) : i \in On(k, c)' /\ job'[i] = job[i]
          /\ \A i \in On(k, c)' : i = j \/ (i \in On(k, c) /\ job'[i] = job[i])
      BY <1>3 DEF On
    <3>3. job'[j].at \notin {"writeMeta", "createData", "copy", "removeData"}
          /\ job'[j].at \notin DeletePc \ {"removeMeta"}
      BY <2>2 DEF DeletePc
    <3>4. ASSUME NEW l \in {"writeMeta", "createData", "removeData"},
                 \E i \in On(k, c) : At(i, l)
          PROVE  \E i \in On(k, c)' : At(i, l)'
      BY <3>2, <3>4 DEF At
    <3>5. \A i \in On(k, c)', l \in {"writeMeta", "createData", "copy"} :
            At(i, l)' => i \in On(k, c) /\ At(i, l) /\ job'[i] = job[i]
      BY <3>2, <3>3 DEF At
    <3>6. \A i \in On(k, c)' : job'[i].at \in DeletePc \ {"removeMeta"} =>
                                 i \in On(k, c) /\ job'[i] = job[i]
      BY <3>2, <3>3
    <3>7. QED
      BY <1>5, <3>1, <3>4, <3>5, <3>6 DEF FilesOK
  <2>5. ASSUME NEW k, Pending(c, k), m.type = "delete"
        PROVE  Pending(c, k)'
    <3>1. ASSUME NEW x \in MailFor(c), k = x.to \/ k \in Entries(x.replicas)
          PROVE  Pending(c, k)'
      <4>1. CASE x # m
        BY <1>7, <3>1, <4>1 DEF Pending
      <4>2. CASE x = m
        <5>1. j \in Serving(c)' /\ At(j, "removeMeta")'
          BY <1>4, <1>7, <2>2, <2>5 DEF At
        <5>2. CASE k = m.to
          BY <1>4, <5>1, <5>2 DEF Pending
        <5>3. CASE k \in Entries(m.replicas)
          <6>1. job'[j].at \in DeletePc \ {"uncount"}
            BY <5>1 DEF At, DeletePc
          <6>2. k \in Entries(job'[j].msg.replicas)
            BY <1>4, <5>3
          <6>3. QED
            BY <5>1, <6>1, <6>2 DEF Pending
        <5>4. QED
          BY <3>1, <4>2, <5>2, <5>3
      <4>3. QED
        BY <4>1, <4>2
    <3>2. ASSUME NEW i \in Serving(c), job[i].node = k, At(i, "removeMeta")
          PROVE  Pending(c, k)'
      BY <1>7, <1>8, <3>2 DEF Pending, At
    <3>3. ASSUME NEW i \in Serving(c), job[i].at \in DeletePc \ {"uncount"},
                 k \in Entries(job[i].msg.replicas)
          PROVE  Pending(c, k)'
      <4>1. i \in Serving(c)' /\ job'[i] = job[i]
        BY <1>7, <1>8, <3>3
      <4>2. k \in Entries(job'[i].msg.replicas)
        BY <3>3, <4>1
      <4>3. QED
        BY <3>3, <4>1, <4>2 DEF Pending
    <3>4. QED
      BY <2>5, <3>1, <3>2, <3>3 DEF Pending
  <2>6. DeleteOK(c)'
    BY <1>5, <2>1, <2>3, <2>5 DEF ChunkOK, DeleteOK
  <2>7. ServedOK(c)'
    <3>1. SUFFICES ASSUME Prompt PROVE ServedOK(c)'
      BY DEF ServedOK
    <3>2. \A x \in MailFor(c)' : ~(x.type = "read" /\ x.from = Client)
      BY <1>3, <1>7, <2>1, <3>1 DEF ChunkOK, ServedOK
    <3>3. ASSUME NEW i \in Serving(c), job[i].reader = Client
          PROVE  job[i].at \notin {"load", "validate"}
      BY <1>3, <2>1, <3>1, <3>3 DEF ChunkOK, ServedOK, Alone
    <3>4. ASSUME m.type = "read", m.from = Client
          PROVE  Alone(j, c)'
      <4>1. MailFor(c)' = {} /\ Serving(c)' = {j}
        BY <1>3, <1>7, <2>1, <3>1, <3>4 DEF ChunkOK, ServedOK
      <4>2. QED
        BY <1>4, <4>1 DEF Alone
    <3>5. ASSUME NEW i \in Serving(c)', job'[i].reader = Client
          PROVE  /\ job'[i].at \in {"load", "validate"} => Alone(i, c)'
                 /\ ~At(i, "validate")'
                 /\ job'[i].at \in {"reply", "send"} => job'[i].loaded = "whole"
      <4>1. CASE i = j
        BY <1>4, <2>2, <3>4, <3>5, <4>1 DEF At
      <4>2. CASE i # j
        BY <1>7, <1>8, <2>1, <3>1, <3>3, <3>5, <4>2 DEF ChunkOK, ServedOK, At
      <4>3. QED
        BY <4>1, <4>2
    <3>6. QED
      BY <1>5, <2>1, <3>1, <3>2, <3>5 DEF ChunkOK, ServedOK
  <2>8. QED
    BY <2>1, <2>3, <2>4, <2>6, <2>7 DEF ChunkOK, OneKind
<1>11. QED
  BY <1>2, <1>5, <1>9, <1>10

\* The controller's answer to a node that looks for replicas is no delete.
LEMMA LookupStays ==
  ASSUME ChunksInv, NEW m \in mail, Lookup(m)
  PROVE  \A d \in Chunk \ crossed' : ChunkOK(d)'
<1> USE DEF files, history
<1>1. TypeOK /\ MessageOK(m) /\ m.chunk \in Chunk /\ m.type = "lookup"
  BY DEF ChunksInv, TypeOK, MessageOK, Message, Lookup
<1>2. PICK c : c = m.chunk
  OBVIOUS
<1>3. PICK out : /\ out.type = "replica" /\ out.chunk = c
                 /\ \/ mail' = mail \ {m}
                    \/ mail' = (mail \ {m}) \cup {out}
  <2>1. PICK s \in Orders(located[m.chunk] \ {m.from}) :
          mail' = (mail \ {m}) \cup
                    IF Up(m.from)
                    THEN {Request("replica", m.chunk, Controller, m.from, s)}
                    ELSE {}
    BY DEF Lookup
  <2> DEFINE r == Request("replica", m.chunk, Controller, m.from, s)
  <2>2. r.type = "replica" /\ r.chunk = c
    BY <1>2 DEF Request
  <2>3. mail' = mail \ {m} \/ mail' = (mail \ {m}) \cup {r}
    BY <2>1
  <2>4. QED
    BY <2>2, <2>3
<1>4. UNCHANGED <<meta, data, job, answered, doomed, ended, crossed>>
  BY DEF Lookup
<1>5. \A d : Serving(d)' = Serving(d) /\ \A k : On(k, d)' = On(k, d)
  BY <1>4 DEF Serving, On
<1>6. \A d : d # c => MailFor(d)' = MailFor(d)
  BY <1>2, <1>3 DEF MailFor
<1>7. m \in MailFor(c) /\ \A x \in MailFor(c)' : x \in MailFor(c) \/ x.type = "replica"
  BY <1>2, <1>3 DEF MailFor
<1>8. ASSUME NEW d \in Chunk \ crossed', d # c
      PROVE  ChunkOK(d)'
  <2>1. Elsewhere(d)
    BY <1>4, <1>5, <1>6, <1>8 DEF Elsewhere
  <2>2. QED
    BY <1>1, <1>4, <1>8, <2>1, ElsewhereStays DEF ChunksInv
<1>9. ASSUME c \in Chunk, c \notin crossed
      PROVE  ChunkOK(c)'
  <2>1. ChunkOK(c) /\ Stores(c) /\ ~Deletes(c)
    BY <1>1, <1>7, <1>9 DEF ChunksInv, ChunkOK, OneKind, Deletes
  <2>2. OneKind(c)'
    BY <1>4, <1>5, <1>7, <2>1 DEF OneKind, Stores
  <2>3. \A k \in Node \ ended' : FilesOK(k, c)'
    BY <1>4, <1>5, <2>1 DEF ChunkOK, FilesOK, At
  <2>4. DeleteOK(c)'
    BY <1>4, <2>1 DEF ChunkOK, DeleteOK
  <2>5. ASSUME Prompt
        PROVE  ServedOK(c)'
    <3>1. \A x \in MailFor(c)' : ~(x.type = "read" /\ x.from = Client)
      BY <1>1, <1>7, <2>1, <2>5 DEF ChunkOK, ServedOK
    <3>2. \A j \in Serving(c) :
            job[j].reader = Client => job[j].at \notin {"load", "validate"}
      BY <1>7, <2>1, <2>5 DEF ChunkOK, ServedOK, Alone
    <3>3. QED
      BY <1>4, <1>5, <2>1, <2>5, <3>1, <3>2 DEF ChunkOK, ServedOK, At
  <2>6. QED
    BY <2>2, <2>3, <2>4, <2>5 DEF ChunkOK, ServedOK
<1>10. QED
  BY <1>1, <1>2, <1>4, <1>8, <1>9

\* A request that crosses no other is all that goes on for its chunk.
LEMMA RequestStays ==
  ASSUME ChunksInv, NEW c \in Chunk, NEW kind, New(kind, c), NEW out, NEW S,
         mail' = mail \/ mail' = mail \cup {out}, out.chunk = c,
         doomed' = [doomed EXCEPT ![c] = S],
         S # {} => out.type = "delete",
         ended = {} => \A k \in S :
           out \in mail' /\ (k = out.to \/ k \in Entries(out.replicas)),
         UNCHANGED <<files, job, answered, ended>>
  PROVE  \A d \in Chunk \ crossed' : ChunkOK(d)'
<1>1. /\ TypeOK /\ meta' = meta /\ data' = data
      /\ crossed' = IF Quiet(c) THEN crossed ELSE crossed \cup {c}
  BY DEF ChunksInv, files, New
<1>2. \A d : Serving(d)' = Serving(d) /\ \A k : On(k, d)' = On(k, d)
  BY DEF Serving, On
<1>3. \A d : d # c => MailFor(d)' = MailFor(d)
  BY DEF MailFor
<1>4. ASSUME NEW d \in Chunk \ crossed', d # c
      PROVE  ChunkOK(d)'
  <2>1. doomed'[d] = doomed[d]
    BY <1>1, <1>4 DEF TypeOK
  <2>2. Elsewhere(d)
    BY <1>1, <1>2, <1>3, <1>4, <2>1 DEF Elsewhere
  <2>3. QED
    BY <1>1, <1>4, <2>2, ElsewhereStays DEF ChunksInv
<1>5. ASSUME c \notin crossed'
      PROVE  ChunkOK(c)'
  <2>1. Quiet(c) /\ ChunkOK(c)
    BY <1>1, <1>5 DEF ChunksInv
  <2>2. MailFor(c) = {} /\ MailFor(c)' \subseteq {out}
    BY <2>1 DEF Quiet, MailFor
  <2>3. Serving(c)' = {}
    <3>1. \A i \in Serving(c) : job[i].node \in Node /\ i \in On(job[i].node, c)
      BY <1>1, GoroutineType DEF Serving, On
    <3>2. QED
      BY <1>2, <2>1, <3>1 DEF Quiet
  <2>4. OneKind(c)' /\ (out.type = "delete" => Deletes(c)')
    BY <2>2, <2>3 DEF OneKind, Deletes, Stores
  <2>5. \A k \in Node \ ended' : FilesOK(k, c)'
    BY <1>1, <1>2, <2>1 DEF ChunkOK, FilesOK, At
  <2>6. DeleteOK(c)'
    <3>1. doomed'[c] = S
      BY <1>1 DEF TypeOK
    <3>2. out \in mail' => out \in MailFor(c)'
      BY DEF MailFor
    <3>3. QED
      BY <2>4, <3>1, <3>2 DEF DeleteOK, Pending
  <2>7. ServedOK(c)'
    <3>1. \A x \in MailFor(c)' : MailFor(c)' = {x}
      BY <2>2
    <3>2. QED
      BY <2>1, <2>3, <3>1 DEF ChunkOK, ServedOK
  <2>8. QED
    BY <1>1, <2>1, <2>4, <2>5, <2>6, <2>7 DEF ChunkOK
<1>6. QED
  BY <1>4, <1>5

LEMMA RequestsStay ==
  ASSUME ChunksInv, NEW c \in Chunk, Requests(c)
  PROVE  \A d \in Chunk \ crossed' : ChunkOK(d)'
<1> USE DEF files, history
<1>1. ASSUME NEW s, ClientWrite(c, s)
      PROVE  \A d \in Chunk \ crossed' : ChunkOK(d)'
  <2> DEFINE out == [Request("write", c, Client, Head(s), Tail(s))
                       EXCEPT !.data = "whole", !.sum = TRUE]
  <2>1. out.chunk = c /\ mail' = mail \cup {out} /\ New("write", c)
        /\ doomed' = [doomed EXCEPT ![c] = {}]
        /\ UNCHANGED <<files, job, answered, ended>>
    BY <1>1 DEF ClientWrite, Request
  <2> HIDE DEF out
  <2>2. QED
    BY <2>1, RequestStays
<1>2. ASSUME NEW s, ControllerDelete(c, s)
      PROVE  \A d \in Chunk \ crossed' : ChunkOK(d)'
  <2> DEFINE out == Request("delete", c, Controller, Head(s), Tail(s))
  <2>1. s \in Seq(Node) /\ s # <<>>
    BY <1>2, OrderIsList DEF ControllerDelete, ChunksInv, TypeOK
  <2>2. /\ out.chunk = c /\ out.type = "delete" /\ out.to = Head(s)
        /\ out.replicas = Tail(s)
    BY DEF Request
  <2>3. /\ New("delete", c) /\ doomed' = [doomed EXCEPT ![c] = Entries(s)]
        /\ UNCHANGED <<files, job, answered, ended>>
        /\ IF Up(Head(s)) THEN mail' = mail \cup {out} ELSE mail' = mail
    BY <1>2 DEF ControllerDelete
  <2>4. ended = {} => Up(Head(s))
    BY <2>1, FirstAndRest DEF ChunksInv, StatusOK
  <2>5. \A k \in Entries(s) : k = Head(s) \/ k \in Entries(Tail(s))
    BY <2>1, RestEntries DEF Entries
  <2> HIDE DEF out
  <2>6. ended = {} => \A k \in Entries(s) :
          out \in mail' /\ (k = out.to \/ k \in Entries(out.replicas))
    BY <2>2, <2>3, <2>4, <2>5
  <2>7. QED
    BY <2>2, <2>3, <2>6, RequestStays
<1>3. ASSUME NEW n, NEW s, ControllerOrder(c, n, s)
      PROVE  \A d \in Chunk \ crossed' : ChunkOK(d)'
  <2> DEFINE out == Request("replica", c, Controller, n, s)
  <2>1. out.chunk = c /\ mail' = mail \cup {out} /\ New("order", c)
        /\ doomed' = [doomed EXCEPT ![c] = {}]
        /\ UNCHANGED <<files, job, answered, ended>>
    BY <1>3 DEF ControllerOrder, Request
  <2> HIDE DEF out
  <2>2. QED
    BY <2>1, RequestStays
<1>4. ASSUME NEW n, ClientRead(c, n)
      PROVE  \A d \in Chunk \ crossed' : ChunkOK(d)'
  <2> DEFINE out == Request("read", c, Client, n, <<>>)
  <2>1. out.chunk = c /\ mail' = mail \cup {out} /\ New("read", c)
        /\ doomed' = [doomed EXCEPT ![c] = {}]
        /\ UNCHANGED <<files, job, answered, ended>>
    BY <1>4 DEF ClientRead, Request
  <2> HIDE DEF out
  <2>2. QED
    BY <2>1, RequestStays
<1>5. QED
  BY <1>1, <1>2, <1>3, <1>4 DEF Requests

-----------------------------------------------------------------------------
(* Every step. *)

\* A step ends a process, or starts one again, or leaves all as they are.
LEMMA NextStatus ==
  ASSUME ChunksInv, Next
  PROVE  StatusOK'
<1> USE DEF files, history, Local
<1>1. ASSUME NEW n, NEW why, Exit(n, why)
      PROVE  StatusOK'
  BY <1>1 DEF ChunksInv, StatusOK, TypeOK, Exit, Up
<1>2. ASSUME UNCHANGED <<status, ended>>
      PROVE  StatusOK'
  BY <1>2 DEF ChunksInv, StatusOK, Up
<1>3. ASSUME NEW j \in Job, Save(j) \/ Remove(j) \/ Serve(j) \/ Ask(j)
      PROVE  StatusOK'
  <2>1. CASE RemoveFails(j) \/ ValidateFails(j) \/ FetchFails(j)
    BY <1>1, <2>1 DEF RemoveFails, ValidateFails, FetchFails, Fatal
  <2>2. CASE ~(RemoveFails(j) \/ ValidateFails(j) \/ FetchFails(j))
    <3>1. CASE Save(j) \/ Ask(j)
      BY <1>2, <3>1 DEF Save, CreateMeta, WriteMeta, CreateData, Copy, PassOn,
         Count, Ask
    <3>2. CASE Remove(j) \/ Serve(j)
      BY <1>2, <2>2, <3>2 DEF Remove, Serve, RemoveMeta, RemoveData, PassDelete,
         Uncount, Load, Validated, Corrupted, Reply, Send, Fetch
    <3>3. QED
      BY <1>3, <3>1, <3>2
  <2>3. QED
    BY <2>1, <2>2
<1>4. ASSUME NEW j \in Job, NEW m, Receive(j, m)
      PROVE  StatusOK'
  BY <1>2, <1>4 DEF Receive
<1>5. ASSUME NEW n \in Node, Heartbeat(n)
      PROVE  StatusOK'
  BY <1>1, <1>2, <1>5 DEF Heartbeat, BeatList, BeatRead, BeatFails, BeatSend
<1>6. ASSUME NEW m \in mail, Lookup(m)
      PROVE  StatusOK'
  BY <1>2, <1>6 DEF Lookup
<1>7. ASSUME NEW c \in Chunk, Requests(c)
      PROVE  StatusOK'
  BY <1>2, <1>7 DEF Requests, ClientWrite, ControllerDelete, ControllerOrder,
     ClientRead
<1>8. ASSUME NEW n \in Node, Restart(n)
      PROVE  StatusOK'
  BY <1>8 DEF Restart, ChunksInv, StatusOK, TypeOK, Up
<1>9. CASE Faults
  BY <1>1, <1>2, <1>8, <1>9 DEF Faults, Kill, Damage, CopyCut, AskFails,
     DialFails
<1>10. QED
  BY <1>3, <1>4, <1>5, <1>6, <1>7, <1>9 DEF Next

LEMMA NextChunks == ChunksInv /\ [Next]_vars => ChunksInv'
<1> SUFFICES ASSUME ChunksInv, [Next]_vars PROVE ChunksInv'
  OBVIOUS
<1> USE DEF files, history
<1>1. TypeOK'
  BY NextType DEF ChunksInv
<1>2. StatusOK'
  BY NextStatus DEF ChunksInv, StatusOK, Up, vars
<1>3. ASSUME NEW j \in Job, Save(j) \/ Remove(j) \/ Serve(j) \/ Ask(j)
      PROVE  \A d \in Chunk \ crossed' : ChunkOK(d)'
  <2>1. CASE RemoveFails(j) \/ ValidateFails(j) \/ FetchFails(j)
    <3>1. job[j].node \in Node
      BY <2>1, Facts DEF RemoveFails, ValidateFails, FetchFails, At
    <3>2. PICK why : Exit(job[j].node, why)
      BY <2>1 DEF RemoveFails, ValidateFails, FetchFails, Fatal
    <3>3. UNCHANGED <<files, answered, crossed>>
      BY <2>1 DEF RemoveFails, ValidateFails, FetchFails, Fatal
    <3>4. QED
      BY <3>1, <3>2, <3>3, EndStays
  <2>2. CASE Save(j)
    BY <2>2, CreateStays, SavePlain DEF Save
  <2>3. CASE Remove(j) /\ ~RemoveFails(j)
    BY <2>3, UnlinkStays, PassDeleteStays DEF Remove
  <2>4. CASE Serve(j) /\ ~ValidateFails(j) /\ ~FetchFails(j)
    BY <2>4, ServePlain DEF Serve
  <2>5. CASE Ask(j)
    BY <2>5, AskPlain
  <2>6. QED
    BY <1>3, <2>1, <2>2, <2>3, <2>4, <2>5
<1>4. ASSUME NEW n \in Node, Heartbeat(n)
      PROVE  \A d \in Chunk \ crossed' : ChunkOK(d)'
  <2>1. CASE \E c \in Chunk : BeatFails(n, c)
    BY <2>1, EndStays DEF BeatFails
  <2>2. CASE BeatList(n) \/ BeatSend(n) \/ \E c \in Chunk : BeatRead(n, c)
    BY <2>2, IdleStays DEF BeatList, BeatSend, BeatRead
  <2>3. QED
    BY <1>4, <2>1, <2>2 DEF Heartbeat
<1>5. ASSUME Faults
      PROVE  \A d \in Chunk \ crossed' : ChunkOK(d)'
  <2>1. ASSUME NEW n \in Node, Kill(n)
        PROVE  \A d \in Chunk \ crossed' : ChunkOK(d)'
    BY <2>1, EndStays DEF Kill
  <2>2. ASSUME NEW n \in Node, Restart(n)
        PROVE  \A d \in Chunk \ crossed' : ChunkOK(d)'
    BY <2>2, IdleStays DEF Restart
  <2>3. QED
    BY <1>5, <2>1, <2>2, DamageStays, SavePlain, AskPlain, DialPlain DEF Faults
<1>6. ASSUME UNCHANGED vars
      PROVE  \A d \in Chunk \ crossed' : ChunkOK(d)'
  BY <1>6, IdleStays DEF vars
<1>7. \A d \in Chunk \ crossed' : ChunkOK(d)'
  BY <1>3, <1>4, <1>5, <1>6, ReceiveStays, LookupStays, RequestsStay DEF Next
<1>8. QED
  BY <1>1, <1>2, <1>7 DEF ChunksInv

LEMMA InitChunks == Init => ChunksInv
<1> SUFFICES ASSUME Init PROVE ChunksInv
  OBVIOUS
<1>1. TypeOK /\ StatusOK
  BY InitType DEF Init, StatusOK, Up
<1>2. ASSUME NEW c \in Chunk
      PROVE  ChunkOK(c)
  <2>1. MailFor(c) = {} /\ Serving(c) = {} /\ \A n : On(n, c) = {}
    BY DEF Init, MailFor, Serving, On
  <2>2. OneKind(c) /\ DeleteOK(c) /\ ServedOK(c)
    BY <2>1 DEF Init, OneKind, Deletes, DeleteOK, ServedOK
  <2>3. \A n \in Node : FilesOK(n, c)
    BY <2>1 DEF Init, FilesOK
  <2>4. QED
    BY <2>2, <2>3 DEF ChunkOK
<1>3. QED
  BY <1>1, <1>2 DEF ChunksInv

LEMMA AlwaysChunks == Spec => []ChunksInv
BY InitChunks, NextChunks, PTL DEF Spec

-----------------------------------------------------------------------------
(* What follows. *)

\* The metadata file and the data file of a chunk go together on every node whose
\* process never ended and that is not at work on the chunk, however many copies
\* are stored, passed on, repaired and deleted, and wherever a sender is cut off:
\* saveChunkInfoToDisk and deleteChunkInfoFromDisk (storagenode.go:43-202) leave
\* both files or none, if requests for the chunk did not cross.
THEOREM FilesCorrect == Spec => []FilesAgree
<1>1. ASSUME ChunksInv, NEW n \in Node \ ended, NEW c \in Chunk \ crossed,
             On(n, c) = {}
      PROVE  IF meta[n][c] = "none" THEN data[n][c] = "none"
             ELSE meta[n][c] # "empty" /\ data[n][c] # "none"
  <2>1. FilesOK(n, c)
    BY <1>1 DEF ChunksInv, ChunkOK
  <2>2. QED
    BY <1>1, <2>1 DEF FilesOK
<1>2. ChunksInv => FilesAgree
  BY <1>1 DEF FilesAgree
<1>3. QED
  BY <1>2, AlwaysChunks, PTL

\* A delete gets to every node the controller named in it (storagenode.go:139-202):
\* as long as one of them still has the chunk, a message that names it is under
\* way, or a goroutine that has it on its list, unless a process ended, a node could
\* not be dialled or the next request came before.
THEOREM DeletesReach == Spec => []DeleteReaches
<1>1. ASSUME ChunksInv, NEW c \in Chunk \ crossed, Quiet(c), ended = {},
             NEW n \in doomed[c]
      PROVE  meta[n][c] = "none"
  <2>1. MailFor(c) = {} /\ Serving(c) = {}
    BY <1>1, GoroutineType DEF ChunksInv, Quiet, MailFor, Serving, On
  <2>2. meta[n][c] = "none" \/ Pending(c, n)
    BY <1>1 DEF ChunksInv, ChunkOK, DeleteOK
  <2>3. QED
    BY <2>1, <2>2 DEF Pending
<1>2. ChunksInv => DeleteReaches
  BY <1>1 DEF DeleteReaches
<1>3. QED
  BY <1>2, AlwaysChunks, PTL

\* A node never sends a client a chunk that it has not found whole, where repairs
\* are in time and requests for the chunk do not cross: nothing changes the file
\* between getChunkInfoFromDisk and ValidateFile (storagenode.go:382-395).
THEOREM ServedCorrect == Spec => []ServedWhole
<1>1. ChunksInv => ServedWhole
  BY DEF ChunksInv, ChunkOK, ServedOK, ServedWhole
<1>2. QED
  BY <1>1, AlwaysChunks, PTL

-----------------------------------------------------------------------------
(* While nothing is deleted: who has the chunk. *)

Holders(c) == {n \in Node : meta[n][c] # "none"}

\* Whoever is asked for a chunk, or is to be asked, has it.
MessageHeld(m) ==
  /\ m.type # "delete"
  /\ m.type \in {"read", "replica"} => Entries(m.replicas) \subseteq Holders(m.chunk)
  /\ m.type = "read" => m.to \in Holders(m.chunk)

GoroutineHeld(g) ==
  /\ g.at \notin DeletePc
  /\ g.at \in ReadPc \cup {"fetch"} =>
       Entries(g.msg.replicas) \subseteq Holders(g.msg.chunk)
  /\ g.at \in ReadPc => g.node \in Holders(g.msg.chunk)

\* What the controller knows, and what a heartbeat is going to tell it, is so.
ReportsHeld ==
  /\ \A c \in Chunk : located[c] \subseteq Holders(c)
  /\ \A n \in Node : beat[n] # None =>
       \A c \in beat[n].todo \cup beat[n].files : n \in Holders(c)

HeldInv == /\ \A m \in mail : MessageHeld(m)
           /\ \A j \in Job : job[j] # None => GoroutineHeld(job[j])
           /\ ReportsHeld

\* No chunk loses a holder.
HoldersStay == \A c \in Chunk : Holders(c) \subseteq Holders(c)'

\* Only a delete takes a metadata file away.
LEMMA HoldersKept ==
  ASSUME TypeOK, HeldInv, Next
  PROVE  HoldersStay
<1> USE DEF files, history, Local
<1>1. ASSUME NEW j \in Job, Remove(j)
      PROVE  FALSE
  BY <1>1 DEF HeldInv, GoroutineHeld, Remove, RemoveMeta, RemoveData, RemoveFails,
     PassDelete, Uncount, At, DeletePc
<1>2. ASSUME UNCHANGED meta
      PROVE  HoldersStay
  BY <1>2 DEF HoldersStay, Holders
<1>3. ASSUME NEW j \in Job, CreateMeta(j) \/ WriteMeta(j)
      PROVE  HoldersStay
  <2>1. job[j] # None /\ job[j].node \in Node
    BY <1>3, GoroutineType DEF CreateMeta, WriteMeta, At
  <2>2. PICK line \in {"empty", "sum", "blank", "garbled"} :
          meta' = meta \/ meta' = [meta EXCEPT ![job[j].node][job[j].msg.chunk] = line]
    BY <1>3, LineWritten DEF CreateMeta
  <2>3. ASSUME NEW n \in Node, NEW c \in Chunk
        PROVE  meta'[n][c] = meta[n][c] \/ meta'[n][c] = line
    <3>1. meta \in [Node -> [Chunk -> MetaFile]]
      BY DEF TypeOK
    <3>2. QED
      BY <2>1, <2>2, <3>1
  <2>4. QED
    BY <2>3 DEF HoldersStay, Holders
<1>4. ASSUME NEW j \in Job, Save(j) \/ Serve(j) \/ Ask(j)
      PROVE  HoldersStay
  BY <1>2, <1>3, <1>4 DEF Save, CreateData, Copy, PassOn, Count, Serve, Load,
     Validated, Corrupted, ValidateFails, Reply, Send, Fetch, FetchFails, Ask
<1>5. ASSUME NEW j \in Job, NEW m, Receive(j, m)
      PROVE  HoldersStay
  BY <1>2, <1>5 DEF Receive
<1>6. ASSUME NEW n \in Node, Heartbeat(n)
      PROVE  HoldersStay
  BY <1>2, <1>6 DEF Heartbeat, BeatList, BeatRead, BeatFails, BeatSend
<1>7. ASSUME NEW m \in mail, Lookup(m)
      PROVE  HoldersStay
  BY <1>2, <1>7 DEF Lookup
<1>8. ASSUME NEW c \in Chunk, Requests(c)
      PROVE  HoldersStay
  BY <1>2, <1>8 DEF Requests, ClientWrite, ControllerDelete, ControllerOrder,
     ClientRead
<1>9. CASE Faults
  BY <1>2, <1>9 DEF Faults, Kill, Restart, Damage, CopyCut, AskFails,
     DialFails
<1>10. QED
  BY <1>1, <1>4, <1>5, <1>6, <1>7, <1>8, <1>9 DEF Next

\* What was held still is, so a step is about what it changes.
LEMMA HeldStays ==
  ASSUME TypeOK, HeldInv, HoldersStay,
         \A m \in mail' : m \in mail \/ (m.chunk \in Chunk /\ MessageHeld(m)),
         \A j \in Job : \/ job'[j] = None \/ job'[j] = job[j]
                        \/ job'[j].msg.chunk \in Chunk /\ GoroutineHeld(job'[j]),
         ReportsHeld'
  PROVE  HeldInv'
<1>1. ASSUME NEW m, m.chunk \in Chunk, MessageHeld(m)
      PROVE  MessageHeld(m)'
  BY <1>1 DEF MessageHeld, HoldersStay
<1>2. ASSUME NEW g, g.msg.chunk \in Chunk, GoroutineHeld(g)
      PROVE  g.at \notin DeletePc
             /\ (g.at \in ReadPc \cup {"fetch"} =>
                   Entries(g.msg.replicas) \subseteq Holders(g.msg.chunk)')
             /\ (g.at \in ReadPc => g.node \in Holders(g.msg.chunk)')
  BY <1>2 DEF GoroutineHeld, HoldersStay
<1>3. \A m \in mail : m.chunk \in Chunk /\ MessageHeld(m)
  BY DEF TypeOK, MessageOK, Message, HeldInv
<1>4. \A j \in Job : job[j] # None => job[j].msg.chunk \in Chunk /\ GoroutineHeld(job[j])
  BY GoroutineType DEF HeldInv
<1>5. \A m \in mail' : MessageHeld(m)'
  BY <1>1, <1>3
<1>6. ASSUME NEW j \in Job, job'[j] # None
      PROVE  GoroutineHeld(job[j])'
  <2>1. job'[j].msg.chunk \in Chunk /\ GoroutineHeld(job'[j])
    BY <1>4, <1>6
  <2>2. QED
    BY <1>2, <2>1 DEF GoroutineHeld
<1>7. QED
  BY <1>5, <1>6 DEF HeldInv

\* Reports change only with heartbeats and requests.
LEMMA ReportsKept ==
  ASSUME TypeOK, HeldInv, HoldersStay,
         \A c \in Chunk : located'[c] \subseteq located[c],
         \A n \in Node : beat'[n] = None \/ beat'[n] = beat[n]
  PROVE  ReportsHeld'
<1>1. \A n \in Node : beat[n] # None =>
        beat[n].todo \subseteq Chunk /\ beat[n].files \subseteq Chunk
  BY DEF TypeOK, Beat
<1>2. QED
  BY <1>1 DEF HeldInv, ReportsHeld, HoldersStay

\* What goroutine j sends names nodes that have the chunk.
SendsHeld == \A m \in mail' : m \in mail \/ (m.chunk \in Chunk /\ MessageHeld(m))

LEMMA JobHeld ==
  ASSUME TypeOK, HeldInv, HoldersStay, NEW j \in Job, NEW v,
         job' = [job EXCEPT ![j] = v],
         v # None => v.msg.chunk \in Chunk /\ GoroutineHeld(v),
         SendsHeld, UNCHANGED <<located, beat>>
  PROVE  HeldInv'
<1>1. \A i \in Job : job'[i] = IF i = j THEN v ELSE job[i]
  BY DEF TypeOK
<1>2. ReportsHeld'
  BY ReportsKept
<1>3. \A i \in Job : \/ job'[i] = None \/ job'[i] = job[i]
                     \/ job'[i].msg.chunk \in Chunk /\ GoroutineHeld(job'[i])
  BY <1>1
<1>4. QED
  BY <1>2, <1>3, HeldStays DEF SendsHeld

\* The same goroutine at another step, or gone.
LEMMA GotoHeld ==
  ASSUME TypeOK, HeldInv, HoldersStay, NEW j \in Job, job[j] # None, NEW l \in BusyPc,
         Goto(j, l), l \in WritePc \/ (l \in ReadPc /\ job[j].at \in ReadPc),
         SendsHeld, UNCHANGED <<located, beat>>
  PROVE  HeldInv'
<1> DEFINE v == [job[j] EXCEPT !.at = l]
<1>1. v.at = l /\ v.msg = job[j].msg /\ v.node = job[j].node
  BY GoroutineType DEF Goroutine
<1>2. l \notin DeletePc /\ (l \in ReadPc \cup {"fetch"} => job[j].at \in ReadPc)
  BY DEF WritePc, ReadPc, DeletePc
<1>3. v.msg.chunk \in Chunk /\ GoroutineHeld(v)
  BY <1>1, <1>2, GoroutineType DEF HeldInv, GoroutineHeld
<1>4. QED
  BY <1>3, JobHeld DEF Goto

LEMMA FinishHeld ==
  ASSUME TypeOK, HeldInv, HoldersStay, NEW j \in Job, job[j] # None, Finish(j),
         SendsHeld, UNCHANGED <<located, beat>>
  PROVE  HeldInv'
<1>1. CASE job[j].asking
  <2>1. Goto(j, "asked") /\ "asked" \in BusyPc \cap ReadPc
    BY <1>1 DEF Finish, Finished, Goto, BusyPc, ReadPc
  <2>2. job[j].at \in ReadPc
    BY <1>1, GoroutineType DEF GoroutineOK
  <2>3. QED
    BY <2>1, <2>2, GotoHeld
<1>2. CASE ~job[j].asking
  BY <1>2, JobHeld DEF Finish, Finished
<1>3. QED
  BY <1>1, <1>2

\* Storing: a write is nobody's source.
LEMMA SaveHeld ==
  ASSUME TypeOK, HeldInv, HoldersStay, NEW j \in Job, Save(j) \/ CopyCut(j)
  PROVE  HeldInv'
<1> USE DEF files, history, Local
<1>1. /\ job[j] # None /\ job[j].at \in WritePc /\ UNCHANGED <<located, beat>>
  BY DEF Save, CreateMeta, WriteMeta, CreateData, Copy, CopyCut, PassOn, Count, At,
     WritePc
<1>2. job[j] \in Goroutine /\ job[j].msg \in Message /\ job[j].msg.chunk \in Chunk
  BY <1>1, GoroutineType
<1>3. SendsHeld
  <2>1. Upload(j).type = "write" /\ Upload(j).chunk = job[j].msg.chunk
    BY DEF Upload
  <2>2. MessageHeld(Upload(j))
    BY <2>1 DEF MessageHeld
  <2>3. mail' = mail \/ mail' = mail \cup {Upload(j)}
    BY DEF Save, CreateMeta, WriteMeta, CreateData, Copy, CopyCut, PassOn, Count
  <2>4. QED
    BY <1>2, <2>1, <2>2, <2>3 DEF SendsHeld
<1>4. ASSUME NEW v, v.at \in WritePc, v.msg.chunk \in Chunk
      PROVE  GoroutineHeld(v)
  BY <1>4 DEF GoroutineHeld, WritePc, ReadPc, DeletePc
<1>5. CASE CreateMeta(j) \/ CreateData(j)
  <2> DEFINE v(l, o) == [job[j] EXCEPT !.at = l, !.open = o]
  <2>1. \A l, o : v(l, o).at = l /\ v(l, o).msg.chunk \in Chunk
    BY <1>2 DEF Goroutine
  <2>2. \/ job' = [job EXCEPT ![j] = v("writeMeta", {"meta"})]
        \/ job' = [job EXCEPT ![j] = v("copy", {"data"})]
    BY <1>5 DEF CreateMeta, CreateData
  <2>3. "writeMeta" \in WritePc /\ "copy" \in WritePc
    BY DEF WritePc
  <2> HIDE DEF v
  <2>4. GoroutineHeld(v("writeMeta", {"meta"})) /\ GoroutineHeld(v("copy", {"data"}))
    BY <1>4, <2>1, <2>3
  <2>5. QED
    BY <1>1, <1>3, <2>1, <2>2, <2>4, JobHeld
<1>6. CASE WriteMeta(j) \/ Copy(j) \/ CopyCut(j)
  <2>1. PICK l \in WritePc : Goto(j, l)
    BY <1>6 DEF WriteMeta, Copy, CopyCut, WritePc
  <2>2. QED
    BY <1>1, <1>3, <2>1, GotoHeld DEF BusyPc
<1>7. CASE PassOn(j)
  <2> DEFINE v == [job[j] EXCEPT !.msg.replicas = Tail(job[j].msg.replicas)]
  <2>1. v.at \in WritePc /\ v.msg.chunk \in Chunk
    BY <1>1, <1>2 DEF Goroutine, Message
  <2>2. job' = [job EXCEPT ![j] = v] \/ Goto(j, "count")
    BY <1>7 DEF PassOn
  <2>3. "count" \in WritePc /\ "count" \in BusyPc
    BY DEF WritePc, BusyPc
  <2> HIDE DEF v
  <2>4. QED
    BY <1>1, <1>3, <1>4, <2>1, <2>2, <2>3, JobHeld, GotoHeld
<1>8. CASE Count(j)
  BY <1>1, <1>3, <1>8, FinishHeld DEF Count
<1>9. QED
  BY <1>5, <1>6, <1>7, <1>8 DEF Save

\* Reading and fetching pass on what they were told.
LEMMA ServeHeld ==
  ASSUME TypeOK, HeldInv, HoldersStay, NEW j \in Job,
         Serve(j) /\ ~ValidateFails(j) /\ ~FetchFails(j)
  PROVE  HeldInv'
<1> USE DEF files, history, Local
<1> DEFINE g == job[j]
           m == g.msg
<1>1. g # None /\ g.at \in ReadPc \cup {"fetch"} /\ UNCHANGED <<located, beat>>
  BY DEF Serve, Load, Validated, Corrupted, Reply, Send, Fetch, At, ReadPc
<1>2. /\ g \in Goroutine /\ m \in Message /\ m.chunk \in Chunk /\ m.replicas \in Seq(Node)
      /\ g.node \in Node /\ GoroutineOK(g)
      /\ Entries(m.replicas) \subseteq Holders(m.chunk)
      /\ g.at \in ReadPc => g.node \in Holders(m.chunk)
  BY <1>1, GoroutineType DEF HeldInv, GoroutineHeld
<1>3. ASSUME g.at \in ReadPc, NEW v, v.at \in ReadPc, v.node = g.node,
             v.msg.chunk = m.chunk, v.msg.replicas = m.replicas,
             job' = [job EXCEPT ![j] = v], mail' = mail
      PROVE  HeldInv'
  <2>1. GoroutineHeld(v)
    BY <1>2, <1>3 DEF GoroutineHeld, ReadPc, DeletePc
  <2>2. SendsHeld
    BY <1>3 DEF SendsHeld
  <2>3. QED
    BY <1>1, <1>2, <1>3, <2>1, <2>2, JobHeld
<1>4. CASE Load(j)
  <2> DEFINE v == [g EXCEPT !.at = "validate", !.sum = ReadSum(g.node, m.chunk),
                            !.loaded = ReadData(g.node, m.chunk)]
  <2>1. v.at = "validate" /\ v.node = g.node /\ v.msg = m
    BY <1>2 DEF Goroutine
  <2>2. job' = [job EXCEPT ![j] = v] /\ mail' = mail /\ g.at \in ReadPc
    BY <1>4 DEF Load, At, ReadPc
  <2>3. "validate" \in ReadPc
    BY DEF ReadPc
  <2> HIDE DEF v
  <2>4. QED
    BY <1>3, <2>1, <2>2, <2>3
<1>5. CASE Validated(j)
  <2>1. Goto(j, "reply") /\ "reply" \in ReadPc \cap BusyPc /\ g.at \in ReadPc /\ SendsHeld
    BY <1>5 DEF Validated, At, ReadPc, BusyPc, SendsHeld
  <2>2. QED
    BY <1>1, <2>1, GotoHeld
<1>6. CASE Corrupted(j)
  <2> DEFINE v == [g EXCEPT !.at = "sleep", !.asking = TRUE, !.reader = m.from]
  <2>1. v.at = "sleep" /\ v.node = g.node /\ v.msg = m
    BY <1>2 DEF Goroutine
  <2>2. job' = [job EXCEPT ![j] = v] /\ mail' = mail /\ g.at \in ReadPc
    BY <1>6 DEF Corrupted, At, ReadPc
  <2>3. "sleep" \in ReadPc
    BY DEF ReadPc
  <2> HIDE DEF v
  <2>4. QED
    BY <1>3, <2>1, <2>2, <2>3
<1>7. CASE Reply(j)
  <2> DEFINE v == [g EXCEPT !.at = "send", !.msg.type = "write", !.msg.from = g.node]
  <2>1. /\ v.at = "send" /\ v.node = g.node
        /\ v.msg.chunk = m.chunk /\ v.msg.replicas = m.replicas
    BY <1>2 DEF Goroutine, Message
  <2>2. /\ job' = [job EXCEPT ![j] = v] \/ Finish(j)
        /\ mail' = mail /\ g.at \in ReadPc
    BY <1>7 DEF Reply, At, ReadPc
  <2>3. "send" \in ReadPc /\ SendsHeld
    BY <2>2 DEF ReadPc, SendsHeld
  <2> HIDE DEF v
  <2>4. QED
    BY <1>1, <1>3, <2>1, <2>2, <2>3, FinishHeld
<1>8. CASE Send(j)
  <2> DEFINE out == [m EXCEPT !.to = g.reader, !.data = g.loaded, !.sum = g.sum]
  <2>1. out.type = m.type /\ out.chunk = m.chunk /\ out.replicas = m.replicas
    BY <1>2 DEF Message
  <2>2. m.type \in {"write", "replica"}
    BY <1>2, <1>8 DEF Send, At, GoroutineOK
  <2>3. mail' = mail \/ mail' = mail \cup {out}
    BY <1>8 DEF Send
  <2> HIDE DEF out
  <2>4. SendsHeld
    BY <1>2, <2>1, <2>2, <2>3 DEF SendsHeld, MessageHeld
  <2>5. QED
    BY <1>1, <1>8, <2>4, FinishHeld DEF Send
<1>9. CASE Fetch(j)
  <2> DEFINE out == Request("read", m.chunk, g.node, Head(m.replicas), Tail(m.replicas))
  <2>1. /\ out.type = "read" /\ out.chunk = m.chunk /\ out.to = Head(m.replicas)
        /\ out.replicas = Tail(m.replicas)
    BY DEF Request
  <2>2. mail' = mail \/ mail' = mail \cup {out}
    BY <1>9 DEF Fetch
  <2> HIDE DEF out
  <2>3. m.replicas # <<>>
    BY <1>9 DEF Fetch
  <2>4. /\ Head(m.replicas) \in Entries(m.replicas)
        /\ Entries(Tail(m.replicas)) \subseteq Entries(m.replicas)
    BY <1>2, <2>3, FirstAndRest DEF Entries
  <2>5. SendsHeld
    BY <1>2, <2>1, <2>2, <2>4 DEF SendsHeld, MessageHeld
  <2>6. QED
    BY <1>1, <1>9, <2>5, FinishHeld DEF Fetch
<1>10. QED
  BY <1>4, <1>5, <1>6, <1>7, <1>8, <1>9 DEF Serve

LEMMA AskHeld ==
  ASSUME TypeOK, HeldInv, HoldersStay, NEW j \in Job, Ask(j) \/ AskFails(j)
  PROVE  HeldInv'
<1> USE DEF files, history
<1> DEFINE g == job[j]
           v == [g EXCEPT !.asking = FALSE, !.msg.from = g.node, !.msg.type = "replica"]
           w == [g EXCEPT !.asking = FALSE]
           out == Request("lookup", g.msg.chunk, g.node, Controller, <<>>)
<1>1. g # None /\ UNCHANGED <<located, beat>>
  BY DEF Ask, AskFails
<1>2. g \in Goroutine /\ g.msg \in Message /\ g.msg.chunk \in Chunk /\ GoroutineHeld(g)
  BY <1>1, GoroutineType DEF HeldInv
<1>3. /\ v.at = g.at /\ v.node = g.node /\ v.msg.chunk = g.msg.chunk
      /\ v.msg.replicas = g.msg.replicas
      /\ w.at = g.at /\ w.node = g.node /\ w.msg = g.msg
  BY <1>2 DEF Goroutine, Message
<1>4. \/ job' = [job EXCEPT ![j] = None]
      \/ job' = [job EXCEPT ![j] = v]
      \/ job' = [job EXCEPT ![j] = w]
  BY DEF Ask, AskFails
<1>5. out.type = "lookup" /\ out.chunk = g.msg.chunk
  BY DEF Request
<1>6. mail' = mail \/ mail' = mail \cup {out}
  BY DEF Ask, AskFails
<1> HIDE DEF v, w, out
<1>7. SendsHeld
  BY <1>2, <1>5, <1>6 DEF SendsHeld, MessageHeld
<1>8. GoroutineHeld(v) /\ GoroutineHeld(w)
  BY <1>2, <1>3 DEF GoroutineHeld
<1>9. QED
  BY <1>1, <1>2, <1>3, <1>4, <1>7, <1>8, JobHeld

\* A dial that fails sends nothing.
LEMMA DialHeld ==
  ASSUME TypeOK, HeldInv, HoldersStay, NEW j \in Job, DialFails(j)
  PROVE  HeldInv'
<1>1. job[j] # None /\ UNCHANGED <<located, beat>> /\ SendsHeld
  BY DEF DialFails, At, SendsHeld
<1>2. Goto(j, "count") \/ Finish(j)
  BY DEF DialFails, At, HeldInv, GoroutineHeld, DeletePc
<1>3. "count" \in WritePc /\ "count" \in BusyPc
  BY DEF WritePc, BusyPc
<1>4. QED
  BY <1>1, <1>2, <1>3, GotoHeld, FinishHeld

LEMMA ReceiveHeld ==
  ASSUME TypeOK, HeldInv, HoldersStay, NEW j \in Job, NEW m, Receive(j, m)
  PROVE  HeldInv'
<1>1. /\ m \in mail /\ MessageOK(m) /\ m.to \in Node /\ m.chunk \in Chunk
      /\ \A i \in Job \ {j} : job'[i] = job[i]
      /\ job'[j].at = FirstStep[m.type] /\ job'[j].msg = m /\ job'[j].node = m.to
      /\ mail' = mail \ {m}
  BY ReceiveShape
<1>2. MessageHeld(m)
  BY <1>1 DEF HeldInv
<1>3. /\ FirstStep[m.type] \in {"createMeta", "load", "fetch"}
      /\ FirstStep[m.type] = "load" => m.type = "read"
      /\ FirstStep[m.type] = "fetch" => m.type = "replica"
  BY <1>1, <1>2, FirstStepType DEF MessageHeld
<1>4. GoroutineHeld(job'[j])
  BY <1>1, <1>2, <1>3 DEF GoroutineHeld, MessageHeld, ReadPc, DeletePc
<1>5. ReportsHeld'
  BY ReportsKept DEF Receive
<1>6. QED
  BY <1>1, <1>4, <1>5, HeldStays

\* Nothing is left but what was there.
LEMMA LessHeld ==
  ASSUME TypeOK, HeldInv, HoldersStay, mail' \subseteq mail,
         \A j \in Job : job'[j] = None \/ job'[j] = job[j], ReportsHeld'
  PROVE  HeldInv'
BY HeldStays

LEMMA ExitHeld ==
  ASSUME TypeOK, HeldInv, HoldersStay, NEW n \in Node, NEW why, Exit(n, why),
         located' = located
  PROVE  HeldInv'
<1>1. /\ mail' \subseteq mail
      /\ \A j \in Job : job'[j] = None \/ job'[j] = job[j]
      /\ \A k \in Node : beat'[k] = None \/ beat'[k] = beat[k]
  BY DEF Exit, TypeOK
<1>2. QED
  BY <1>1, ReportsKept, LessHeld

LEMMA HeartbeatHeld ==
  ASSUME TypeOK, HeldInv, HoldersStay, NEW n \in Node, Heartbeat(n)
  PROVE  HeldInv'
<1> USE DEF files, history
<1>1. ASSUME NEW c \in Chunk, BeatFails(n, c)
      PROVE  HeldInv'
  BY <1>1, ExitHeld DEF BeatFails
<1>2. ASSUME UNCHANGED <<mail, job, meta>>, ReportsHeld'
      PROVE  HeldInv'
  BY <1>2, LessHeld
<1>3. beat \in [Node -> Beat \cup {None}] /\ located \in [Chunk -> SUBSET Node]
  BY DEF TypeOK
<1>4. /\ \A c \in Chunk : located[c] \subseteq Holders(c)
      /\ \A k \in Node : beat[k] # None =>
           \A c \in beat[k].todo \cup beat[k].files : k \in Holders(c)
  BY DEF HeldInv, ReportsHeld
<1>5. CASE BeatList(n)
  <2>1. /\ \A k \in Node \ {n} : beat'[k] = beat[k]
        /\ beat'[n] = [todo |-> {c \in Chunk : meta[n][c] # "none"}, files |-> {}]
        /\ UNCHANGED <<mail, job, meta, located>>
    BY <1>3, <1>5 DEF BeatList
  <2>2. \A c \in beat'[n].todo \cup beat'[n].files : n \in Holders(c)
    BY <2>1 DEF Holders
  <2>3. ReportsHeld'
    BY <1>4, <2>1, <2>2 DEF ReportsHeld, Holders
  <2>4. QED
    BY <1>2, <2>1, <2>3
<1>6. ASSUME NEW c \in Chunk, BeatRead(n, c)
      PROVE  HeldInv'
  <2> DEFINE v == [todo |-> beat[n].todo \ {c},
                   files |-> IF meta[n][c] \in Line THEN beat[n].files \cup {c}
                             ELSE beat[n].files]
  <2>1. /\ beat[n] # None /\ c \in beat[n].todo
        /\ beat' = [beat EXCEPT ![n] = v]
        /\ UNCHANGED <<mail, job, meta, located>>
    BY <1>6 DEF BeatRead
  <2>2. v.todo \cup v.files \subseteq beat[n].todo \cup beat[n].files
    BY <2>1
  <2> HIDE DEF v
  <2>3. beat'[n] = v /\ \A k \in Node \ {n} : beat'[k] = beat[k]
    BY <1>3, <2>1
  <2>4. \A d \in beat'[n].todo \cup beat'[n].files : n \in Holders(d)
    BY <1>4, <2>1, <2>2, <2>3
  <2>5. ReportsHeld'
    BY <1>4, <2>1, <2>3, <2>4 DEF ReportsHeld, Holders
  <2>6. QED
    BY <1>2, <2>1, <2>5
<1>7. CASE BeatSend(n)
  <2>1. /\ beat[n] # None
        /\ beat' = [beat EXCEPT ![n] = None]
        /\ \A c \in Chunk : located'[c] = IF c \in beat[n].files THEN located[c] \cup {n}
                                          ELSE located[c]
        /\ UNCHANGED <<mail, job, meta>>
    BY <1>7 DEF BeatSend
  <2>2. \A k \in Node : beat'[k] = None \/ beat'[k] = beat[k]
    BY <1>3, <2>1
  <2>3. \A c \in Chunk : located'[c] \subseteq Holders(c)
    BY <1>4, <2>1
  <2>4. ReportsHeld'
    BY <1>4, <2>1, <2>2, <2>3 DEF ReportsHeld, Holders
  <2>5. QED
    BY <1>2, <2>1, <2>4
<1>8. QED
  BY <1>1, <1>5, <1>6, <1>7 DEF Heartbeat

\* The controller names nodes that have reported the chunk.
LEMMA OrderHeld ==
  ASSUME TypeOK, HeldInv, NEW c \in Chunk, NEW S, NEW s \in Orders(located[c] \ S)
  PROVE  Entries(s) \subseteq Holders(c)
<1>1. located[c] \ S \in SUBSET Node /\ located[c] \subseteq Holders(c)
  BY DEF TypeOK, HeldInv, ReportsHeld
<1>2. \A i \in DOMAIN s : s[i] \in located[c]
  BY <1>1, OrderIsList
<1>3. QED
  BY <1>1, <1>2 DEF Entries

LEMMA MailHeld ==
  ASSUME TypeOK, HeldInv, HoldersStay, NEW out, mail' \subseteq mail \cup {out},
         out.chunk \in Chunk, MessageHeld(out), UNCHANGED <<job, beat, located>>
  PROVE  HeldInv'
<1>1. ReportsHeld'
  BY ReportsKept
<1>2. QED
  BY <1>1, HeldStays

LEMMA LookupHeld ==
  ASSUME TypeOK, HeldInv, HoldersStay, NEW m \in mail, Lookup(m)
  PROVE  HeldInv'
<1> USE DEF files, history
<1>1. m.chunk \in Chunk
  BY DEF TypeOK, MessageOK, Message
<1>2. PICK s \in Orders(located[m.chunk] \ {m.from}) :
        mail' = (mail \ {m}) \cup
                  IF Up(m.from)
                  THEN {Request("replica", m.chunk, Controller, m.from, s)}
                  ELSE {}
  BY DEF Lookup
<1> DEFINE out == Request("replica", m.chunk, Controller, m.from, s)
<1>3. out.type = "replica" /\ out.chunk = m.chunk /\ out.replicas = s
  BY DEF Request
<1>4. mail' \subseteq mail \cup {out} /\ UNCHANGED <<job, beat, located>>
  BY <1>2 DEF Lookup
<1> HIDE DEF out
<1>5. MessageHeld(out)
  BY <1>1, <1>2, <1>3, OrderHeld DEF MessageHeld
<1>6. QED
  BY <1>1, <1>3, <1>4, <1>5, MailHeld

\* Without a delete.
LEMMA RequestsHeld ==
  ASSUME TypeOK, HeldInv, HoldersStay, NEW c \in Chunk, Requests(c),
         used'["delete"] = 0
  PROVE  HeldInv'
<1> USE DEF files, history
<1>1. ASSUME NEW s, ClientWrite(c, s)
      PROVE  HeldInv'
  <2> DEFINE out == [Request("write", c, Client, Head(s), Tail(s))
                       EXCEPT !.data = "whole", !.sum = TRUE]
  <2>1. out.type = "write" /\ out.chunk = c
    BY DEF Request
  <2>2. mail' = mail \cup {out} /\ UNCHANGED <<job, beat, located>>
    BY <1>1 DEF ClientWrite
  <2> HIDE DEF out
  <2>3. MessageHeld(out)
    BY <2>1 DEF MessageHeld
  <2>4. QED
    BY <2>1, <2>2, <2>3, MailHeld
<1>2. ASSUME NEW s, ControllerDelete(c, s)
      PROVE  FALSE
  <2>1. used' = [used EXCEPT !["delete"] = @ + 1] /\ used \in [Outside -> Nat]
    BY <1>2 DEF ControllerDelete, New, Use, TypeOK
  <2>2. used'["delete"] = used["delete"] + 1 /\ used["delete"] \in Nat
    BY <2>1 DEF Outside
  <2>3. QED
    BY <2>2
<1>3. ASSUME NEW n \in Node, NEW s \in Orders(located[c] \ {n}), ControllerOrder(c, n, s)
      PROVE  HeldInv'
  <2> DEFINE out == Request("replica", c, Controller, n, s)
  <2>1. out.type = "replica" /\ out.chunk = c /\ out.replicas = s
    BY DEF Request
  <2>2. mail' = mail \cup {out} /\ UNCHANGED <<job, beat, located>>
    BY <1>3 DEF ControllerOrder
  <2> HIDE DEF out
  <2>3. MessageHeld(out)
    BY <1>3, <2>1, OrderHeld DEF MessageHeld
  <2>4. QED
    BY <2>1, <2>2, <2>3, MailHeld
<1>4. ASSUME NEW n \in Node, ClientRead(c, n)
      PROVE  HeldInv'
  <2> DEFINE out == Request("read", c, Client, n, <<>>)
  <2>1. out.type = "read" /\ out.chunk = c /\ out.replicas = <<>> /\ out.to = n
    BY DEF Request
  <2>2. mail' = mail \cup {out} /\ UNCHANGED <<job, beat, located>> /\ n \in located[c]
    BY <1>4 DEF ClientRead
  <2> HIDE DEF out
  <2>3. MessageHeld(out)
    BY <2>1, <2>2 DEF MessageHeld, Entries, HeldInv, ReportsHeld
  <2>4. QED
    BY <2>1, <2>2, <2>3, MailHeld
<1>5. QED
  BY <1>1, <1>2, <1>3, <1>4 DEF Requests

\* What is used is never less.
LEMMA UsedGrows ==
  ASSUME TypeOK, [Next]_vars, NEW k \in Outside
  PROVE  used[k] <= used'[k]
<1> USE DEF files, history, Local
<1>1. used \in [Outside -> Nat]
  BY DEF TypeOK
<1>2. ASSUME NEW kind, Use(kind)
      PROVE  used[k] <= used'[k]
  <2>1. used'[k] = used[k] \/ used'[k] = used[k] + 1
    BY <1>1, <1>2 DEF Use
  <2>2. QED
    BY <1>1, <2>1
<1>3. ASSUME UNCHANGED used
      PROVE  used[k] <= used'[k]
  BY <1>1, <1>3
<1>4. CASE \E j \in Job : Save(j) \/ Remove(j)
  BY <1>3, <1>4 DEF Save, CreateMeta, WriteMeta, CreateData, Copy, PassOn, Count,
     Remove, RemoveMeta, RemoveData, RemoveFails, PassDelete, Uncount, Fatal
<1>5. CASE \E j \in Job : Serve(j) \/ Ask(j) \/ \E m \in mail : Receive(j, m)
  BY <1>3, <1>5 DEF Serve, Load, Validated, Corrupted, ValidateFails, Reply, Send,
     Fetch, FetchFails, Ask, Receive, Fatal
<1>6. CASE (\E n \in Node : Heartbeat(n)) \/ \E m \in mail : Lookup(m)
  BY <1>3, <1>6 DEF Heartbeat, BeatList, BeatRead, BeatFails, BeatSend, Lookup
<1>7. CASE \E c \in Chunk : Requests(c)
  BY <1>2, <1>7 DEF Requests, ClientWrite, ControllerDelete, ControllerOrder,
     ClientRead, New
<1>8. CASE Faults
  BY <1>2, <1>3, <1>8 DEF Faults, Kill, Restart, Damage, CopyCut, AskFails,
     DialFails
<1>9. CASE UNCHANGED vars
  BY <1>3, <1>9 DEF vars
<1>10. QED
  BY <1>4, <1>5, <1>6, <1>7, <1>8, <1>9 DEF Next

LEMMA NextHeld ==
  ASSUME TypeOK, HeldInv, [Next]_vars, used'["delete"] = 0
  PROVE  HeldInv'
<1> USE DEF files, history
<1>1. CASE UNCHANGED vars
  BY <1>1 DEF vars, HeldInv, MessageHeld, GoroutineHeld, ReportsHeld, Holders
<1>2. CASE Next
  <2>1. HoldersStay
    BY <1>2, HoldersKept
  <2>2. ASSUME NEW j \in Job, Save(j) \/ Remove(j) \/ Serve(j) \/ Ask(j)
        PROVE  HeldInv'
    <3>1. CASE Remove(j)
      BY <3>1 DEF HeldInv, GoroutineHeld, Remove, RemoveMeta, RemoveData, RemoveFails,
         PassDelete, Uncount, At, DeletePc
    <3>2. CASE ValidateFails(j) \/ FetchFails(j)
      BY <2>1, <3>2, GoroutineType, ExitHeld DEF ValidateFails, FetchFails, Fatal, At
    <3>3. QED
      BY <2>1, <2>2, <3>1, <3>2, SaveHeld, ServeHeld, AskHeld
  <2>3. CASE Faults
    <3>1. ASSUME NEW n \in Node, Kill(n)
          PROVE  HeldInv'
      BY <2>1, <3>1, ExitHeld DEF Kill
    <3>2. ASSUME UNCHANGED <<job, mail, beat, located>>
          PROVE  HeldInv'
      BY <2>1, <3>2, ReportsKept, LessHeld
    <3>3. QED
      BY <2>1, <2>3, <3>1, <3>2, SaveHeld, AskHeld, DialHeld
         DEF Faults, Restart, Damage
  <2>4. QED
    BY <1>2, <2>1, <2>2, <2>3, ReceiveHeld, HeartbeatHeld, LookupHeld, RequestsHeld
       DEF Next
<1>3. QED
  BY <1>1, <1>2

-----------------------------------------------------------------------------
(* While repairs are over in time: one goroutine looks at a chunk, or what it *)
(* has set off is under way. *)

\* A goroutine that waits for its repair, and one that reads or is about to ask.
Rests(g) == g.at = "sleep" /\ ~g.asking
Reads(g) ==
  \/ g.at = "sleep" /\ g.asking
  \/ /\ g.at \in {"load", "validate", "reply", "send", "fetch"}
     /\ ~g.asking
     /\ g.at = "send" => g.msg.type = "write"

AllRest(S) == \A i \in S : Rests(job[i])

\* What a chunk is busy with: writes; one request; one goroutine that reads it.
Writing(c)   == /\ \A m \in MailFor(c) : m.type = "write"
                /\ \A j \in Serving(c) : job[j].at \in WritePc \/ Rests(job[j])
Requested(c) == /\ \E m \in MailFor(c) : MailFor(c) = {m} /\ m.type # "write"
                /\ AllRest(Serving(c))
Looked(c)    == /\ MailFor(c) = {}
                /\ \E j \in Serving(c) : Reads(job[j]) /\ AllRest(Serving(c) \ {j})

InTurn(c) == Writing(c) \/ Requested(c) \/ Looked(c)
TurnInv   == \A c \in Chunk \ crossed : InTurn(c)

LEMMA TurnElsewhere ==
  ASSUME NEW d, MailFor(d)' = MailFor(d), Serving(d)' = Serving(d),
         \A i \in Serving(d) : job'[i] = job[i], InTurn(d)
  PROVE  InTurn(d)'
<1>1. CASE Writing(d)
  BY <1>1 DEF InTurn, Writing, Rests
<1>2. CASE Requested(d)
  BY <1>2 DEF InTurn, Requested, AllRest, Rests
<1>3. CASE Looked(d)
  <2>1. PICK j \in Serving(d) : Reads(job[j]) /\ AllRest(Serving(d) \ {j})
    BY <1>3 DEF Looked
  <2>2. Reads(job[j])' /\ AllRest(Serving(d) \ {j})' /\ j \in Serving(d)'
    BY <2>1 DEF Reads, AllRest, Rests
  <2>3. Looked(d)'
    BY <1>3, <2>2 DEF Looked
  <2>4. QED
    BY <2>3 DEF InTurn
<1>4. QED
  BY <1>1, <1>2, <1>3 DEF InTurn

\* What a step of goroutine j is about.
JobTurn(j, v, c) ==
  /\ j \in Job /\ c = job[j].msg.chunk /\ Moves(j, v)
  /\ mail \subseteq mail'
  /\ \A m \in mail' \ mail : m.chunk = c
  /\ crossed' = crossed

LEMMA TurnOthers ==
  ASSUME TypeOK, TurnInv, NEW j, NEW v, NEW c, JobTurn(j, v, c),
         c \notin crossed /\ InTurn(c) => InTurn(c)'
  PROVE  TurnInv'
<1>1. ASSUME NEW d \in Chunk \ crossed', d # c
      PROVE  InTurn(d)'
  <2>1. Serving(d)' = Serving(d) /\ \A i \in Job : job'[i] = IF i = j THEN v ELSE job[i]
    BY <1>1, MoveShape DEF JobTurn
  <2>2. \A i \in Serving(d) : job'[i] = job[i]
    BY <1>1, <2>1 DEF Serving, JobTurn
  <2>3. MailFor(d)' = MailFor(d)
    BY <1>1 DEF MailFor, JobTurn
  <2>4. InTurn(d)
    BY <1>1 DEF TurnInv, JobTurn
  <2>5. QED
    BY <2>1, <2>2, <2>3, <2>4, TurnElsewhere
<1>2. QED
  BY <1>1 DEF TurnInv, JobTurn

\* The goroutines of the chunk after j has moved.
LEMMA TurnShape ==
  ASSUME TypeOK, NEW j, NEW v, NEW c, JobTurn(j, v, c)
  PROVE  /\ j \in Serving(c)
         /\ \A i \in Serving(c)' : i # j => i \in Serving(c) /\ job'[i] = job[i]
         /\ \A i \in Serving(c) : i # j => i \in Serving(c)'
         /\ v = None => j \notin Serving(c)'
         /\ v # None => j \in Serving(c)' /\ job'[j] = v
<1>1. j \in Serving(c) /\ \A i \in Job : job'[i] = IF i = j THEN v ELSE job[i]
  <2>1. j \in Serving(c)
    BY DEF JobTurn, Moves, Serving
  <2>2. QED
    BY <2>1, MoveShape DEF JobTurn
<1>2. Serving(c)' = IF v = None THEN Serving(c) \ {j} ELSE Serving(c)
  <2>1. j \in Job /\ c = job[j].msg.chunk /\ Moves(j, v)
    BY DEF JobTurn
  <2>2. QED
    BY <2>1, MoveShape
<1>3. Serving(c) \subseteq Job
  BY DEF Serving
<1>4. QED
  BY <1>1, <1>2, <1>3 DEF JobTurn

\* A goroutine that is neither writing nor asleep is the only one that is awake.
LEMMA OnlyReader ==
  ASSUME NEW c, InTurn(c), NEW j \in Serving(c), job[j].at \notin WritePc, ~Rests(job[j])
  PROVE  MailFor(c) = {} /\ Reads(job[j]) /\ AllRest(Serving(c) \ {j})
BY DEF InTurn, Writing, Requested, Looked, AllRest

\* A writer goes on with writing.
LEMMA TurnWrites ==
  ASSUME TypeOK, NEW j, NEW v, NEW c, JobTurn(j, v, c), InTurn(c),
         job[j].at \in WritePc, v # None => v.at \in WritePc,
         \A m \in mail' \ mail : m.type = "write"
  PROVE  InTurn(c)'
<1>1. j \in Serving(c) /\ ~Rests(job[j]) /\ ~Reads(job[j])
  BY TurnShape DEF Rests, Reads, WritePc
<1>2. Writing(c)
  BY <1>1 DEF InTurn, Requested, Looked, AllRest
<1>3. \A m \in MailFor(c)' : m \in MailFor(c) \/ m.type = "write"
  BY DEF MailFor
<1>4. \A i \in Serving(c)' : job'[i].at \in WritePc \/ Rests(job'[i])
  BY <1>2, TurnShape DEF Writing
<1>5. Writing(c)'
  BY <1>2, <1>3, <1>4 DEF Writing, Rests
<1>6. QED
  BY <1>5 DEF InTurn

\* A reader goes on with reading.
LEMMA TurnReads ==
  ASSUME TypeOK, NEW j, NEW v, NEW c, JobTurn(j, v, c), mail' = mail,
         MailFor(c) = {}, AllRest(Serving(c) \ {j}), v # None, Reads(v)
  PROVE  InTurn(c)'
<1>1. j \in Serving(c)' /\ job'[j] = v
  BY TurnShape
<1>2. \A i \in Serving(c)' \ {j} : Rests(job'[i])
  BY TurnShape DEF AllRest
<1>3. MailFor(c)' = {}
  BY DEF MailFor
<1>4. Reads(job[j])' /\ AllRest(Serving(c) \ {j})'
  BY <1>1, <1>2 DEF AllRest, Reads, Rests
<1>5. QED
  BY <1>1, <1>3, <1>4 DEF InTurn, Looked

\* A reader goes to sleep or returns, having sent a message or none.
LEMMA TurnEnds ==
  ASSUME TypeOK, NEW j, NEW v, NEW c, JobTurn(j, v, c), NEW out,
         mail' \subseteq mail \cup {out},
         MailFor(c) = {}, AllRest(Serving(c) \ {j}), v # None => Rests(v)
  PROVE  InTurn(c)'
<1>1. \A i \in Serving(c)' : Rests(job'[i])
  BY TurnShape DEF AllRest
<1>2. AllRest(Serving(c))' /\ \A i \in Serving(c)' : Rests(job[i])'
  BY <1>1 DEF AllRest, Rests
<1>3. MailFor(c)' \subseteq {out}
  BY DEF MailFor
<1>4. CASE out.type = "write" \/ MailFor(c)' = {}
  BY <1>2, <1>3, <1>4 DEF InTurn, Writing
<1>5. CASE out.type # "write" /\ MailFor(c)' = {out}
  BY <1>2, <1>5 DEF InTurn, Requested
<1>6. QED
  BY <1>3, <1>4, <1>5

LEMMA SaveTurn ==
  ASSUME ChunksInv, TurnInv, NEW j \in Job, Save(j) \/ CopyCut(j)
  PROVE  TurnInv'
<1> USE DEF files, history, Local
<1>1. job[j] # None /\ job[j].at \in WritePc /\ crossed' = crossed
  BY DEF Save, CreateMeta, WriteMeta, CreateData, Copy, CopyCut, PassOn, Count, At,
     WritePc
<1>2. TypeOK /\ job[j] \in Goroutine /\ job[j].msg \in Message /\ ~job[j].asking
  BY <1>1, Facts DEF GoroutineOK, ReadPc, WritePc
<1>3. PICK c : c = job[j].msg.chunk
  OBVIOUS
<1>4. /\ mail \subseteq mail'
      /\ \A m \in mail' \ mail : m.type = "write" /\ m.chunk = c
  <2>1. Upload(j).type = "write" /\ Upload(j).chunk = c
    BY <1>3 DEF Upload
  <2>2. mail' = mail \/ mail' = mail \cup {Upload(j)}
    BY DEF Save, CreateMeta, WriteMeta, CreateData, Copy, CopyCut, PassOn, Count
  <2>3. QED
    BY <2>1, <2>2
<1>5. ASSUME NEW v, Moves(j, v), v # None => v.at \in WritePc
      PROVE  TurnInv'
  <2>1. JobTurn(j, v, c)
    BY <1>1, <1>3, <1>4, <1>5 DEF JobTurn
  <2>2. InTurn(c) => InTurn(c)'
    BY <1>1, <1>2, <1>4, <1>5, <2>1, TurnWrites
  <2>3. QED
    BY <1>2, <2>1, <2>2, TurnOthers
<1>6. ASSUME NEW l \in WritePc, Goto(j, l)
      PROVE  TurnInv'
  BY <1>1, <1>5, <1>6, GotoMoves DEF BusyPc
<1>7. CASE CreateMeta(j) \/ CreateData(j)
  <2> DEFINE v(l, o) == [job[j] EXCEPT !.at = l, !.open = o]
  <2>1. \A l, o : /\ v(l, o).at = l /\ v(l, o).msg = job[j].msg
                  /\ v(l, o).node = job[j].node
    BY <1>2 DEF Goroutine
  <2>2. \/ job' = [job EXCEPT ![j] = v("writeMeta", {"meta"})]
        \/ job' = [job EXCEPT ![j] = v("copy", {"data"})]
    BY <1>7 DEF CreateMeta, CreateData
  <2>3. "writeMeta" \in WritePc /\ "copy" \in WritePc
    BY DEF WritePc
  <2> HIDE DEF v
  <2>4. QED
    BY <1>1, <1>5, <2>1, <2>2, <2>3 DEF Moves
<1>8. CASE WriteMeta(j) \/ Copy(j) \/ CopyCut(j)
  BY <1>6, <1>8 DEF WriteMeta, Copy, CopyCut, WritePc
<1>9. CASE PassOn(j)
  <2> DEFINE v == [job[j] EXCEPT !.msg.replicas = Tail(job[j].msg.replicas)]
  <2>1. v.at \in WritePc /\ v.msg.chunk = job[j].msg.chunk /\ v.node = job[j].node
    BY <1>1, <1>2 DEF Goroutine, Message
  <2>2. job' = [job EXCEPT ![j] = v] \/ Goto(j, "count")
    BY <1>9 DEF PassOn
  <2>3. "count" \in WritePc
    BY DEF WritePc
  <2> HIDE DEF v
  <2>4. QED
    BY <1>1, <1>5, <1>6, <2>1, <2>2, <2>3 DEF Moves
<1>10. CASE Count(j)
  BY <1>1, <1>2, <1>5, <1>10, FinishMoves DEF Count
<1>11. QED
  BY <1>7, <1>8, <1>9, <1>10 DEF Save

LEMMA ServeTurn ==
  ASSUME ChunksInv, TurnInv, Prompt, NEW j \in Job,
         Serve(j) /\ ~ValidateFails(j) /\ ~FetchFails(j)
  PROVE  TurnInv'
<1> USE DEF files, history, Local
<1> DEFINE g == job[j]
           m == g.msg
<1>1. /\ g # None /\ crossed' = crossed
      /\ g.at \in {"load", "sleep", "validate", "reply", "send", "fetch"}
  BY DEF Serve, Load, Validated, Corrupted, Reply, Send, Fetch, At
<1>2. /\ TypeOK /\ g \in Goroutine /\ m \in Message
  BY <1>1, Facts
<1>3. PICK c : c = m.chunk
  OBVIOUS
<1>4. j \in Serving(c)
  BY <1>1, <1>3 DEF Serving
<1>5. ASSUME InTurn(c), g.at # "sleep"
      PROVE  MailFor(c) = {} /\ Reads(g) /\ ~g.asking /\ AllRest(Serving(c) \ {j})
  <2>1. g.at \notin WritePc /\ ~Rests(g)
    BY <1>1, <1>5 DEF WritePc, Rests
  <2>2. QED
    BY <1>4, <1>5, <2>1, OnlyReader DEF Reads
<1>6. ASSUME NEW v, Moves(j, v), mail' = mail, v # None,
             c \notin crossed /\ InTurn(c) =>
               MailFor(c) = {} /\ AllRest(Serving(c) \ {j}) /\ Reads(v)
      PROVE  TurnInv'
  <2>1. JobTurn(j, v, c)
    BY <1>1, <1>3, <1>6 DEF JobTurn
  <2>2. QED
    BY <1>2, <1>6, <2>1, TurnReads, TurnOthers
<1>7. ASSUME g.at # "sleep", Finish(j), NEW out, out.chunk = c,
             mail' = mail \/ mail' = mail \cup {out}
      PROVE  TurnInv'
  <2>1. PICK v : Moves(j, v) /\ (v # None => g.asking)
    BY <1>1, <1>7, FinishMoves
  <2>2. JobTurn(j, v, c)
    BY <1>1, <1>3, <1>7, <2>1 DEF JobTurn
  <2>3. InTurn(c) => InTurn(c)'
    BY <1>2, <1>5, <1>7, <2>1, <2>2, TurnEnds
  <2>4. QED
    BY <1>2, <2>2, <2>3, TurnOthers
<1>8. CASE Load(j)
  <2> DEFINE v == [g EXCEPT !.at = "validate", !.sum = ReadSum(g.node, c),
                            !.loaded = ReadData(g.node, c)]
  <2>1. v.at = "validate" /\ v.node = g.node /\ v.msg = m /\ v.asking = g.asking
    BY <1>2 DEF Goroutine
  <2>2. job' = [job EXCEPT ![j] = v] /\ mail' = mail
    BY <1>3, <1>8 DEF Load
  <2>3. v # None
    BY <1>2, <2>1, NoneAssumption DEF Goroutine, BusyPc, ReadPc, ReadData, ReadSum, DataFile
  <2> HIDE DEF v
  <2>4. Moves(j, v)
    BY <1>1, <2>1, <2>2 DEF Moves
  <2>5. ASSUME InTurn(c)
        PROVE  MailFor(c) = {} /\ AllRest(Serving(c) \ {j}) /\ ~g.asking
    <3>1. CASE At(j, "load")
      BY <1>5, <2>5, <3>1 DEF At
    <3>2. CASE At(j, "sleep") /\ Settled(j)
      BY <1>1, <1>2, <1>3, <1>4, <3>2, SettledAll DEF AllRest, Rests, At
    <3>3. QED
      BY <1>8, <3>1, <3>2 DEF Load
  <2>6. QED
    BY <1>6, <2>1, <2>2, <2>3, <2>4, <2>5 DEF Reads
<1>9. CASE Validated(j)
  <2>1. Goto(j, "reply") /\ mail' = mail /\ g.at = "validate"
    BY <1>9 DEF Validated, At
  <2> DEFINE v == [g EXCEPT !.at = "reply"]
  <2>2. v.at = "reply" /\ v.node = g.node /\ v.msg = m /\ v.asking = g.asking
    BY <1>2 DEF Goroutine
  <2>3. v \in Goroutine /\ job' = [job EXCEPT ![j] = v]
    BY <1>2, <2>1 DEF Goto, Goroutine, BusyPc, ReadPc
  <2> HIDE DEF v
  <2>4. v # None /\ Moves(j, v)
    BY <1>1, <2>2, <2>3, NoneAssumption DEF Moves
  <2>5. QED
    BY <1>5, <1>6, <2>1, <2>2, <2>4 DEF Reads
<1>10. CASE Corrupted(j)
  <2>1. g.at = "validate" /\ mail' = mail
    BY <1>10 DEF Corrupted, At
  <2> DEFINE v == [g EXCEPT !.at = "sleep", !.asking = TRUE, !.reader = m.from]
  <2>2. v.at = "sleep" /\ v.node = g.node /\ v.msg = m /\ v.asking
    BY <1>2 DEF Goroutine
  <2>3. v \in Goroutine /\ job' = [job EXCEPT ![j] = v]
    BY <1>2, <1>10 DEF Corrupted, Goroutine, Message, BusyPc, ReadPc
  <2> HIDE DEF v
  <2>4. v # None /\ Moves(j, v)
    BY <1>1, <2>2, <2>3, NoneAssumption DEF Moves
  <2>5. QED
    BY <1>5, <1>6, <2>1, <2>2, <2>4 DEF Reads
<1>11. CASE Reply(j)
  <2>1. g.at = "reply" /\ mail' = mail
    BY <1>11 DEF Reply, At
  <2> DEFINE v == [g EXCEPT !.at = "send", !.msg.type = "write", !.msg.from = g.node]
  <2>2. /\ v.at = "send" /\ v.node = g.node /\ v.msg.chunk = m.chunk
        /\ v.msg.type = "write" /\ v.asking = g.asking
    BY <1>2 DEF Goroutine, Message
  <2>3. v \in Goroutine
    BY <1>2, <2>1 DEF Goroutine, Message, Type, BusyPc, ReadPc
  <2>4. job' = [job EXCEPT ![j] = v] \/ Finish(j)
    BY <1>11 DEF Reply
  <2> HIDE DEF v
  <2>5. CASE job' = [job EXCEPT ![j] = v]
    <3>1. v # None /\ Moves(j, v)
      BY <1>1, <2>2, <2>3, <2>5, NoneAssumption DEF Moves
    <3>2. QED
      BY <1>5, <1>6, <2>1, <2>2, <3>1 DEF Reads
  <2>6. CASE Finish(j)
    BY <1>3, <1>7, <2>1, <2>6
  <2>7. QED
    BY <2>4, <2>5, <2>6
<1>12. CASE Send(j)
  <2> DEFINE out == [m EXCEPT !.to = g.reader, !.data = g.loaded, !.sum = g.sum]
  <2>1. out.chunk = c /\ g.at = "send" /\ Finish(j)
    BY <1>2, <1>3, <1>12 DEF Send, At, Message
  <2>2. mail' = mail \/ mail' = mail \cup {out}
    BY <1>12 DEF Send
  <2> HIDE DEF out
  <2>3. QED
    BY <1>7, <2>1, <2>2
<1>13. CASE Fetch(j)
  <2> DEFINE out == Request("read", m.chunk, g.node, Head(m.replicas), Tail(m.replicas))
  <2>1. out.chunk = c /\ g.at = "fetch" /\ Finish(j)
    BY <1>3, <1>13 DEF Fetch, At, Request
  <2>2. mail' = mail \/ mail' = mail \cup {out}
    BY <1>13 DEF Fetch
  <2> HIDE DEF out
  <2>3. QED
    BY <1>7, <2>1, <2>2
<1>14. QED
  BY <1>8, <1>9, <1>10, <1>11, <1>12, <1>13 DEF Serve

\* A writer whose dial fails goes on, a reader returns.
LEMMA DialTurn ==
  ASSUME ChunksInv, HeldInv, TurnInv, NEW j \in Job, DialFails(j)
  PROVE  TurnInv'
<1> DEFINE g == job[j]
<1>1. /\ g # None /\ UNCHANGED <<mail, crossed>>
      /\ \/ g.at = "passOn" /\ Goto(j, "count")
         \/ g.at \in {"fetch", "reply"} /\ Finish(j)
  BY DEF DialFails, At, HeldInv, GoroutineHeld, DeletePc
<1>2. TypeOK /\ g \in Goroutine
  BY <1>1, Facts
<1>3. PICK c : c = g.msg.chunk
  OBVIOUS
<1>4. j \in Serving(c)
  BY <1>1, <1>3 DEF Serving
<1>5. CASE g.at = "passOn" /\ Goto(j, "count")
  <2>1. "count" \in WritePc /\ "count" \in BusyPc /\ g.at \in WritePc
    BY <1>5 DEF WritePc, BusyPc
  <2>2. PICK v : Moves(j, v) /\ v.at = "count"
    BY <1>1, <1>5, <2>1, GotoMoves
  <2>3. JobTurn(j, v, c)
    BY <1>1, <1>3, <2>2 DEF JobTurn
  <2>4. InTurn(c) => InTurn(c)'
    BY <1>1, <1>2, <2>1, <2>2, <2>3, TurnWrites
  <2>5. QED
    BY <1>2, <2>3, <2>4, TurnOthers
<1>6. CASE g.at \in {"fetch", "reply"} /\ Finish(j)
  <2>1. PICK v : Moves(j, v) /\ (v # None => g.asking)
    BY <1>1, <1>6, FinishMoves
  <2>2. JobTurn(j, v, c)
    BY <1>1, <1>3, <2>1 DEF JobTurn
  <2>3. ASSUME InTurn(c)
        PROVE  InTurn(c)'
    <3>1. g.at \notin WritePc /\ ~Rests(g)
      BY <1>6 DEF WritePc, Rests
    <3>2. MailFor(c) = {} /\ Reads(g) /\ AllRest(Serving(c) \ {j})
      BY <1>4, <2>3, <3>1, OnlyReader
    <3>3. v = None
      BY <1>6, <2>1, <3>2 DEF Reads
    <3>4. QED
      BY <1>1, <1>2, <2>2, <3>2, <3>3, TurnEnds
  <2>4. QED
    BY <1>2, <2>2, <2>3, TurnOthers
<1>7. QED
  BY <1>1, <1>5, <1>6

\* A reader that is about to ask does, and then waits.
LEMMA AskTurn ==
  ASSUME ChunksInv, TurnInv, NEW j \in Job, Ask(j) \/ AskFails(j)
  PROVE  TurnInv'
<1> USE DEF files, history
<1> DEFINE g == job[j]
           v == [g EXCEPT !.asking = FALSE, !.msg.from = g.node, !.msg.type = "replica"]
           w == [g EXCEPT !.asking = FALSE]
           out == Request("lookup", g.msg.chunk, g.node, Controller, <<>>)
<1>1. g # None /\ g.asking /\ crossed' = crossed
  BY DEF Ask, AskFails
<1>2. /\ TypeOK /\ g \in Goroutine /\ g.msg \in Message /\ g.at \in ReadPc
  BY <1>1, Facts DEF GoroutineOK
<1>3. PICK c : c = g.msg.chunk
  OBVIOUS
<1>4. /\ v.at = g.at /\ v.node = g.node /\ v.msg.chunk = c /\ v.asking = FALSE
      /\ w.at = g.at /\ w.node = g.node /\ w.msg.chunk = c /\ w.asking = FALSE
  BY <1>2, <1>3 DEF Goroutine, Message
<1>5. \/ job' = [job EXCEPT ![j] = None]
      \/ job' = [job EXCEPT ![j] = v]
      \/ job' = [job EXCEPT ![j] = w]
  BY DEF Ask, AskFails
<1>6. out.chunk = c
  BY <1>3 DEF Request
<1>7. mail' = mail \/ mail' = mail \cup {out}
  BY DEF Ask, AskFails
<1> HIDE DEF v, w, out
<1>8. PICK x \in {None, v, w} : job' = [job EXCEPT ![j] = x]
  BY <1>5
<1>9. JobTurn(j, x, c)
  <2>1. Moves(j, x)
    BY <1>1, <1>3, <1>4, <1>8 DEF Moves
  <2>2. QED
    BY <1>1, <1>3, <1>6, <1>7, <2>1 DEF JobTurn
<1>10. ASSUME InTurn(c)
       PROVE  InTurn(c)'
  <2>1. j \in Serving(c) /\ g.at \notin WritePc /\ ~Rests(g)
    BY <1>1, <1>2, <1>3 DEF Serving, Rests, ReadPc, WritePc
  <2>2. MailFor(c) = {} /\ Reads(g) /\ AllRest(Serving(c) \ {j})
    BY <1>10, <2>1, OnlyReader
  <2>3. x # None => Rests(x)
    BY <1>1, <1>4, <2>2 DEF Reads, Rests
  <2>4. QED
    BY <1>2, <1>7, <1>9, <2>2, <2>3, TurnEnds
<1>11. QED
  BY <1>2, <1>9, <1>10, TurnOthers

LEMMA ReceiveTurn ==
  ASSUME ChunksInv, HeldInv, TurnInv, NEW j \in Job, NEW m, Receive(j, m)
  PROVE  TurnInv'
<1> USE DEF files, history
<1>1. TypeOK /\ crossed' = crossed
  BY DEF ChunksInv, Receive
<1>2. PICK c : c = m.chunk
  OBVIOUS
<1>3. /\ m \in MailFor(c) /\ MessageOK(m) /\ m.to \in Node
      /\ job[j] = None /\ \A i \in Job \ {j} : job'[i] = job[i]
      /\ mail' = mail \ {m} /\ m \in mail
  BY <1>1, <1>2, ReceiveShape DEF MailFor
<1>4. /\ job'[j] # None /\ job'[j].at = FirstStep[m.type] /\ job'[j].msg = m
      /\ ~job'[j].asking
  BY <1>1, ReceiveShape
<1>5. \A d : d # c => MailFor(d)' = MailFor(d) /\ Serving(d)' = Serving(d)
  BY <1>2, <1>3, <1>4 DEF MailFor, Serving
<1>6. /\ MailFor(c)' = MailFor(c) \ {m} /\ Serving(c)' = Serving(c) \cup {j}
      /\ j \notin Serving(c)
  BY <1>2, <1>3, <1>4 DEF MailFor, Serving
<1>7. \A d : \A i \in Serving(d) : job'[i] = job[i]
  BY <1>3 DEF Serving
<1>8. m.type # "delete"
  BY <1>3 DEF HeldInv, MessageHeld
<1>9. CASE m.type = "write"
  <2>1. ASSUME InTurn(c)
        PROVE  InTurn(c)'
    <3>1. Writing(c)
      BY <1>3, <1>9, <2>1 DEF InTurn, Requested, Looked
    <3>2. job'[j].at = "createMeta" /\ "createMeta" \in WritePc
      BY <1>3, <1>4, <1>9, FirstStepType DEF WritePc
    <3>3. \A i \in Serving(c)' : job'[i].at \in WritePc \/ Rests(job'[i])
      BY <1>6, <1>7, <3>1, <3>2 DEF Writing
    <3>4. Writing(c)'
      BY <1>6, <3>1, <3>3 DEF Writing, Rests
    <3>5. QED
      BY <3>4 DEF InTurn
  <2>2. QED
    BY <1>1, <1>5, <1>7, <2>1, TurnElsewhere DEF TurnInv
<1>10. CASE m.type # "write"
  <2>1. ASSUME InTurn(c)
        PROVE  InTurn(c)'
    <3>1. MailFor(c) = {m} /\ AllRest(Serving(c))
      BY <1>3, <1>10, <2>1 DEF InTurn, Writing, Requested, Looked
    <3>2. job'[j].at \in {"load", "fetch"}
      BY <1>3, <1>4, <1>8, <1>10, FirstStepType
    <3>3. Reads(job[j])' /\ AllRest(Serving(c) \ {j})'
      BY <1>4, <1>6, <1>7, <3>1, <3>2 DEF Reads, AllRest, Rests
    <3>4. Looked(c)'
      BY <1>6, <3>1, <3>3 DEF Looked
    <3>5. QED
      BY <3>4 DEF InTurn
  <2>2. QED
    BY <1>1, <1>5, <1>7, <2>1, TurnElsewhere DEF TurnInv
<1>11. QED
  BY <1>9, <1>10

\* What is under way for c is at most one message, and nobody is awake.
LEMMA TurnOne ==
  ASSUME NEW c, NEW out, MailFor(c)' \subseteq {out}, Serving(c)' = Serving(c),
         AllRest(Serving(c)), job' = job
  PROVE  InTurn(c)'
<1>1. AllRest(Serving(c))' /\ \A i \in Serving(c)' : Rests(job[i])'
  BY DEF AllRest, Rests
<1>2. CASE out.type = "write" \/ MailFor(c)' = {}
  BY <1>1, <1>2 DEF InTurn, Writing
<1>3. CASE out.type # "write" /\ MailFor(c)' = {out}
  BY <1>1, <1>3 DEF InTurn, Requested
<1>4. QED
  BY <1>2, <1>3

LEMMA LookupTurn ==
  ASSUME ChunksInv, TurnInv, NEW m \in mail, Lookup(m)
  PROVE  TurnInv'
<1> USE DEF files, history
<1>1. MessageOK(m) /\ m.type = "lookup" /\ crossed' = crossed /\ job' = job
  BY DEF ChunksInv, TypeOK, MessageOK, Lookup
<1>2. PICK c : c = m.chunk
  OBVIOUS
<1>3. PICK out : out.chunk = c /\ mail' \subseteq (mail \ {m}) \cup {out}
                 /\ mail \ {m} \subseteq mail'
  <2>1. PICK s :
          mail' = (mail \ {m}) \cup
                    IF Up(m.from)
                    THEN {Request("replica", m.chunk, Controller, m.from, s)}
                    ELSE {}
    BY DEF Lookup
  <2>2. Request("replica", m.chunk, Controller, m.from, s).chunk = c
    BY <1>2 DEF Request
  <2>3. QED
    BY <2>1, <2>2
<1>4. \A d : Serving(d)' = Serving(d)
  BY <1>1 DEF Serving
<1>5. \A d : d # c => MailFor(d)' = MailFor(d)
  BY <1>2, <1>3 DEF MailFor
<1>6. ASSUME InTurn(c)
      PROVE  InTurn(c)'
  <2>1. MailFor(c) = {m} /\ AllRest(Serving(c))
    BY <1>1, <1>2, <1>6 DEF InTurn, Writing, Requested, Looked, MailFor
  <2>2. MailFor(c)' \subseteq {out}
    BY <1>3, <2>1 DEF MailFor
  <2>3. QED
    BY <1>1, <1>4, <2>1, <2>2, TurnOne
<1>7. QED
  BY <1>1, <1>4, <1>5, <1>6, TurnElsewhere DEF TurnInv

\* A request that crosses no other finds nobody at work.
LEMMA RequestTurn ==
  ASSUME ChunksInv, TurnInv, NEW c \in Chunk, NEW kind, New(kind, c), NEW out,
         mail' = mail \/ mail' = mail \cup {out}, out.chunk = c, job' = job
  PROVE  TurnInv'
<1>1. crossed' = IF Quiet(c) THEN crossed ELSE crossed \cup {c}
  BY DEF New
<1>2. \A d : Serving(d)' = Serving(d)
  BY DEF Serving
<1>3. \A d : d # c => MailFor(d)' = MailFor(d)
  BY DEF MailFor
<1>4. ASSUME c \notin crossed'
      PROVE  InTurn(c)'
  <2>1. Quiet(c)
    BY <1>1, <1>4
  <2>2. MailFor(c)' \subseteq {out}
    BY <2>1 DEF Quiet, MailFor
  <2>3. Serving(c) = {}
    <3>1. \A i \in Serving(c) : job[i].node \in Node /\ i \in On(job[i].node, c)
      BY GoroutineType DEF ChunksInv, Serving, On
    <3>2. QED
      BY <2>1, <3>1 DEF Quiet
  <2>4. QED
    BY <1>2, <2>2, <2>3, TurnOne DEF AllRest
<1>5. QED
  BY <1>1, <1>2, <1>3, <1>4, TurnElsewhere DEF TurnInv

LEMMA RequestsTurn ==
  ASSUME ChunksInv, TurnInv, NEW c \in Chunk, Requests(c)
  PROVE  TurnInv'
<1> USE DEF files, history
<1>1. ASSUME NEW s, ClientWrite(c, s)
      PROVE  TurnInv'
  <2> DEFINE out == [Request("write", c, Client, Head(s), Tail(s))
                       EXCEPT !.data = "whole", !.sum = TRUE]
  <2>1. out.chunk = c /\ mail' = mail \cup {out} /\ New("write", c) /\ job' = job
    BY <1>1 DEF ClientWrite, Request
  <2> HIDE DEF out
  <2>2. QED
    BY <2>1, RequestTurn
<1>2. ASSUME NEW s, ControllerDelete(c, s)
      PROVE  TurnInv'
  <2> DEFINE out == Request("delete", c, Controller, Head(s), Tail(s))
  <2>1. /\ out.chunk = c /\ New("delete", c) /\ job' = job
        /\ mail' = mail \/ mail' = mail \cup {out}
    BY <1>2 DEF ControllerDelete, Request
  <2> HIDE DEF out
  <2>2. QED
    BY <2>1, RequestTurn
<1>3. ASSUME NEW n, NEW s, ControllerOrder(c, n, s)
      PROVE  TurnInv'
  <2> DEFINE out == Request("replica", c, Controller, n, s)
  <2>1. out.chunk = c /\ mail' = mail \cup {out} /\ New("order", c) /\ job' = job
    BY <1>3 DEF ControllerOrder, Request
  <2> HIDE DEF out
  <2>2. QED
    BY <2>1, RequestTurn
<1>4. ASSUME NEW n, ClientRead(c, n)
      PROVE  TurnInv'
  <2> DEFINE out == Request("read", c, Client, n, <<>>)
  <2>1. out.chunk = c /\ mail' = mail \cup {out} /\ New("read", c) /\ job' = job
    BY <1>4 DEF ClientRead, Request
  <2> HIDE DEF out
  <2>2. QED
    BY <2>1, RequestTurn
<1>5. QED
  BY <1>1, <1>2, <1>3, <1>4 DEF Requests

\* Until a process ends.
LEMMA NextTurn ==
  ASSUME ChunksInv, HeldInv, TurnInv, Prompt, [Next]_vars, ended' = {}
  PROVE  TurnInv'
<1> USE DEF files, history
<1>1. ASSUME NEW n, NEW why, Exit(n, why)
      PROVE  FALSE
  BY <1>1 DEF Exit
<1>2. ASSUME UNCHANGED <<job, mail, crossed>>
      PROVE  TurnInv'
  <2>1. \A d : MailFor(d)' = MailFor(d) /\ Serving(d)' = Serving(d)
    BY <1>2 DEF MailFor, Serving
  <2>2. QED
    BY <1>2, <2>1, TurnElsewhere DEF TurnInv
<1>3. ASSUME NEW j \in Job, Save(j) \/ Remove(j) \/ Serve(j) \/ Ask(j)
      PROVE  TurnInv'
  <2>1. CASE Remove(j)
    BY <2>1 DEF HeldInv, GoroutineHeld, Remove, RemoveMeta, RemoveData, RemoveFails,
       PassDelete, Uncount, At, DeletePc
  <2>2. CASE ValidateFails(j) \/ FetchFails(j)
    BY <1>1, <2>2 DEF ValidateFails, FetchFails, Fatal
  <2>3. QED
    BY <1>3, <2>1, <2>2, SaveTurn, ServeTurn, AskTurn
<1>4. ASSUME NEW n \in Node, Heartbeat(n)
      PROVE  TurnInv'
  BY <1>1, <1>2, <1>4 DEF Heartbeat, BeatList, BeatRead, BeatFails, BeatSend
<1>5. CASE Faults
  BY <1>1, <1>2, <1>5, SaveTurn, AskTurn, DialTurn DEF Faults, Kill, Restart, Damage
<1>6. CASE UNCHANGED vars
  BY <1>2, <1>6 DEF vars
<1>7. QED
  BY <1>3, <1>4, <1>5, <1>6, ReceiveTurn, LookupTurn, RequestsTurn DEF Next

-----------------------------------------------------------------------------
(* Why no file is missing. *)

StayInv == /\ ChunksInv
           /\ used["delete"] = 0 => HeldInv
           /\ Prompt /\ used["delete"] = 0 /\ ended = {} => TurnInv

\* A process that has ended stays among those that have.
LEMMA EndedGrows ==
  ASSUME [Next]_vars, ended' = {}
  PROVE  ended = {}
<1> USE DEF files, history, Local
<1>1. ASSUME ended' = ended \/ \E n : ended' = ended \cup {n}
      PROVE  ended = {}
  BY <1>1
<1>2. CASE \E j \in Job : Save(j) \/ Remove(j)
  BY <1>1, <1>2 DEF Save, CreateMeta, WriteMeta, CreateData, Copy, PassOn, Count,
     Remove, RemoveMeta, RemoveData, RemoveFails, PassDelete, Uncount, Fatal, Exit
<1>3. CASE \E j \in Job : Serve(j) \/ Ask(j) \/ \E m \in mail : Receive(j, m)
  BY <1>1, <1>3 DEF Serve, Load, Validated, Corrupted, ValidateFails, Reply, Send,
     Fetch, FetchFails, Ask, Receive, Fatal, Exit
<1>4. CASE (\E n \in Node : Heartbeat(n)) \/ \E m \in mail : Lookup(m)
  BY <1>1, <1>4 DEF Heartbeat, BeatList, BeatRead, BeatFails, BeatSend, Lookup, Exit
<1>5. CASE \E c \in Chunk : Requests(c)
  BY <1>1, <1>5 DEF Requests, ClientWrite, ControllerDelete, ControllerOrder,
     ClientRead, New
<1>6. CASE Faults
  BY <1>1, <1>6 DEF Faults, Kill, Restart, Damage, CopyCut, AskFails, DialFails,
     Exit
<1>7. CASE UNCHANGED vars
  BY <1>7 DEF vars
<1>8. QED
  BY <1>2, <1>3, <1>4, <1>5, <1>6, <1>7 DEF Next

LEMMA NextStay == StayInv /\ [Next]_vars => StayInv'
<1> SUFFICES ASSUME StayInv, [Next]_vars PROVE StayInv'
  OBVIOUS
<1>1. ChunksInv /\ TypeOK /\ ChunksInv'
  BY NextChunks DEF StayInv, ChunksInv
<1>2. ASSUME used'["delete"] = 0
      PROVE  HeldInv' /\ used["delete"] = 0 /\ HeldInv
  <2>1. "delete" \in Outside /\ used["delete"] \in Nat
    BY <1>1 DEF TypeOK, Outside
  <2>2. used["delete"] = 0
    BY <1>1, <1>2, <2>1, UsedGrows
  <2>3. QED
    BY <1>1, <1>2, <2>2, NextHeld DEF StayInv
<1>3. ASSUME Prompt, used'["delete"] = 0, ended' = {}
      PROVE  TurnInv'
  BY <1>1, <1>2, <1>3, EndedGrows, NextTurn DEF StayInv
<1>4. QED
  BY <1>1, <1>2, <1>3 DEF StayInv

LEMMA InitStay == Init => StayInv
<1> SUFFICES ASSUME Init PROVE StayInv
  OBVIOUS
<1>1. HeldInv
  BY DEF Init, HeldInv, ReportsHeld
<1>2. TurnInv
  <2>1. \A c : MailFor(c) = {} /\ Serving(c) = {}
    BY DEF Init, MailFor, Serving
  <2>2. QED
    BY <2>1 DEF TurnInv, InTurn, Writing
<1>3. QED
  BY <1>1, <1>2, InitChunks DEF StayInv

\* A goroutine that validates a chunk finds its file.
LEMMA ValidateFinds ==
  ASSUME StayInv, Prompt, crossed = {}, used["delete"] = 0, ended = {},
         NEW j \in Job, ValidateFails(j)
  PROVE  FALSE
<1> DEFINE g == job[j]
<1>1. PICK c, n : c = g.msg.chunk /\ n = g.node
  OBVIOUS
<1>2. g # None /\ g.at = "validate" /\ data[n][c] = "none"
  BY <1>1 DEF ValidateFails, At
<1>3. ChunksInv /\ HeldInv /\ TurnInv
  BY DEF StayInv
<1>4. c \in Chunk /\ n \in Node
  BY <1>1, <1>2, <1>3, Facts
<1>5. meta[n][c] # "none"
  BY <1>1, <1>2, <1>3 DEF HeldInv, GoroutineHeld, Holders, ReadPc
<1>6. FilesOK(n, c)
  BY <1>3, <1>4 DEF ChunksInv, ChunkOK
<1>7. PICK i \in On(n, c) : At(i, "writeMeta") \/ At(i, "createData")
  BY <1>2, <1>5, <1>6 DEF FilesOK
<1>8. j \in Serving(c) /\ InTurn(c) /\ g.at \notin WritePc /\ ~Rests(g)
  BY <1>1, <1>2, <1>3, <1>4 DEF TurnInv, Serving, WritePc, Rests
<1>9. AllRest(Serving(c) \ {j})
  BY <1>8, OnlyReader
<1>10. i \in Serving(c) \ {j}
  BY <1>2, <1>7 DEF On, Serving, At
<1>11. QED
  BY <1>7, <1>9, <1>10 DEF AllRest, Rests, At

\* While nothing is deleted, repairs are over in time and requests do not cross, no
\* process of a storage node ends first for want of a file: neither os.Remove of
\* deleteChunkInfoFromDisk, nor ValidateFile, nor os.Open of a heartbeat
\* (storagenode.go:193-202, 259-293, 382-395), however many chunks are damaged and
\* repaired at the same time.
THEOREM FilesKept == Spec => FilesStay
<1>1. ASSUME StayInv, [Next]_vars, Prompt, crossed' = {}, used["delete"] = 0,
             ended = {}, NEW n \in Node
      PROVE  status'[n] # "fileMissing"
  <2> USE DEF files, history, Local
  <2>1. ChunksInv /\ HeldInv /\ TypeOK
    BY <1>1 DEF StayInv, ChunksInv
  <2>2. /\ status[n] = "up"
        /\ status \in [Node -> {"up", "killed", "fileMissing", "noReplica", "garbled"}]
    BY <1>1, <2>1 DEF ChunksInv, StatusOK, Up, TypeOK
  <2>3. ASSUME NEW k, NEW why, Exit(k, why), why # "fileMissing"
        PROVE  status'[n] # "fileMissing"
    BY <2>2, <2>3 DEF Exit
  <2>4. ASSUME UNCHANGED status
        PROVE  status'[n] # "fileMissing"
    BY <2>2, <2>4
  <2>5. ASSUME NEW j \in Job, Save(j) \/ Remove(j) \/ Serve(j) \/ Ask(j)
        PROVE  status'[n] # "fileMissing"
    <3>1. CASE Remove(j)
      BY <2>1, <3>1 DEF HeldInv, GoroutineHeld, Remove, RemoveMeta, RemoveData,
         RemoveFails, PassDelete, Uncount, At, DeletePc
    <3>2. CASE ValidateFails(j)
      BY <1>1, <3>2, ValidateFinds DEF ValidateFails, Fatal
    <3>3. CASE FetchFails(j)
      BY <2>3, <3>3 DEF FetchFails, Fatal
    <3>4. CASE Save(j) \/ Ask(j)
      BY <2>4, <3>4 DEF Save, CreateMeta, WriteMeta, CreateData, Copy, PassOn, Count, Ask
    <3>5. CASE Serve(j) /\ ~ValidateFails(j) /\ ~FetchFails(j)
      BY <2>4, <3>5 DEF Serve, Load, Validated, Corrupted, Reply, Send, Fetch
    <3>6. QED
      BY <2>5, <3>1, <3>2, <3>3, <3>4, <3>5
  <2>6. ASSUME NEW j \in Job, NEW m, Receive(j, m)
        PROVE  status'[n] # "fileMissing"
    BY <2>4, <2>6 DEF Receive
  <2>7. ASSUME NEW k \in Node, Heartbeat(k)
        PROVE  status'[n] # "fileMissing"
    <3>1. ASSUME NEW c \in Chunk, BeatFails(k, c)
          PROVE  Exit(k, "garbled")
      BY <2>1, <3>1 DEF BeatFails, HeldInv, ReportsHeld, Holders
    <3>2. QED
      BY <2>3, <2>4, <2>7, <3>1 DEF Heartbeat, BeatList, BeatRead, BeatSend
  <2>8. ASSUME NEW m \in mail, Lookup(m)
        PROVE  status'[n] # "fileMissing"
    BY <2>4, <2>8 DEF Lookup
  <2>9. ASSUME NEW c \in Chunk, Requests(c)
        PROVE  status'[n] # "fileMissing"
    BY <2>4, <2>9 DEF Requests, ClientWrite, ControllerDelete, ControllerOrder, ClientRead
  <2>10. CASE Faults
    <3>1. ASSUME NEW k \in Node, Restart(k)
          PROVE  status'[n] # "fileMissing"
      BY <2>2, <3>1 DEF Restart
    <3>2. QED
      BY <2>3, <2>4, <2>10, <3>1 DEF Faults, Kill, Damage, CopyCut, AskFails,
         DialFails
  <2>11. CASE UNCHANGED vars
    BY <2>4, <2>11 DEF vars
  <2>12. QED
    BY <1>1, <2>5, <2>6, <2>7, <2>8, <2>9, <2>10, <2>11 DEF Next
<1>2. StayInv /\ [Next]_vars =>
        [Prompt /\ crossed' = {} /\ used["delete"] = 0 /\ ended = {} =>
           \A n \in Node : status'[n] # "fileMissing"]_vars
  BY <1>1
<1>3. QED
  BY <1>2, InitStay, NextStay, PTL DEF Spec, FilesStay

-----------------------------------------------------------------------------
(* While chunks are only written and deleted: what a node counts. *)

\* The nodes a message, or a goroutine, is to bring its request to.
NamedBy(m) == {m.to} \cup Entries(m.replicas)
NamesOf(g) == {g.node} \cup Entries(g.msg.replicas)

\* No list names a node twice.
Once(s) == \A i, k \in DOMAIN s : s[i] = s[k] => i = k

MessageListed(m) == /\ m.type \in {"write", "delete"}
                    /\ Once(m.replicas) /\ m.to \notin Entries(m.replicas)
GoroutineListed(g) == /\ g.at \in WritePc \cup DeletePc
                      /\ Once(g.msg.replicas) /\ g.node \notin Entries(g.msg.replicas)

ListsOK == /\ \A m \in mail : MessageListed(m)
           /\ \A j \in Job : job[j] # None => GoroutineListed(job[j])

\* One request gets to each node at most once.
Apart(c) ==
  /\ \A m, k \in MailFor(c) : m # k => NamedBy(m) \cap NamedBy(k) = {}
  /\ \A m \in MailFor(c), j \in Serving(c) : NamedBy(m) \cap NamesOf(job[j]) = {}
  /\ \A i, j \in Serving(c) : i # j => NamesOf(job[i]) \cap NamesOf(job[j]) = {}

\* A chunk the counter of n must have: it is kept and no goroutine that will count
\* it is at work, or it is gone and the goroutine has not yet taken it off.
OwedAt(n, c) ==
  \/ /\ meta[n][c] # "none"
     /\ \A j \in On(n, c) : job[j].at \notin WritePc \ {"createMeta"}
  \/ \E j \in On(n, c) : job[j].at \in DeletePc \ {"removeMeta"}

\* A chunk n may still count.
DueAt(n, c) ==
  \/ \E m \in MailFor(c) : m.type = "write" /\ n \in NamedBy(m)
  \/ \E j \in Serving(c) : job[j].at \in WritePc /\ n \in NamesOf(job[j])

Owed(n) == {c \in Chunk : OwedAt(n, c)}
Due(n)  == {c \in Chunk : DueAt(n, c)}

CountOK(n) ==
  /\ IsFiniteSet(Owed(n)) /\ Cardinality(Owed(n)) <= received[n]
  /\ IsFiniteSet(Due(n)) /\ received[n] + Cardinality(Due(n)) <= used["write"]

\* Chunks are only written and deleted.
Plain == /\ crossed = {} /\ used["read"] = 0 /\ used["order"] = 0
         /\ used["write"] < Word

\* The books of the nodes that have not ended are in order.
Books == /\ ListsOK
         /\ \A c \in Chunk : Apart(c)
         /\ \A n \in Node \ ended : CountOK(n)

\* A list without its first.
LEMMA TailOnce ==
  ASSUME NEW s \in Seq(Node), s # <<>>, Once(s)
  PROVE  /\ Once(Tail(s)) /\ Head(s) \notin Entries(Tail(s))
         /\ Head(s) \in Entries(s) /\ Entries(Tail(s)) \subseteq Entries(s)
<1>1. /\ 1 \in DOMAIN s /\ Head(s) = s[1]
      /\ \A i \in DOMAIN Tail(s) : i + 1 \in DOMAIN s /\ Tail(s)[i] = s[i + 1]
      /\ \A i \in DOMAIN Tail(s) : i \in Nat /\ i >= 1
  BY FirstAndRest
<1>2. Once(Tail(s))
  BY <1>1 DEF Once
<1>3. \A i \in DOMAIN Tail(s) : Tail(s)[i] # Head(s)
  BY <1>1 DEF Once
<1>4. QED
  BY <1>1, <1>2, <1>3 DEF Entries

LEMMA OrderOnce ==
  ASSUME NEW S, NEW s \in Orders(S)
  PROVE  Once(s)
BY DEF Orders, Once

\* Cardinalities.
LEMMA LessMembers ==
  ASSUME NEW S, NEW T, IsFiniteSet(S), T \subseteq S
  PROVE  /\ IsFiniteSet(T) /\ Cardinality(T) \in Nat /\ Cardinality(S) \in Nat
         /\ Cardinality(T) <= Cardinality(S)
BY FS_Subset, FS_CardinalityType

LEMMA OneMember ==
  ASSUME NEW S, NEW x, IsFiniteSet(S)
  PROVE  /\ IsFiniteSet(S \cup {x}) /\ Cardinality(S \cup {x}) \in Nat
         /\ Cardinality(S \cup {x}) <= Cardinality(S) + 1
         /\ IsFiniteSet(S \ {x})
         /\ x \in S => Cardinality(S \ {x}) = Cardinality(S) - 1
BY FS_AddElement, FS_RemoveElement, FS_CardinalityType

\* The counter stays, and so does what it is to count, or some of it.
LEMMA CountStays ==
  ASSUME TypeOK, NEW n \in Node, CountOK(n), received'[n] = received[n],
         used'["write"] = used["write"],
         \A c \in Chunk : (OwedAt(n, c)' => OwedAt(n, c)) /\ (DueAt(n, c)' => DueAt(n, c))
  PROVE  CountOK(n)'
<1>1. Owed(n)' \subseteq Owed(n) /\ Due(n)' \subseteq Due(n)
  BY DEF Owed, Due
<1>2. received[n] \in Nat /\ used["write"] \in Nat
  BY NodeAssumption DEF TypeOK, Outside
<1>3. /\ IsFiniteSet(Owed(n)') /\ Cardinality(Owed(n)') <= Cardinality(Owed(n))
      /\ Cardinality(Owed(n)') \in Nat /\ Cardinality(Owed(n)) \in Nat
  BY <1>1, LessMembers DEF CountOK
<1>4. /\ IsFiniteSet(Due(n)') /\ Cardinality(Due(n)') <= Cardinality(Due(n))
      /\ Cardinality(Due(n)') \in Nat /\ Cardinality(Due(n)) \in Nat
  BY <1>1, LessMembers DEF CountOK
<1>5. QED
  BY <1>2, <1>3, <1>4 DEF CountOK

\* A chunk is counted: it was due.
LEMMA CountRises ==
  ASSUME TypeOK, NEW n \in Node, CountOK(n), used["write"] < Word, NEW c \in Chunk,
         received'[n] = (received[n] + 1) % Word, used'["write"] = used["write"],
         DueAt(n, c), ~DueAt(n, c)',
         \A d \in Chunk : DueAt(n, d)' => DueAt(n, d),
         \A d \in Chunk : d # c => (OwedAt(n, d)' => OwedAt(n, d))
  PROVE  CountOK(n)'
<1>1. Owed(n)' \subseteq Owed(n) \cup {c} /\ Due(n)' \subseteq Due(n) \ {c} /\ c \in Due(n)
  BY DEF Owed, Due
<1>2. received[n] \in Nat /\ used["write"] \in Nat /\ Word \in Nat \ {0}
  BY NodeAssumption DEF TypeOK, Outside
<1>3. /\ IsFiniteSet(Owed(n)') /\ Cardinality(Owed(n)') <= Cardinality(Owed(n)) + 1
      /\ Cardinality(Owed(n)') \in Nat /\ Cardinality(Owed(n)) \in Nat
  <2>1. IsFiniteSet(Owed(n) \cup {c}) /\ Cardinality(Owed(n) \cup {c}) <= Cardinality(Owed(n)) + 1
    BY OneMember DEF CountOK
  <2>2. Cardinality(Owed(n)) \in Nat
    BY FS_CardinalityType DEF CountOK
  <2>3. QED
    BY <1>1, <2>1, <2>2, LessMembers
<1>4. /\ IsFiniteSet(Due(n)') /\ Cardinality(Due(n)') <= Cardinality(Due(n)) - 1
      /\ Cardinality(Due(n)') \in Nat /\ Cardinality(Due(n)) \in Nat
  <2>1. IsFiniteSet(Due(n) \ {c}) /\ Cardinality(Due(n) \ {c}) = Cardinality(Due(n)) - 1
    BY <1>1, OneMember DEF CountOK
  <2>2. Cardinality(Due(n)) \in Nat
    BY FS_CardinalityType DEF CountOK
  <2>3. QED
    BY <1>1, <2>1, <2>2, LessMembers
<1>5. received[n] + 1 <= used["write"]
  BY <1>2, <1>4 DEF CountOK
<1>6. (received[n] + 1) % Word = received[n] + 1
  BY <1>2, <1>5
<1>7. QED
  BY <1>2, <1>3, <1>4, <1>6 DEF CountOK

\* A chunk is taken off: it was owed, so the counter is not 0.
LEMMA CountFalls ==
  ASSUME TypeOK, NEW n \in Node, CountOK(n), NEW c \in Chunk,
         received'[n] = (received[n] - 1) % Word, used'["write"] = used["write"],
         OwedAt(n, c), ~OwedAt(n, c)',
         \A d \in Chunk : (OwedAt(n, d)' => OwedAt(n, d)) /\ (DueAt(n, d)' => DueAt(n, d))
  PROVE  CountOK(n)'
<1>1. Owed(n)' \subseteq Owed(n) \ {c} /\ c \in Owed(n) /\ Due(n)' \subseteq Due(n)
  BY DEF Owed, Due
<1>2. received[n] \in 0 .. Word - 1 /\ used["write"] \in Nat /\ Word \in Nat \ {0}
  BY NodeAssumption DEF TypeOK, Outside
<1>3. /\ IsFiniteSet(Owed(n)') /\ Cardinality(Owed(n)') <= Cardinality(Owed(n)) - 1
      /\ Cardinality(Owed(n)') \in Nat /\ Cardinality(Owed(n)) \in Nat
  <2>1. IsFiniteSet(Owed(n) \ {c}) /\ Cardinality(Owed(n) \ {c}) = Cardinality(Owed(n)) - 1
    BY <1>1, OneMember DEF CountOK
  <2>2. Cardinality(Owed(n)) \in Nat
    BY FS_CardinalityType DEF CountOK
  <2>3. QED
    BY <1>1, <2>1, <2>2, LessMembers
<1>4. /\ IsFiniteSet(Due(n)') /\ Cardinality(Due(n)') <= Cardinality(Due(n))
      /\ Cardinality(Due(n)') \in Nat /\ Cardinality(Due(n)) \in Nat
  BY <1>1, LessMembers DEF CountOK
<1>5. received[n] >= 1
  BY <1>2, <1>3 DEF CountOK
<1>6. (received[n] - 1) % Word = received[n] - 1
  BY <1>2, <1>5
<1>7. QED
  BY <1>2, <1>3, <1>4, <1>6 DEF CountOK

\* A chunk is uploaded.
LEMMA CountAwaits ==
  ASSUME TypeOK, NEW n \in Node, CountOK(n), NEW c \in Chunk,
         received'[n] = received[n], used'["write"] = used["write"] + 1,
         \A d \in Chunk : OwedAt(n, d)' => OwedAt(n, d),
         \A d \in Chunk : d # c => (DueAt(n, d)' => DueAt(n, d))
  PROVE  CountOK(n)'
<1>1. Owed(n)' \subseteq Owed(n) /\ Due(n)' \subseteq Due(n) \cup {c}
  BY DEF Owed, Due
<1>2. received[n] \in Nat /\ used["write"] \in Nat
  BY NodeAssumption DEF TypeOK, Outside
<1>3. /\ IsFiniteSet(Owed(n)') /\ Cardinality(Owed(n)') <= Cardinality(Owed(n))
      /\ Cardinality(Owed(n)') \in Nat /\ Cardinality(Owed(n)) \in Nat
  BY <1>1, LessMembers DEF CountOK
<1>4. /\ IsFiniteSet(Due(n)') /\ Cardinality(Due(n)') <= Cardinality(Due(n)) + 1
      /\ Cardinality(Due(n)') \in Nat /\ Cardinality(Due(n)) \in Nat
  <2>1. IsFiniteSet(Due(n) \cup {c}) /\ Cardinality(Due(n) \cup {c}) <= Cardinality(Due(n)) + 1
    BY OneMember DEF CountOK
  <2>2. Cardinality(Due(n)) \in Nat
    BY FS_CardinalityType DEF CountOK
  <2>3. QED
    BY <1>1, <2>1, <2>2, LessMembers
<1>5. QED
  BY <1>2, <1>3, <1>4 DEF CountOK

\* The nodes of one request are apart, so a goroutine is alone with its files.
LEMMA OneHere ==
  ASSUME NEW j \in Job, job[j] # None, NEW c, c = job[j].msg.chunk, Apart(c)
  PROVE  On(job[j].node, c) = {j}
<1>1. j \in Serving(c) /\ j \in On(job[j].node, c)
  BY DEF Serving, On
<1>2. ASSUME NEW i \in On(job[j].node, c), i # j
      PROVE  FALSE
  <2>1. i \in Serving(c) /\ job[i].node = job[j].node
    BY DEF Serving, On
  <2>2. job[j].node \in NamesOf(job[i]) \cap NamesOf(job[j])
    BY <2>1 DEF NamesOf
  <2>3. QED
    BY <1>1, <1>2, <2>1, <2>2 DEF Apart
<1>3. QED
  BY <1>1, <1>2

LEMMA ListsStay ==
  ASSUME TypeOK, ListsOK, NEW j \in Job, NEW v, job' = [job EXCEPT ![j] = v],
         v # None => GoroutineListed(v),
         \A m \in mail' : m \in mail \/ MessageListed(m)
  PROVE  ListsOK'
<1>1. \A i \in Job : job'[i] = IF i = j THEN v ELSE job[i]
  BY DEF TypeOK
<1>2. \A m \in mail' : MessageListed(m)
  BY DEF ListsOK
<1>3. \A i \in Job : job'[i] # None => GoroutineListed(job'[i])
  BY <1>1 DEF ListsOK
<1>4. QED
  BY <1>2, <1>3 DEF ListsOK, MessageListed, GoroutineListed

LEMMA ApartElsewhere ==
  ASSUME NEW d, MailFor(d)' \subseteq MailFor(d), Serving(d)' \subseteq Serving(d),
         \A i \in Serving(d)' : job'[i] = job[i], Apart(d)
  PROVE  Apart(d)'
<1>1. \A i \in Serving(d)' : NamesOf(job[i])' = NamesOf(job[i])
  BY DEF NamesOf
<1>2. \A m, k \in MailFor(d)' : m # k => NamedBy(m) \cap NamedBy(k) = {}
  BY DEF Apart
<1>3. \A m \in MailFor(d)', i \in Serving(d)' : NamedBy(m) \cap NamesOf(job[i])' = {}
  BY <1>1 DEF Apart
<1>4. \A i, k \in Serving(d)' : i # k => NamesOf(job[i])' \cap NamesOf(job[k])' = {}
  BY <1>1 DEF Apart
<1>5. QED
  BY <1>2, <1>3, <1>4 DEF Apart

\* A goroutine keeps a part of its list and sends another one on.
LEMMA ApartStays ==
  ASSUME TypeOK, NEW j, NEW v, NEW c \in Chunk, JobTurn(j, v, c),
         \A d \in Chunk : Apart(d),
         v # None => NamesOf(v) \subseteq NamesOf(job[j]),
         NEW out, mail' \subseteq mail \cup {out},
         out \in mail' \ mail =>
           /\ NamedBy(out) \subseteq NamesOf(job[j])
           /\ v # None => NamedBy(out) \cap NamesOf(v) = {}
  PROVE  \A d \in Chunk : Apart(d)'
<1>1. ASSUME NEW d \in Chunk, d # c
      PROVE  Apart(d)'
  <2>1. j \in Job /\ c = job[j].msg.chunk /\ Moves(j, v)
    BY DEF JobTurn
  <2>2. Serving(d)' = Serving(d) /\ \A i \in Job : job'[i] = IF i = j THEN v ELSE job[i]
    BY <1>1, <2>1, MoveShape
  <2>3. \A i \in Serving(d) : job'[i] = job[i]
    BY <1>1, <2>1, <2>2 DEF Serving
  <2>4. MailFor(d)' = MailFor(d)
    BY <1>1 DEF MailFor, JobTurn
  <2>5. QED
    BY <1>1, <2>2, <2>3, <2>4, ApartElsewhere
<1>2. Apart(c)'
  <2> DEFINE of(i) == NamesOf(job[i])
  <2>1. j \in Serving(c)
    BY TurnShape
  <2>2. \A i \in Serving(c)' : i # j => i \in Serving(c) /\ of(i)' = of(i)
    BY TurnShape DEF NamesOf
  <2>3. j \in Serving(c)' => v # None /\ of(j)' = NamesOf(v)
    BY TurnShape DEF NamesOf
  <2>4. \A m \in MailFor(c)' : m \in MailFor(c) \/ (m = out /\ out \in mail' \ mail)
    BY DEF MailFor
  <2>5. \A i \in Serving(c)' : of(i)' \subseteq of(i) /\ i \in Serving(c)
    BY <2>1, <2>2, <2>3
  <2>6. /\ \A m, k \in MailFor(c) : m # k => NamedBy(m) \cap NamedBy(k) = {}
        /\ \A m \in MailFor(c), i \in Serving(c) : NamedBy(m) \cap of(i) = {}
        /\ \A i, k \in Serving(c) : i # k => of(i) \cap of(k) = {}
    BY DEF Apart
  <2> HIDE DEF of
  <2>7. \A m, k \in MailFor(c)' : m # k => NamedBy(m) \cap NamedBy(k) = {}
    BY <2>1, <2>4, <2>6 DEF of
  <2>8. \A m \in MailFor(c)', i \in Serving(c)' : NamedBy(m) \cap of(i)' = {}
    <3>1. ASSUME NEW m \in MailFor(c)', NEW i \in Serving(c)'
          PROVE  NamedBy(m) \cap of(i)' = {}
      <4>1. CASE m \in MailFor(c)
        BY <2>5, <2>6, <3>1, <4>1
      <4>2. CASE m \notin MailFor(c)
        <5>1. m = out /\ NamedBy(out) \subseteq of(j)
          BY <2>4, <3>1, <4>2 DEF of
        <5>2. CASE i = j
          BY <2>3, <2>4, <3>1, <4>2, <5>2
        <5>3. CASE i # j
          BY <2>1, <2>5, <2>6, <3>1, <5>1, <5>3
        <5>4. QED
          BY <5>2, <5>3
      <4>3. QED
        BY <4>1, <4>2
    <3>2. QED
      BY <3>1
  <2>9. \A i, k \in Serving(c)' : i # k => of(i)' \cap of(k)' = {}
    BY <2>5, <2>6
  <2>10. QED
    BY <2>7, <2>8, <2>9 DEF Apart, of
<1>3. QED
  BY <1>1, <1>2

\* Where j is not at work nothing more is owed, and nowhere is more due.
LEMMA CountsElsewhere ==
  ASSUME TypeOK, NEW j, NEW v, NEW c \in Chunk, JobTurn(j, v, c),
         v # None => /\ v.at \in WritePc => job[j].at \in WritePc
                     /\ NamesOf(v) \subseteq NamesOf(job[j]),
         \A m \in mail' \ mail : /\ NamedBy(m) \subseteq NamesOf(job[j])
                                 /\ m.type = "write" => job[j].at \in WritePc,
         \A n \in Node, d \in Chunk :
           n # job[j].node \/ d # c => meta'[n][d] = meta[n][d]
  PROVE  \A n \in Node, d \in Chunk :
           /\ DueAt(n, d)' => DueAt(n, d)
           /\ n # job[j].node \/ d # c => (OwedAt(n, d)' => OwedAt(n, d))
<1>1. /\ j \in Job /\ c = job[j].msg.chunk /\ Moves(j, v) /\ job[j] # None
      /\ mail \subseteq mail' /\ \A m \in mail' \ mail : m.chunk = c
  BY DEF JobTurn, Moves
<1>2. /\ \A i \in Job : job'[i] = IF i = j THEN v ELSE job[i]
      /\ j \in Serving(c)
  BY <1>1, MoveShape DEF Serving
<1>3. \A d : \A i \in Serving(d)' :
        /\ i \in Serving(d)
        /\ i # j => job'[i] = job[i]
        /\ i = j => job'[i] = v /\ v # None
  BY <1>1, <1>2 DEF Serving, Moves
<1>4. ASSUME NEW n \in Node, NEW d \in Chunk, DueAt(n, d)'
      PROVE  DueAt(n, d)
  <2>1. CASE \E m \in MailFor(d)' : m.type = "write" /\ n \in NamedBy(m)
    <3>1. PICK m \in MailFor(d)' : m.type = "write" /\ n \in NamedBy(m)
      BY <2>1
    <3>2. CASE m \in mail
      BY <3>1, <3>2 DEF DueAt, MailFor
    <3>3. CASE m \in mail' \ mail
      <4>1. d = c /\ n \in NamesOf(job[j]) /\ job[j].at \in WritePc
        BY <1>1, <3>1, <3>3 DEF MailFor
      <4>2. QED
        BY <1>2, <4>1 DEF DueAt
    <3>4. QED
      BY <3>1, <3>2, <3>3 DEF MailFor
  <2>2. CASE \E i \in Serving(d)' : job'[i].at \in WritePc /\ n \in NamesOf(job'[i])
    <3>1. PICK i \in Serving(d)' : job'[i].at \in WritePc /\ n \in NamesOf(job'[i])
      BY <2>2
    <3>2. i \in Serving(d) /\ job[i].at \in WritePc /\ n \in NamesOf(job[i])
      BY <1>3, <3>1
    <3>3. QED
      BY <3>2 DEF DueAt
  <2>3. QED
    BY <1>4, <2>1, <2>2 DEF DueAt, NamesOf
<1>5. ASSUME NEW n \in Node, NEW d \in Chunk, n # job[j].node \/ d # c, OwedAt(n, d)'
      PROVE  OwedAt(n, d)
  <2>1. On(n, d)' = On(n, d) /\ \A i \in On(n, d) : job'[i] = job[i]
    BY <1>1, <1>2, <1>5 DEF On, Moves
  <2>2. QED
    BY <1>5, <2>1 DEF OwedAt
<1>6. QED
  BY <1>4, <1>5

\* Goroutine j goes on with writing, or with deleting, or returns uncounted.
LEMMA BooksStay ==
  ASSUME ChunksInv, Books, NEW j \in Job, NEW v, Moves(j, v), v # None,
         NEW c, c = job[j].msg.chunk, NEW n, n = job[j].node, GoroutineListed(v),
         v.at \in WritePc => job[j].at \in WritePc, NamesOf(v) \subseteq NamesOf(job[j]),
         mail \subseteq mail', NEW out, mail' \subseteq mail \cup {out},
         out \in mail' =>
           /\ out.chunk = c /\ MessageListed(out)
           /\ out.type = "write" => job[j].at \in WritePc
           /\ NamedBy(out) \subseteq NamesOf(job[j]) /\ NamedBy(out) \cap NamesOf(v) = {},
         \A k \in Node, d \in Chunk :
           k # job[j].node \/ d # c => meta'[k][d] = meta[k][d],
         OwedAt(n, c)' => OwedAt(n, c),
         UNCHANGED <<crossed, received, ended>>, used'["write"] = used["write"]
  PROVE  Books'
<1>1. TypeOK /\ c \in Chunk /\ job' = [job EXCEPT ![j] = v]
  BY Facts DEF Moves, ChunksInv
<1>2. JobTurn(j, v, c)
  BY DEF JobTurn
<1>3. ListsOK'
  BY <1>1, ListsStay DEF Books
<1>4. \A d \in Chunk : Apart(d)'
  BY <1>1, <1>2, ApartStays DEF Books
<1>5. \A m \in mail' \ mail : /\ NamedBy(m) \subseteq NamesOf(job[j])
                              /\ m.type = "write" => job[j].at \in WritePc
  OBVIOUS
<1>6. \A k \in Node, d \in Chunk :
        /\ DueAt(k, d)' => DueAt(k, d)
        /\ k # job[j].node \/ d # c => (OwedAt(k, d)' => OwedAt(k, d))
  BY <1>1, <1>2, <1>5, CountsElsewhere
<1>7. ASSUME NEW k \in Node, NEW d \in Chunk, OwedAt(k, d)'
      PROVE  OwedAt(k, d)
  BY <1>6, <1>7
<1>8. ASSUME NEW k \in Node \ ended'
      PROVE  CountOK(k)'
  BY <1>1, <1>6, <1>7, CountStays DEF Books
<1>9. QED
  BY <1>3, <1>4, <1>8 DEF Books

LEMMA SaveBooks ==
  ASSUME ChunksInv, Plain, Books, NEW j \in Job, Save(j) \/ CopyCut(j)
  PROVE  Books'
<1> USE DEF files, history, Local
<1> DEFINE g == job[j]
           rest == g.msg.replicas
<1>1. /\ g # None /\ g.at \in WritePc /\ UNCHANGED <<crossed, ended>>
  BY DEF Save, CreateMeta, WriteMeta, CreateData, Copy, CopyCut, PassOn, Count, At,
     WritePc
<1>2. PICK c, n : c = g.msg.chunk /\ n = g.node
  OBVIOUS
<1>3. /\ TypeOK /\ g \in Goroutine /\ g.msg \in Message /\ ~g.asking
      /\ c \in Chunk /\ n \in Node /\ rest \in Seq(Node)
  BY <1>1, <1>2, Facts DEF GoroutineOK, ReadPc, WritePc
<1>4. used'["write"] = used["write"]
  <2>1. used' = used \/ Use("cut")
    BY DEF Save, CreateMeta, WriteMeta, CreateData, Copy, CopyCut, PassOn, Count
  <2>2. used \in [Outside -> Nat] /\ "write" \in Outside
    BY <1>3 DEF TypeOK, Outside
  <2>3. QED
    BY <2>1, <2>2 DEF Use
<1>5. /\ Apart(c) /\ On(n, c) = {j} /\ GoroutineListed(g) /\ j \in Serving(c)
  BY <1>1, <1>2, <1>3, OneHere DEF Books, ListsOK, Serving
<1>6. \A k \in Node, d \in Chunk : k # n \/ d # c => meta'[k][d] = meta[k][d]
  <2>1. CASE CreateMeta(j) \/ WriteMeta(j)
    <3>1. \/ meta' = meta
          \/ \E line : meta' = [meta EXCEPT ![n][c] = line]
      BY <1>2, <2>1, LineWritten DEF CreateMeta
    <3>2. QED
      BY <1>3, <3>1 DEF TypeOK
  <2>2. CASE CreateData(j) \/ Copy(j) \/ CopyCut(j) \/ PassOn(j) \/ Count(j)
    BY <2>2 DEF CreateData, Copy, CopyCut, PassOn, Count
  <2>3. QED
    BY <2>1, <2>2 DEF Save
<1>7. ASSUME NEW v, Moves(j, v), v # None, v.at \in WritePc \ {"createMeta"}
      PROVE  ~OwedAt(n, c)'
  <2>1. On(n, c)' = {j} /\ job'[j] = v
    <3>1. job' = [job EXCEPT ![j] = v] /\ v.node = n /\ v.msg.chunk = c
      BY <1>2, <1>7 DEF Moves
    <3>2. \A i \in Job : job'[i] = IF i = j THEN v ELSE job[i]
      BY <1>3, <3>1 DEF TypeOK
    <3>3. On(n, c)' = On(n, c)
      BY <1>2, <1>5, <1>7, <3>1, <3>2 DEF On
    <3>4. QED
      BY <1>5, <3>2, <3>3
  <2>2. v.at \notin DeletePc \ {"removeMeta"}
    BY <1>7 DEF WritePc, DeletePc
  <2>3. QED
    BY <1>7, <2>1, <2>2 DEF OwedAt
<1>8. ASSUME NEW v \in Goroutine, job' = [job EXCEPT ![j] = v],
             v.at \in WritePc \ {"createMeta"}, v.node = n, v.msg = g.msg,
             mail' = mail, received' = received
      PROVE  Books'
  <2>1. v # None /\ Moves(j, v) /\ GoroutineListed(v) /\ NamesOf(v) = NamesOf(g)
    BY <1>1, <1>2, <1>5, <1>8, NoneAssumption DEF Moves, GoroutineListed, NamesOf
  <2>2. ~OwedAt(n, c)'
    BY <1>7, <1>8, <2>1
  <2>3. PICK out : out \notin mail
    BY NoSetContainsEverything
  <2>4. QED
    BY <1>1, <1>2, <1>4, <1>6, <1>8, <2>1, <2>2, <2>3, BooksStay
<1>9. ASSUME NEW l \in WritePc \ {"createMeta"}, Goto(j, l), mail' = mail,
             received' = received
      PROVE  Books'
  <2> DEFINE v == [g EXCEPT !.at = l]
  <2>1. v \in Goroutine /\ v.at = l /\ v.node = n /\ v.msg = g.msg
    BY <1>2, <1>3, <1>9 DEF Goroutine, BusyPc
  <2>2. job' = [job EXCEPT ![j] = v]
    BY <1>9 DEF Goto
  <2> HIDE DEF v
  <2>3. QED
    BY <1>8, <1>9, <2>1, <2>2
<1>10. CASE CreateMeta(j) \/ CreateData(j)
  <2> DEFINE v(l, o) == [g EXCEPT !.at = l, !.open = o]
  <2>1. \A l \in BusyPc, o \in SUBSET {"meta", "data"} :
          /\ v(l, o).at = l /\ v(l, o).msg = g.msg /\ v(l, o).node = n
          /\ v(l, o) \in Goroutine
    BY <1>2, <1>3 DEF Goroutine
  <2>2. \/ job' = [job EXCEPT ![j] = v("writeMeta", {"meta"})]
        \/ job' = [job EXCEPT ![j] = v("copy", {"data"})]
    BY <1>10 DEF CreateMeta, CreateData
  <2>3. {"writeMeta", "copy"} \subseteq (WritePc \ {"createMeta"}) \cap BusyPc
    BY DEF WritePc, BusyPc
  <2>4. mail' = mail /\ received' = received
    BY <1>10 DEF CreateMeta, CreateData
  <2> HIDE DEF v
  <2>5. QED
    BY <1>8, <2>1, <2>2, <2>3, <2>4
<1>11. CASE WriteMeta(j) \/ Copy(j) \/ CopyCut(j)
  <2>1. "createData" \in WritePc \ {"createMeta"} /\ "passOn" \in WritePc \ {"createMeta"}
    BY DEF WritePc
  <2>2. QED
    BY <1>9, <1>11, <2>1 DEF WriteMeta, Copy, CopyCut
<1>12. CASE PassOn(j)
  <2>1. CASE rest # <<>> /\ Up(Head(rest))
    <3> DEFINE v == [g EXCEPT !.msg.replicas = Tail(rest)]
    <3>1. /\ v.at = "passOn" /\ v.node = n /\ v.msg.chunk = c
          /\ v.msg.replicas = Tail(rest)
      BY <1>2, <1>3, <1>12 DEF PassOn, At, Goroutine, Message
    <3>2. v \in Goroutine
      <4>1. Tail(rest) \in Seq(Node)
        BY <1>3, <2>1
      <4>2. [g.msg EXCEPT !.replicas = Tail(rest)] \in Message
        BY <1>3, <4>1 DEF Message
      <4>3. QED
        BY <1>3, <4>2 DEF Goroutine
    <3>3. job' = [job EXCEPT ![j] = v] /\ mail' = mail \cup {Upload(j)}
          /\ received' = received
      BY <1>12, <2>1 DEF PassOn
    <3> HIDE DEF v
    <3>4. /\ Once(Tail(rest)) /\ Head(rest) \notin Entries(Tail(rest))
          /\ Head(rest) \in Entries(rest) /\ Entries(Tail(rest)) \subseteq Entries(rest)
      BY <1>3, <1>5, <2>1, TailOnce DEF GoroutineListed
    <3>5. v # None /\ Moves(j, v) /\ "passOn" \in WritePc \ {"createMeta"}
      BY <1>1, <1>2, <3>1, <3>2, <3>3, NoneAssumption DEF Moves, WritePc
    <3>6. GoroutineListed(v) /\ NamesOf(v) \subseteq NamesOf(g) /\ Head(rest) \notin NamesOf(v)
      BY <1>2, <1>5, <3>1, <3>4, <3>5 DEF GoroutineListed, NamesOf
    <3>7. /\ Upload(j).chunk = c /\ Upload(j).type = "write"
           /\ Upload(j).to = Head(rest) /\ Upload(j).replicas = <<>>
      BY <1>2 DEF Upload
    <3>8. PICK out : out = Upload(j)
      OBVIOUS
    <3>9. MessageListed(out) /\ NamedBy(out) = {Head(rest)}
      BY <3>7, <3>8 DEF MessageListed, NamedBy, Entries, Once
    <3>10. NamedBy(out) \subseteq NamesOf(g) /\ NamedBy(out) \cap NamesOf(v) = {}
      BY <3>4, <3>6, <3>9 DEF NamesOf
    <3>11. ~OwedAt(n, c)'
      BY <1>7, <3>1, <3>5
    <3>12. out.chunk = c /\ g.at \in WritePc /\ mail' = mail \cup {out}
      BY <1>1, <3>7, <3>3, <3>8
    <3>13. v.at \in WritePc /\ received' = received
      BY <3>1, <3>3 DEF WritePc
    <3>14. mail \subseteq mail' /\ mail' \subseteq mail \cup {out}
      BY <3>12
    <3>15. QED
      BY <1>1, <1>2, <1>4, <1>6, <3>5, <3>6, <3>9, <3>10, <3>11, <3>12, <3>13, <3>14,
         BooksStay
  <2>2. CASE ~(rest # <<>> /\ Up(Head(rest)))
    <3>1. "count" \in WritePc \ {"createMeta"}
      BY DEF WritePc
    <3>2. QED
      BY <1>9, <1>12, <2>2, <3>1 DEF PassOn
  <2>3. QED
    BY <2>1, <2>2
<1>13. CASE Count(j)
  <2>1. /\ job' = [job EXCEPT ![j] = None] /\ mail' = mail
        /\ received' = [received EXCEPT ![n] = (@ + 1) % Word]
    BY <1>2, <1>3, <1>13 DEF Count, Finish, Finished
  <2>2. Moves(j, None)
    BY <1>1, <2>1 DEF Moves
  <2>3. JobTurn(j, None, c)
    BY <1>1, <1>2, <2>1, <2>2 DEF JobTurn
  <2>4. ListsOK'
    BY <1>3, <2>1, ListsStay DEF Books
  <2>5. PICK out : out \notin mail
    BY NoSetContainsEverything
  <2>6. \A d \in Chunk : Apart(d)'
    BY <1>3, <2>1, <2>3, <2>5, ApartStays DEF Books
  <2>7. \A k \in Node, d \in Chunk :
          /\ DueAt(k, d)' => DueAt(k, d)
          /\ k # n \/ d # c => (OwedAt(k, d)' => OwedAt(k, d))
    BY <1>2, <1>3, <1>6, <2>1, <2>3, CountsElsewhere
  <2>8. DueAt(n, c)
    BY <1>1, <1>2, <1>5 DEF DueAt, NamesOf
  <2>9. ~DueAt(n, c)'
    <3>1. n \in NamesOf(g)
      BY <1>2 DEF NamesOf
    <3>2. \A m \in MailFor(c) : n \notin NamedBy(m)
      BY <1>5, <3>1 DEF Apart
    <3>3. \A i \in Serving(c) : i # j => n \notin NamesOf(job[i])
      BY <1>5, <3>1 DEF Apart
    <3>4. \A i \in Serving(c)' : i # j /\ i \in Serving(c) /\ job'[i] = job[i]
      BY <1>3, <2>3, TurnShape
    <3>5. MailFor(c)' = MailFor(c)
      BY <2>1 DEF MailFor
    <3>6. QED
      BY <3>2, <3>3, <3>4, <3>5 DEF DueAt, NamesOf
  <2>10. received \in [Node -> 0 .. Word - 1]
    BY <1>3 DEF TypeOK
  <2>11. ASSUME NEW k \in Node \ ended'
         PROVE  CountOK(k)'
    <3>1. CountOK(k)
      BY <1>1, <2>11 DEF Books
    <3>2. CASE k = n
      <4>1. received'[n] = (received[n] + 1) % Word
        BY <1>3, <2>1, <2>10
      <4>2. QED
        BY <1>3, <1>4, <2>7, <2>8, <2>9, <3>1, <3>2, <4>1, CountRises DEF Plain
    <3>3. CASE k # n
      <4>1. received'[k] = received[k]
        BY <1>3, <2>1, <2>10, <3>3
      <4>2. QED
        BY <1>3, <1>4, <2>7, <3>1, <3>3, <4>1, CountStays
    <3>4. QED
      BY <3>2, <3>3
  <2>12. QED
    BY <2>4, <2>6, <2>11 DEF Books
<1>14. QED
  BY <1>10, <1>11, <1>12, <1>13 DEF Save

\* A file is removed: what it leaves of all goroutines, and of j.
Unlinks(j, n, c, kind, l) == [Unlinked(n, c, kind) EXCEPT ![j].at = l]
Unnamed(j, kind, l)       == [job[j] EXCEPT !.open = @ \ {kind}, !.at = l]

\* Where j is alone, only its own descriptor is left without a name.
LEMMA UnlinkOne ==
  ASSUME TypeOK, NEW j \in Job, job[j] # None, NEW n, NEW c, NEW kind, NEW l,
         On(n, c) = {j}
  PROVE  Unlinks(j, n, c, kind, l) = [job EXCEPT ![j] = Unnamed(j, kind, l)]
<1> DEFINE u == Unlinked(n, c, kind)
           w == [job[j] EXCEPT !.open = @ \ {kind}]
<1>1. u = [i \in Job |-> IF i = j THEN w ELSE job[i]]
  BY DEF Unlinked
<1>2. job \in [Job -> Goroutine \cup {None}] /\ job[j] \in Goroutine
  BY DEF TypeOK
<1>3. [w EXCEPT !.at = l] = [job[j] EXCEPT !.open = @ \ {kind}, !.at = l]
  BY <1>2 DEF Goroutine
<1>4. [u EXCEPT ![j].at = l] = [i \in Job |-> IF i = j THEN [w EXCEPT !.at = l] ELSE job[i]]
  BY <1>1
<1>5. \A x : [job EXCEPT ![j] = x] = [i \in Job |-> IF i = j THEN x ELSE job[i]]
  BY <1>2
<1> HIDE DEF w
<1>6. Unlinks(j, n, c, kind, l) = [i \in Job |-> IF i = j THEN Unnamed(j, kind, l) ELSE job[i]]
  BY <1>3, <1>4 DEF Unlinks, Unnamed
<1>7. QED
  BY <1>5, <1>6

LEMMA RemoveBooks ==
  ASSUME ChunksInv, Plain, Books, NEW j \in Job, Remove(j) /\ ~RemoveFails(j)
  PROVE  Books'
<1> USE DEF files, history, Local
<1> DEFINE g == job[j]
           rest == g.msg.replicas
<1>1. /\ g # None /\ g.at \in DeletePc /\ UNCHANGED <<crossed, ended, used>>
  BY DEF Remove, RemoveMeta, RemoveData, PassDelete, Uncount, At, DeletePc
<1>2. PICK c, n : c = g.msg.chunk /\ n = g.node
  OBVIOUS
<1>3. /\ TypeOK /\ g \in Goroutine /\ g.msg \in Message /\ ~g.asking
      /\ c \in Chunk /\ n \in Node /\ rest \in Seq(Node)
  BY <1>1, <1>2, Facts DEF GoroutineOK, ReadPc, DeletePc
<1>4. /\ Apart(c) /\ On(n, c) = {j} /\ GoroutineListed(g) /\ j \in Serving(c)
  BY <1>1, <1>2, <1>3, OneHere DEF Books, ListsOK, Serving
<1>5. \A k \in Node, d \in Chunk : k # n \/ d # c => meta'[k][d] = meta[k][d]
  <2>1. meta' = meta \/ meta' = [meta EXCEPT ![n][c] = "none"]
    BY <1>2 DEF Remove, RemoveMeta, RemoveData, PassDelete, Uncount
  <2>2. QED
    BY <1>3, <2>1 DEF TypeOK
<1>6. OwedAt(n, c)
  <2>1. CASE RemoveMeta(j)
    <3>1. meta[n][c] # "none" /\ g.at = "removeMeta"
      BY <1>2, <2>1 DEF RemoveMeta, At
    <3>2. "removeMeta" \notin WritePc
      BY DEF WritePc
    <3>3. QED
      BY <1>4, <3>1, <3>2 DEF OwedAt
  <2>2. CASE RemoveData(j) \/ PassDelete(j) \/ Uncount(j)
    <3>1. g.at \in DeletePc \ {"removeMeta"}
      BY <2>2 DEF RemoveData, PassDelete, Uncount, At, DeletePc
    <3>2. QED
      BY <1>4, <3>1 DEF OwedAt
  <2>3. QED
    BY <2>1, <2>2 DEF Remove
<1>7. ASSUME NEW v \in Goroutine, job' = [job EXCEPT ![j] = v], v.at \in DeletePc,
             v.node = n, v.msg = g.msg, mail' = mail, received' = received
      PROVE  Books'
  <2>1. v # None /\ Moves(j, v) /\ GoroutineListed(v) /\ NamesOf(v) = NamesOf(g)
    BY <1>1, <1>2, <1>4, <1>7, NoneAssumption DEF Moves, GoroutineListed, NamesOf
  <2>2. v.at \notin WritePc
    BY <1>7 DEF DeletePc, WritePc
  <2>3. PICK out : out \notin mail
    BY NoSetContainsEverything
  <2>4. QED
    BY <1>1, <1>2, <1>5, <1>6, <1>7, <2>1, <2>2, <2>3, BooksStay
<1>8. CASE RemoveMeta(j) \/ RemoveData(j)
  <2> DEFINE v(l, kind) == Unnamed(j, kind, l)
  <2>1. \A l \in BusyPc : \A kind :
          /\ v(l, kind) \in Goroutine /\ v(l, kind).at = l
          /\ v(l, kind).node = n /\ v(l, kind).msg = g.msg
    BY <1>2, <1>3 DEF Goroutine, Unnamed
  <2>2. {"removeData", "passDelete"} \subseteq DeletePc \cap BusyPc
    BY DEF DeletePc, BusyPc
  <2>3. \E l \in {"removeData", "passDelete"}, kind \in {"meta", "data"} :
          job' = Unlinks(j, n, c, kind, l)
    BY <1>2, <1>8 DEF RemoveMeta, RemoveData, Unlinks
  <2>4. PICK l \in {"removeData", "passDelete"}, kind \in {"meta", "data"} :
          job' = Unlinks(j, n, c, kind, l)
    BY <2>3
  <2>5. job' = [job EXCEPT ![j] = v(l, kind)]
    BY <1>1, <1>3, <1>4, <2>4, UnlinkOne
  <2>6. mail' = mail /\ received' = received
    BY <1>8 DEF RemoveMeta, RemoveData
  <2> HIDE DEF v
  <2>7. QED
    BY <1>7, <2>1, <2>2, <2>5, <2>6
<1>9. CASE PassDelete(j)
  <2>1. CASE rest # <<>> /\ Up(Head(rest))
    <3> DEFINE v == [g EXCEPT !.msg.replicas = Tail(rest)]
    <3>1. /\ v.at = "passDelete" /\ v.node = n /\ v.msg.chunk = c
          /\ v.msg.replicas = Tail(rest)
      BY <1>2, <1>3, <1>9 DEF PassDelete, At, Goroutine, Message
    <3>2. v \in Goroutine
      <4>1. Tail(rest) \in Seq(Node)
        BY <1>3, <2>1
      <4>2. [g.msg EXCEPT !.replicas = Tail(rest)] \in Message
        BY <1>3, <4>1 DEF Message
      <4>3. QED
        BY <1>3, <4>2 DEF Goroutine
    <3>3. PICK out : out = Request("delete", c, n, Head(rest), <<>>)
      OBVIOUS
    <3>4. job' = [job EXCEPT ![j] = v] /\ mail' = mail \cup {out} /\ received' = received
      BY <1>2, <1>9, <2>1, <3>3 DEF PassDelete
    <3> HIDE DEF v
    <3>5. /\ Once(Tail(rest)) /\ Head(rest) \notin Entries(Tail(rest))
          /\ Head(rest) \in Entries(rest) /\ Entries(Tail(rest)) \subseteq Entries(rest)
      BY <1>3, <1>4, <2>1, TailOnce DEF GoroutineListed
    <3>6. /\ v # None /\ Moves(j, v) /\ v.at \notin WritePc /\ "passDelete" \in DeletePc
      BY <1>1, <1>2, <3>1, <3>2, <3>4, NoneAssumption DEF Moves, WritePc, DeletePc
    <3>7. GoroutineListed(v) /\ NamesOf(v) \subseteq NamesOf(g) /\ Head(rest) \notin NamesOf(v)
      BY <1>2, <1>4, <3>1, <3>5, <3>6 DEF GoroutineListed, NamesOf
    <3>8. /\ out.chunk = c /\ out.type = "delete" /\ out.to = Head(rest)
          /\ out.replicas = <<>>
      BY <3>3 DEF Request
    <3>9. MessageListed(out) /\ NamedBy(out) = {Head(rest)} /\ out.type # "write"
      BY <3>8 DEF MessageListed, NamedBy, Entries, Once
    <3>10. NamedBy(out) \subseteq NamesOf(g) /\ NamedBy(out) \cap NamesOf(v) = {}
      BY <3>5, <3>7, <3>9 DEF NamesOf
    <3>11. mail \subseteq mail' /\ mail' \subseteq mail \cup {out}
      BY <3>4
    <3>12. QED
      BY <1>1, <1>2, <1>5, <1>6, <3>4, <3>6, <3>7, <3>8, <3>9, <3>10, <3>11, BooksStay
  <2>2. CASE ~(rest # <<>> /\ Up(Head(rest)))
    <3> DEFINE v == [g EXCEPT !.at = "uncount"]
    <3>1. /\ v.at = "uncount" /\ v.node = n /\ v.msg = g.msg /\ v \in Goroutine
          /\ "uncount" \in DeletePc
      BY <1>2, <1>3 DEF Goroutine, DeletePc, BusyPc
    <3>2. job' = [job EXCEPT ![j] = v] /\ mail' = mail /\ received' = received
      BY <1>9, <2>2 DEF PassDelete, Goto
    <3> HIDE DEF v
    <3>3. QED
      BY <1>7, <3>1, <3>2
  <2>3. QED
    BY <2>1, <2>2
<1>10. CASE Uncount(j)
  <2>1. /\ job' = [job EXCEPT ![j] = None] /\ mail' = mail
        /\ received' = [received EXCEPT ![n] = (@ - 1) % Word]
    BY <1>2, <1>3, <1>10 DEF Uncount, Finish, Finished
  <2>2. Moves(j, None)
    BY <1>1, <2>1 DEF Moves
  <2>3. JobTurn(j, None, c)
    BY <1>1, <1>2, <2>1, <2>2 DEF JobTurn
  <2>4. ListsOK'
    BY <1>3, <2>1, ListsStay DEF Books
  <2>5. PICK out : out \notin mail
    BY NoSetContainsEverything
  <2>6. \A d \in Chunk : Apart(d)'
    BY <1>3, <2>1, <2>3, <2>5, ApartStays DEF Books
  <2>7. \A k \in Node, d \in Chunk :
          /\ DueAt(k, d)' => DueAt(k, d)
          /\ k # n \/ d # c => (OwedAt(k, d)' => OwedAt(k, d))
    BY <1>2, <1>3, <1>5, <2>1, <2>3, CountsElsewhere
  <2>8. On(n, c)' = {}
    BY <1>2, <1>3, <1>4, <2>2, MoveShape
  <2>9. n \notin ended => ~OwedAt(n, c)'
    <3>1. ASSUME n \notin ended
          PROVE  meta'[n][c] = "none"
      <4>1. FilesOK(n, c)
        BY <1>3, <3>1 DEF ChunksInv, ChunkOK, Plain
      <4>2. g.at \in DeletePc \ {"removeMeta"}
        BY <1>10 DEF Uncount, At, DeletePc
      <4>3. meta[n][c] = "none"
        BY <1>4, <4>1, <4>2 DEF FilesOK
      <4>4. QED
        BY <1>10, <4>3 DEF Uncount
    <3>2. QED
      BY <2>8, <3>1 DEF OwedAt
  <2>10. received \in [Node -> 0 .. Word - 1]
    BY <1>3 DEF TypeOK
  <2>11. ASSUME NEW k \in Node \ ended'
         PROVE  CountOK(k)'
    <3>1. CountOK(k)
      BY <1>1, <2>11 DEF Books
    <3>2. CASE k = n
      <4>1. received'[n] = (received[n] - 1) % Word /\ ~OwedAt(n, c)'
        BY <1>1, <1>3, <2>1, <2>9, <2>10, <2>11, <3>2
      <4>2. \A d \in Chunk : (OwedAt(n, d)' => OwedAt(n, d)) /\ (DueAt(n, d)' => DueAt(n, d))
        BY <1>3, <2>7, <4>1
      <4>3. QED
        BY <1>1, <1>3, <1>6, <3>1, <3>2, <4>1, <4>2, CountFalls
    <3>3. CASE k # n
      <4>1. received'[k] = received[k]
        BY <1>3, <2>1, <2>10, <3>3
      <4>2. QED
        BY <1>1, <1>3, <2>7, <3>1, <3>3, <4>1, CountStays
    <3>4. QED
      BY <3>2, <3>3
  <2>12. QED
    BY <2>4, <2>6, <2>11 DEF Books
<1>11. QED
  BY <1>8, <1>9, <1>10 DEF Remove

\* After a dial that fails a chunk is still counted, on or off.
LEMMA DialBooks ==
  ASSUME ChunksInv, Books, NEW j \in Job, DialFails(j)
  PROVE  Books'
<1> USE DEF files, history
<1> DEFINE g == job[j]
<1>1. g # None /\ UNCHANGED <<meta, mail, received, crossed, ended>>
  BY DEF DialFails, At
<1>2. PICK c, n : c = g.msg.chunk /\ n = g.node
  OBVIOUS
<1>3. TypeOK /\ g \in Goroutine /\ c \in Chunk /\ n \in Node
  BY <1>1, <1>2, Facts
<1>4. used'["write"] = used["write"]
  <2>1. used \in [Outside -> Nat] /\ {"write", "offline"} \subseteq Outside
    BY <1>3 DEF TypeOK, Outside
  <2>2. QED
    BY <2>1 DEF DialFails, Use
<1>5. On(n, c) = {j} /\ GoroutineListed(g)
  BY <1>1, <1>2, <1>3, OneHere DEF Books, ListsOK
<1>6. PICK l \in {"count", "uncount"} :
        Goto(j, l) /\ g.at = IF l = "count" THEN "passOn" ELSE "passDelete"
  <2>1. g.at \notin {"fetch", "reply"}
    BY <1>5 DEF GoroutineListed, WritePc, DeletePc
  <2>2. QED
    BY <2>1 DEF DialFails, At
<1> DEFINE v == [g EXCEPT !.at = l]
<1>7. v \in Goroutine /\ v.at = l /\ v.node = n /\ v.msg = g.msg
  BY <1>2, <1>3 DEF Goroutine, BusyPc, WritePc, DeletePc
<1>8. job' = [job EXCEPT ![j] = v]
  BY <1>6 DEF Goto
<1> HIDE DEF v
<1>9. /\ v # None /\ Moves(j, v) /\ GoroutineListed(v) /\ NamesOf(v) = NamesOf(g)
      /\ v.at \in WritePc => g.at \in WritePc
  BY <1>1, <1>2, <1>5, <1>6, <1>7, <1>8, NoneAssumption
     DEF Moves, GoroutineListed, NamesOf, WritePc, DeletePc
<1>10. ASSUME OwedAt(n, c)'
       PROVE  OwedAt(n, c)
  <2>1. On(n, c)' = {j} /\ job'[j] = v
    BY <1>2, <1>3, <1>5, <1>8, <1>9, MoveShape
  <2>2. CASE l = "count"
    BY <1>7, <1>10, <2>1, <2>2 DEF OwedAt, WritePc, DeletePc
  <2>3. CASE l = "uncount"
    BY <1>5, <1>6, <2>3 DEF OwedAt, DeletePc
  <2>4. QED
    BY <2>2, <2>3
<1>11. PICK out : out \notin mail
  BY NoSetContainsEverything
<1>12. QED
  BY <1>1, <1>2, <1>4, <1>8, <1>9, <1>10, <1>11, BooksStay

\* Goroutines and messages may end, processes too; what goes on is as it was.
LEMMA BooksLess ==
  ASSUME TypeOK, Books, mail' \subseteq mail, ended \subseteq ended', meta' = meta,
         used'["write"] = used["write"],
         \A j \in Job : job'[j] = None \/ job'[j] = job[j],
         \A n \in Node \ ended' :
           /\ received'[n] = received[n]
           /\ \A j \in Job : job[j] # None /\ job[j].node = n => job'[j] = job[j]
  PROVE  Books'
<1>1. ListsOK'
  BY DEF Books, ListsOK, MessageListed, GoroutineListed
<1>2. \A d : /\ MailFor(d)' \subseteq MailFor(d) /\ Serving(d)' \subseteq Serving(d)
             /\ \A i \in Serving(d)' : job'[i] = job[i]
  BY DEF MailFor, Serving
<1>3. \A d \in Chunk : Apart(d)'
  BY <1>2, ApartElsewhere DEF Books
<1>4. ASSUME NEW n \in Node \ ended'
      PROVE  CountOK(n)'
  <2>1. ASSUME NEW d \in Chunk
        PROVE  (OwedAt(n, d)' => OwedAt(n, d)) /\ (DueAt(n, d)' => DueAt(n, d))
    <3>1. On(n, d)' = On(n, d) /\ \A i \in On(n, d) : job'[i] = job[i]
      BY <1>4 DEF On
    <3>2. OwedAt(n, d)' => OwedAt(n, d)
      BY <3>1 DEF OwedAt
    <3>3. \A i \in Serving(d)' : i \in Serving(d) /\ job'[i] = job[i]
      BY <1>2
    <3>4. DueAt(n, d)' => DueAt(n, d)
      BY <1>2, <3>3 DEF DueAt, NamesOf
    <3>5. QED
      BY <3>2, <3>4
  <2>2. CountOK(n) /\ received'[n] = received[n]
    BY <1>4 DEF Books
  <2>3. QED
    BY <1>4, <2>1, <2>2, CountStays
<1>5. QED
  BY <1>1, <1>3, <1>4 DEF Books

LEMMA ExitBooks ==
  ASSUME TypeOK, Books, NEW n \in Node, NEW why, Exit(n, why),
         UNCHANGED <<meta, received>>, used'["write"] = used["write"]
  PROVE  Books'
<1>1. \A j \in Job : job'[j] = IF job[j] # None /\ job[j].node = n THEN None ELSE job[j]
  BY DEF Exit
<1>2. mail' \subseteq mail /\ ended' = ended \cup {n}
  BY DEF Exit
<1>3. QED
  BY <1>1, <1>2, BooksLess

\* A goroutine takes over the nodes that its message names.
LEMMA ReceiveBooks ==
  ASSUME TypeOK, Books, NEW j \in Job, NEW m, Receive(j, m)
  PROVE  Books'
<1> USE DEF files, history
<1> DEFINE g == job'[j]
<1>1. PICK c : c = m.chunk
  OBVIOUS
<1>2. /\ m \in mail /\ m.to \in Node /\ c \in Chunk /\ m \in MailFor(c)
      /\ job[j] = None /\ \A i \in Job \ {j} : job'[i] = job[i]
      /\ mail' = mail \ {m}
  BY <1>1, ReceiveShape DEF MailFor
<1>3. g # None /\ g.at = FirstStep[m.type] /\ g.msg = m /\ g.node = m.to
  BY ReceiveShape
<1>4. UNCHANGED <<meta, received, ended, used>>
  BY DEF Receive
<1>5. MessageListed(m)
  BY <1>2 DEF Books, ListsOK
<1>6. /\ g.at \in {"createMeta", "removeMeta"}
      /\ g.at = "createMeta" <=> m.type = "write"
  BY <1>3, <1>5 DEF MessageListed, FirstStep
<1>7. NamesOf(job[j])' = NamedBy(m)
  BY <1>3 DEF NamesOf, NamedBy
<1>8. ListsOK'
  <2>1. GoroutineListed(job[j])'
    BY <1>3, <1>5, <1>6 DEF MessageListed, GoroutineListed, WritePc, DeletePc
  <2>2. \A i \in Job \ {j} : job'[i] # None => GoroutineListed(job[i])'
    BY <1>2 DEF Books, ListsOK, GoroutineListed
  <2>3. \A k \in mail' : MessageListed(k)'
    BY <1>2 DEF Books, ListsOK, MessageListed
  <2>4. QED
    BY <2>1, <2>2, <2>3 DEF ListsOK
<1>9. \A d : \A i \in Serving(d)' :
        i # j => i \in Serving(d) /\ job'[i] = job[i] /\ NamesOf(job[i])' = NamesOf(job[i])
  BY <1>2 DEF Serving, NamesOf
<1>10. \A d : d # c => j \notin Serving(d)' /\ MailFor(d)' = MailFor(d)
  BY <1>1, <1>2, <1>3 DEF Serving, MailFor
<1>11. MailFor(c)' = MailFor(c) \ {m}
  BY <1>2 DEF MailFor
<1>12. ASSUME NEW d \in Chunk
       PROVE  Apart(d)'
  <2>1. CASE d # c
    <3>1. Serving(d)' \subseteq Serving(d) /\ \A i \in Serving(d)' : job'[i] = job[i]
      BY <1>9, <1>10, <2>1
    <3>2. QED
      BY <1>10, <1>12, <2>1, <3>1, ApartElsewhere DEF Books
  <2>2. CASE d = c
    <3> DEFINE of(i) == NamesOf(job[i])
    <3>1. /\ \A x, y \in MailFor(c) : x # y => NamedBy(x) \cap NamedBy(y) = {}
          /\ \A x \in MailFor(c), i \in Serving(c) : NamedBy(x) \cap of(i) = {}
          /\ \A i, k \in Serving(c) : i # k => of(i) \cap of(k) = {}
      BY <1>2 DEF Books, Apart
    <3>2. \A i \in Serving(c)' : i # j => i \in Serving(c) /\ of(i)' = of(i)
      BY <1>9
    <3>3. of(j)' = NamedBy(m)
      BY <1>7
    <3> HIDE DEF of
    <3>4. \A x, y \in MailFor(c)' : x # y => NamedBy(x) \cap NamedBy(y) = {}
      BY <1>11, <3>1
    <3>5. \A x \in MailFor(c)', i \in Serving(c)' : NamedBy(x) \cap of(i)' = {}
      BY <1>2, <1>11, <3>1, <3>2, <3>3
    <3>6. \A i, k \in Serving(c)' : i # k => of(i)' \cap of(k)' = {}
      BY <1>2, <3>1, <3>2, <3>3
    <3>7. QED
      BY <2>2, <3>4, <3>5, <3>6 DEF Apart, of
  <2>3. QED
    BY <2>1, <2>2
<1>13. ASSUME NEW n \in Node, NEW d \in Chunk, DueAt(n, d)'
       PROVE  DueAt(n, d)
  <2>1. CASE \E k \in MailFor(d)' : k.type = "write" /\ n \in NamedBy(k)
    BY <1>2, <2>1 DEF DueAt, MailFor
  <2>2. CASE \E i \in Serving(d)' : job'[i].at \in WritePc /\ n \in NamesOf(job[i])'
    <3>1. PICK i \in Serving(d)' : job'[i].at \in WritePc /\ n \in NamesOf(job[i])'
      BY <2>2
    <3>2. CASE i # j
      BY <1>9, <3>1, <3>2 DEF DueAt
    <3>3. CASE i = j
      <4>1. d = c /\ m.type = "write" /\ n \in NamedBy(m)
        BY <1>6, <1>7, <1>10, <3>1, <3>3 DEF WritePc
      <4>2. QED
        BY <1>2, <4>1 DEF DueAt
    <3>4. QED
      BY <3>2, <3>3
  <2>3. QED
    BY <1>13, <2>1, <2>2 DEF DueAt, NamedBy, NamesOf
<1>14. ASSUME NEW n \in Node, NEW d \in Chunk, OwedAt(n, d)'
       PROVE  OwedAt(n, d)
  <2>1. \A i \in On(n, d) : i \in On(n, d)' /\ job'[i] = job[i]
    BY <1>2 DEF On
  <2>2. \A i \in On(n, d)' : i # j => i \in On(n, d) /\ job'[i] = job[i]
    BY <1>2 DEF On
  <2>3. CASE meta[n][d] # "none" /\ \A i \in On(n, d)' : job'[i].at \notin WritePc \ {"createMeta"}
    BY <2>1, <2>3 DEF OwedAt
  <2>4. CASE \E i \in On(n, d)' : job'[i].at \in DeletePc \ {"removeMeta"}
    BY <1>6, <2>2, <2>4 DEF OwedAt, DeletePc
  <2>5. QED
    BY <1>4, <1>14, <2>3, <2>4 DEF OwedAt
<1>15. ASSUME NEW n \in Node \ ended'
       PROVE  CountOK(n)'
  <2>1. CountOK(n) /\ received'[n] = received[n] /\ used'["write"] = used["write"]
    BY <1>4, <1>15 DEF Books
  <2>2. QED
    BY <1>13, <1>14, <1>15, <2>1, CountStays
<1>16. QED
  BY <1>8, <1>12, <1>15 DEF Books

\* A request for a chunk that nothing is at work on.
LEMMA RequestBooks ==
  ASSUME TypeOK, Books, NEW c \in Chunk, Quiet(c), NEW out, out.chunk = c,
         mail' \subseteq mail \cup {out}, mail \subseteq mail',
         MessageListed(out), UNCHANGED <<job, meta, received, ended>>,
         \/ used'["write"] = used["write"] /\ out.type # "write"
         \/ used'["write"] = used["write"] + 1
  PROVE  Books'
<1>1. MailFor(c) = {} /\ Serving(c) = {}
  <2>1. \A j \in Serving(c) : job[j].node \in Node
    BY GoroutineType DEF Serving
  <2>2. QED
    BY <2>1 DEF Quiet, MailFor, Serving, On
<1>2. \A d : Serving(d)' = Serving(d) /\ \A n : On(n, d)' = On(n, d)
  BY DEF Serving, On
<1>3. MailFor(c)' \subseteq {out} /\ \A d : d # c => MailFor(d)' = MailFor(d)
  BY <1>1 DEF MailFor
<1>4. ListsOK'
  <2>1. \A m \in mail' : MessageListed(m)'
    BY DEF Books, ListsOK, MessageListed
  <2>2. \A i \in Job : job'[i] # None => GoroutineListed(job[i])'
    BY DEF Books, ListsOK, GoroutineListed
  <2>3. QED
    BY <2>1, <2>2 DEF ListsOK
<1>5. ASSUME NEW d \in Chunk
      PROVE  Apart(d)'
  <2>1. CASE d # c
    BY <1>2, <1>3, <2>1, ApartElsewhere DEF Books
  <2>2. CASE d = c
    BY <1>1, <1>2, <1>3, <2>2 DEF Apart
  <2>3. QED
    BY <2>1, <2>2
<1>6. \A n \in Node, d \in Chunk : OwedAt(n, d)' => OwedAt(n, d)
  BY <1>2 DEF OwedAt
<1>7. \A n \in Node, d \in Chunk : d # c => (DueAt(n, d)' => DueAt(n, d))
  BY <1>2, <1>3 DEF DueAt, NamesOf
<1>8. ASSUME NEW n \in Node \ ended'
      PROVE  CountOK(n)'
  <2>1. CountOK(n) /\ received'[n] = received[n]
    BY <1>8 DEF Books
  <2>2. CASE used'["write"] = used["write"] + 1
    BY <1>6, <1>7, <1>8, <2>1, <2>2, CountAwaits
  <2>3. CASE used'["write"] = used["write"] /\ out.type # "write"
    <3>1. \A d \in Chunk : DueAt(n, d)' => DueAt(n, d)
      <4>1. ~DueAt(n, c)'
        BY <1>1, <1>2, <1>3, <2>3 DEF DueAt
      <4>2. QED
        BY <1>7, <4>1
    <3>2. QED
      BY <1>6, <1>8, <2>1, <2>3, <3>1, CountStays
  <2>4. QED
    BY <2>2, <2>3
<1>9. QED
  BY <1>4, <1>5, <1>8 DEF Books

LEMMA RequestsBooks ==
  ASSUME TypeOK, Books, NEW c \in Chunk, Requests(c), Plain'
  PROVE  Books'
<1> USE DEF files, history
<1>1. used \in [Outside -> Nat] /\ Outside = {"write", "delete", "read", "order",
        "kill", "damage", "cut", "offline"}
  BY DEF TypeOK, Outside
<1>2. ASSUME NEW kind \in Outside, New(kind, c)
      PROVE  /\ Quiet(c) /\ used' = [used EXCEPT ![kind] = @ + 1]
             /\ kind \notin {"read", "order"}
  <2>1. Quiet(c)
    BY <1>2 DEF New, Plain
  <2>2. used' = [used EXCEPT ![kind] = @ + 1]
    BY <1>2 DEF New, Use
  <2>3. used'[kind] = used[kind] + 1 /\ used[kind] \in Nat
    BY <1>1, <1>2, <2>2
  <2>4. kind \notin {"read", "order"}
    BY <2>3 DEF Plain
  <2>5. QED
    BY <2>1, <2>2, <2>4
<1>3. ASSUME NEW S \in (SUBSET Node) \ {{}}, NEW s \in Orders(S), ClientWrite(c, s)
      PROVE  Books'
  <2> DEFINE new == [Request("write", c, Client, Head(s), Tail(s))
                       EXCEPT !.data = "whole", !.sum = TRUE]
  <2>1. s \in Seq(Node) /\ s # <<>> /\ Once(s)
    BY <1>3, OrderIsList, OrderNotEmpty, OrderOnce
  <2>2. /\ new.type = "write" /\ new.chunk = c /\ new.to = Head(s)
        /\ new.replicas = Tail(s)
    BY DEF Request
  <2>3. mail' = mail \cup {new} /\ UNCHANGED <<job, meta, received, ended>>
    BY <1>3 DEF ClientWrite
  <2>4. Quiet(c) /\ used'["write"] = used["write"] + 1
    BY <1>1, <1>2, <1>3 DEF ClientWrite
  <2>5. PICK out : out = new
    OBVIOUS
  <2> HIDE DEF new
  <2>6. MessageListed(out) /\ out.chunk = c
    BY <2>1, <2>2, <2>5, TailOnce DEF MessageListed
  <2>7. QED
    BY <2>3, <2>4, <2>5, <2>6, RequestBooks
<1>4. ASSUME NEW s, ControllerDelete(c, s)
      PROVE  Books'
  <2>1. s \in Seq(Node) /\ s # <<>> /\ Once(s)
    BY <1>4, OrderIsList, OrderOnce DEF ControllerDelete, TypeOK
  <2>2. PICK out : out = Request("delete", c, Controller, Head(s), Tail(s))
    OBVIOUS
  <2>3. /\ out.type = "delete" /\ out.chunk = c /\ out.to = Head(s)
        /\ out.replicas = Tail(s)
    BY <2>2 DEF Request
  <2>4. /\ mail \subseteq mail' /\ mail' \subseteq mail \cup {out}
        /\ UNCHANGED <<job, meta, received, ended>>
    BY <1>4, <2>2 DEF ControllerDelete
  <2>5. Quiet(c) /\ used'["write"] = used["write"]
    BY <1>1, <1>2, <1>4 DEF ControllerDelete
  <2>6. MessageListed(out)
    BY <2>1, <2>3, TailOnce DEF MessageListed
  <2>7. QED
    BY <2>3, <2>4, <2>5, <2>6, RequestBooks
<1>5. ASSUME NEW n, NEW s, ControllerOrder(c, n, s)
      PROVE  FALSE
  BY <1>1, <1>2, <1>5 DEF ControllerOrder
<1>6. ASSUME NEW n, ClientRead(c, n)
      PROVE  FALSE
  BY <1>1, <1>2, <1>6 DEF ClientRead
<1>7. QED
  BY <1>3, <1>4, <1>5, <1>6 DEF Requests

\* Chunks that crossed, and what was used, only grow.
LEMMA PlainBefore ==
  ASSUME TypeOK, [Next]_vars, Plain'
  PROVE  Plain
<1> USE DEF files, history, Local
<1>1. ASSUME crossed' = crossed \/ \E c : crossed' = crossed \cup {c}
      PROVE  crossed = {}
  BY <1>1 DEF Plain
<1>2. crossed = {}
  <2>1. CASE \E j \in Job : Save(j) \/ Remove(j)
    BY <1>1, <2>1 DEF Save, CreateMeta, WriteMeta, CreateData, Copy, PassOn, Count,
       Remove, RemoveMeta, RemoveData, RemoveFails, PassDelete, Uncount, Fatal
  <2>2. CASE \E j \in Job : Serve(j) \/ Ask(j) \/ \E m \in mail : Receive(j, m)
    BY <1>1, <2>2 DEF Serve, Load, Validated, Corrupted, ValidateFails, Reply, Send,
       Fetch, FetchFails, Ask, Receive, Fatal
  <2>3. CASE (\E n \in Node : Heartbeat(n)) \/ \E m \in mail : Lookup(m)
    BY <1>1, <2>3 DEF Heartbeat, BeatList, BeatRead, BeatFails, BeatSend, Lookup
  <2>4. CASE \E c \in Chunk : Requests(c)
    BY <1>1, <2>4 DEF Requests, ClientWrite, ControllerDelete, ControllerOrder,
       ClientRead, New
  <2>5. CASE Faults
    BY <1>1, <2>5 DEF Faults, Kill, Restart, Damage, CopyCut, AskFails,
       DialFails
  <2>6. CASE UNCHANGED vars
    BY <1>1, <2>6 DEF vars
  <2>7. QED
    BY <2>1, <2>2, <2>3, <2>4, <2>5, <2>6 DEF Next
<1>3. /\ {"write", "read", "order"} \subseteq Outside
      /\ \A k \in Outside : used[k] \in Nat
  BY DEF TypeOK, Outside
<1>4. TypeOK'
  BY NextType
<1>5. \A k \in Outside : used'[k] \in Nat
  BY <1>4 DEF TypeOK
<1>6. \A k \in Outside : used[k] <= used'[k]
  BY UsedGrows
<1>7. used["read"] = 0 /\ used["order"] = 0
  BY <1>3, <1>5, <1>6 DEF Plain
<1>8. used["write"] < Word
  BY <1>3, <1>5, <1>6, NodeAssumption DEF Plain
<1>9. QED
  BY <1>2, <1>7, <1>8 DEF Plain

LEMMA NextBooks ==
  ASSUME ChunksInv, Books, [Next]_vars, Plain'
  PROVE  Books'
<1> USE DEF files, history, Local
<1>1. TypeOK /\ Plain
  BY PlainBefore DEF ChunksInv
<1>2. ASSUME UNCHANGED <<job, mail, meta, received, ended>>, used'["write"] = used["write"]
      PROVE  Books'
  BY <1>1, <1>2, BooksLess
<1>3. ASSUME NEW j \in Job, Save(j) \/ Remove(j) \/ Serve(j) \/ Ask(j)
      PROVE  Books'
  <2>1. CASE Save(j) \/ (Remove(j) /\ ~RemoveFails(j))
    BY <1>1, <2>1, SaveBooks, RemoveBooks
  <2>2. CASE RemoveFails(j)
    <3>1. PICK n \in Node : n = job[j].node
      BY <2>2, Facts DEF RemoveFails, At
    <3>2. Exit(n, "fileMissing")
      BY <2>2, <3>1 DEF RemoveFails, Fatal
    <3>3. UNCHANGED <<meta, received, used>>
      BY <2>2 DEF RemoveFails, Fatal
    <3>4. QED
      BY <1>1, <3>2, <3>3, ExitBooks
  <2>3. CASE Serve(j) \/ Ask(j)
    <3>1. job[j] # None /\ (job[j].at \in ReadPc \cup {"fetch"} \/ job[j].asking)
      BY <2>3 DEF Serve, Load, Validated, Corrupted, ValidateFails, Reply, Send, Fetch,
         FetchFails, Ask, At, ReadPc
    <3>2. job[j].at \in ReadPc \cup {"fetch"}
      BY <1>1, <3>1 DEF TypeOK, GoroutineOK
    <3>3. job[j].at \in WritePc \cup DeletePc
      BY <3>1 DEF Books, ListsOK, GoroutineListed
    <3>4. QED
      BY <3>2, <3>3 DEF ReadPc, WritePc, DeletePc
  <2>4. QED
    BY <1>3, <2>1, <2>2, <2>3
<1>4. ASSUME NEW n \in Node, Heartbeat(n)
      PROVE  Books'
  <2>1. CASE \E c \in Chunk : BeatFails(n, c)
    BY <1>1, <2>1, ExitBooks DEF BeatFails
  <2>2. CASE BeatList(n) \/ BeatSend(n) \/ \E c \in Chunk : BeatRead(n, c)
    BY <1>2, <2>2 DEF BeatList, BeatSend, BeatRead
  <2>3. QED
    BY <1>4, <2>1, <2>2 DEF Heartbeat
<1>5. ASSUME NEW m \in mail, Lookup(m)
      PROVE  FALSE
  <2>1. MessageOK(m) /\ MessageListed(m) /\ m.to = Controller
    BY <1>1, <1>5 DEF Lookup, TypeOK, Books, ListsOK
  <2>2. QED
    BY <2>1 DEF MessageOK, MessageListed
<1>6. CASE Faults
  <2>1. used \in [Outside -> Nat] /\ {"write", "kill", "damage"} \subseteq Outside
    BY <1>1 DEF TypeOK, Outside
  <2>2. ASSUME NEW n \in Node, Kill(n)
        PROVE  Books'
    <3>1. used'["write"] = used["write"]
      BY <2>1, <2>2 DEF Kill, Use
    <3>2. QED
      BY <1>1, <2>2, <3>1, ExitBooks DEF Kill
  <2>3. ASSUME NEW n \in Node, Restart(n)
        PROVE  Books'
    <3>1. n \in ended
      BY <2>3 DEF ChunksInv, StatusOK, Restart
    <3>2. /\ UNCHANGED <<job, mail, meta, used, ended>>
          /\ received' = [received EXCEPT ![n] = 0]
      BY <2>3 DEF Restart
    <3>3. \A k \in Node \ ended : received'[k] = received[k]
      BY <1>1, <3>1, <3>2 DEF TypeOK
    <3>4. QED
      BY <1>1, <3>2, <3>3, BooksLess
  <2>4. ASSUME NEW n \in Node, NEW c \in Chunk, Damage(n, c)
        PROVE  Books'
    <3>1. used'["write"] = used["write"]
      BY <2>1, <2>4 DEF Damage, Use
    <3>2. QED
      BY <1>2, <2>4, <3>1 DEF Damage
  <2>5. ASSUME NEW j \in Job, AskFails(j)
        PROVE  FALSE
    <3>1. job[j] # None /\ job[j].asking
      BY <2>5 DEF AskFails
    <3>2. job[j].at \in ReadPc /\ job[j].at \in WritePc \cup DeletePc
      BY <1>1, <3>1 DEF TypeOK, GoroutineOK, Books, ListsOK, GoroutineListed
    <3>3. QED
      BY <3>2 DEF ReadPc, WritePc, DeletePc
  <2>6. QED
    BY <1>1, <1>6, <2>2, <2>3, <2>4, <2>5, SaveBooks, DialBooks DEF Faults
<1>7. CASE UNCHANGED vars
  BY <1>2, <1>7 DEF vars
<1>8. QED
  BY <1>1, <1>3, <1>4, <1>5, <1>6, <1>7, ReceiveBooks, RequestsBooks DEF Next

CountInv == ChunksInv /\ (Plain => Books)

LEMMA NextCount == CountInv /\ [Next]_vars => CountInv'
BY NextChunks, NextBooks, PlainBefore DEF CountInv, ChunksInv

LEMMA InitCount == Init => CountInv
<1> SUFFICES ASSUME Init PROVE CountInv
  OBVIOUS
<1>1. /\ \A j \in Job : job[j] = None
      /\ mail = {}
  BY DEF Init
<1>2. \A c : MailFor(c) = {} /\ Serving(c) = {} /\ \A n : On(n, c) = {}
  BY <1>1 DEF MailFor, Serving, On
<1>3. ListsOK /\ \A c \in Chunk : Apart(c)
  BY <1>1, <1>2 DEF ListsOK, Apart
<1>4. ASSUME NEW n \in Node
      PROVE  CountOK(n)
  <2>1. Owed(n) = {} /\ Due(n) = {}
    BY <1>2 DEF Owed, Due, OwedAt, DueAt, Init
  <2>2. received[n] = 0 /\ used["write"] = 0
    BY DEF Init, Outside
  <2>3. QED
    BY <2>1, <2>2, FS_EmptySet DEF CountOK
<1>5. QED
  BY <1>3, <1>4, InitChunks DEF CountInv, Books

\* A storage node that never ended and is idle has counted every chunk it keeps and
\* no more than were uploaded, so `receivedChunks--`, which no test for 0 guards
\* (storagenode.go:36-40, 200-201), has not wrapped it around: as long as chunks are only
\* written and deleted, their requests do not cross and the counter has room for all
\* uploads, however many nodes pass them on, are cut off, fail, end and come back.
THEOREM CountsCorrect == Spec => []CountsChunks
<1>1. ASSUME CountInv, crossed = {}, used["read"] + used["order"] = 0,
             used["write"] < Word, NEW n \in Node \ ended,
             \A j \in Job : job[j] = None \/ job[j].node # n
      PROVE  received[n] \in Cardinality(Kept[n]) .. used["write"]
  <2>1. TypeOK
    BY <1>1 DEF CountInv, ChunksInv
  <2>2. used["read"] \in Nat /\ used["order"] \in Nat /\ used["write"] \in Nat
    BY <2>1 DEF TypeOK, Outside
  <2>3. CountOK(n)
    BY <1>1, <2>2 DEF CountInv, Plain, Books
  <2>4. \A c : On(n, c) = {}
    BY <1>1 DEF On
  <2>5. Kept[n] = Owed(n)
    BY <2>4 DEF Kept, Owed, OwedAt
  <2>6. Cardinality(Owed(n)) \in Nat /\ Cardinality(Due(n)) \in Nat /\ received[n] \in Nat
    BY <2>1, <2>3, FS_CardinalityType, NodeAssumption DEF CountOK, TypeOK
  <2>7. QED
    BY <2>2, <2>3, <2>5, <2>6 DEF CountOK
<1>2. CountInv => CountsChunks
  BY <1>1 DEF CountsChunks
<1>3. QED
  BY <1>2, InitCount, NextCount, PTL DEF Spec

=============================================================================
