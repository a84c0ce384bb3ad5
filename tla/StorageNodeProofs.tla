------------------------- MODULE StorageNodeProofs -------------------------
(***************************************************************************)
(* Proofs about StorageNode, for any number of nodes, chunks, connections  *)
(* and faults, whether or not requests for a chunk overlap.                *)
(***************************************************************************)
EXTENDS StorageNode, FiniteSetTheorems, TLAPS

\* The names of the outside world are no nodes.
LEMMA Outsiders ==
  /\ Client \notin Node /\ Controller \notin Node /\ None \notin Node
  /\ Client # Controller
BY NodeAssumption

-----------------------------------------------------------------------------
(* Operators. *)

\* An order of a set of nodes is a list of nodes of that set.
LEMMA OrderIsList ==
  ASSUME NEW S \in SUBSET Node, NEW s \in Orders(S)
  PROVE  s \in Seq(Node) /\ \A i \in DOMAIN s : s[i] \in S
<1>1. Cardinality(S) \in Nat
  BY NodeAssumption, FS_Subset, FS_CardinalityType
<1>2. s \in [1 .. Cardinality(S) -> S]
  BY DEF Orders
<1>3. s \in Seq(S)
  BY <1>1, <1>2
<1>4. QED
  BY <1>2, <1>3

\* It is empty only if the set is.
LEMMA OrderNotEmpty ==
  ASSUME NEW S \in (SUBSET Node) \ {{}}, NEW s \in Orders(S)
  PROVE  s # <<>>
<1>1. S \in SUBSET Node /\ S # {}
  OBVIOUS
<1>2. Cardinality(S) \in Nat /\ Cardinality(S) # 0
  BY <1>1, NodeAssumption, FS_Subset, FS_CardinalityType, FS_EmptySet
<1>3. QED
  BY <1>2 DEF Orders

\* A list that names a node has a first one, and the others.
LEMMA FirstAndRest ==
  ASSUME NEW s \in Seq(Node), s # <<>>
  PROVE  /\ Head(s) \in Node /\ Tail(s) \in Seq(Node)
         /\ 1 \in DOMAIN s /\ Head(s) = s[1]
         /\ \A i \in DOMAIN Tail(s) : i + 1 \in DOMAIN s /\ Tail(s)[i] = s[i + 1]
OBVIOUS

\* Only the controller is asked where replicas are, so a node always knows how to
\* begin (handleClientRequest, storagenode.go:432).
LEMMA FirstStepType ==
  ASSUME NEW m, MessageOK(m), m.to \in Node
  PROVE  /\ FirstStep[m.type] \in {"createMeta", "removeMeta", "load", "fetch"}
         /\ FirstStep[m.type] \in BusyPc
         /\ FirstStep[m.type] = "removeMeta" <=> m.type = "delete"
         /\ FirstStep[m.type] = "load" <=> m.type = "read"
         /\ FirstStep[m.type] = "createMeta" <=> m.type = "write"
         /\ FirstStep[m.type] = "fetch" <=> m.type = "replica"
<1>1. m.type \in {"write", "delete", "read", "replica"}
  BY Outsiders DEF MessageOK, Message, Type
<1>2. QED
  BY <1>1 DEF FirstStep, BusyPc, WritePc, DeletePc, ReadPc

-----------------------------------------------------------------------------
(* Types. *)

\* A request is a message.
LEMMA RequestType ==
  ASSUME NEW t \in Type, NEW c \in Chunk,
         NEW f \in Node \cup {Client, Controller},
         NEW d \in Node \cup {Controller}, NEW s \in Seq(Node),
         t = "lookup" <=> d = Controller, t = "lookup" => f \in Node,
         t = "read" => f # Controller
  PROVE  MessageOK(Request(t, c, f, d, s))
BY DEF MessageOK, Message, Request

\* The goroutines' part of TypeOK.
JobsOK == /\ job \in [Job -> Goroutine \cup {None}]
          /\ \A j \in Job : job[j] # None => GoroutineOK(job[j])

\* No goroutine is None.
LEMMA GoroutineType == 
  ASSUME TypeOK, NEW j \in Job, job[j] # None
  PROVE  /\ job[j] \in Goroutine /\ GoroutineOK(job[j])
         /\ job[j].node \in Node /\ job[j].msg \in Message
         /\ job[j].msg.chunk \in Chunk /\ job[j].msg.replicas \in Seq(Node)
BY DEF TypeOK, Goroutine, Message

\* One goroutine goes on, or returns.
LEMMA JobType ==
  ASSUME TypeOK, NEW j \in Job, NEW v, v # None => v \in Goroutine /\ GoroutineOK(v),
         job' = [job EXCEPT ![j] = v]
  PROVE  JobsOK'
BY DEF TypeOK, JobsOK, GoroutineOK

\* It goes on at another step that needs no more of it.
LEMMA GotoType ==
  ASSUME TypeOK, NEW j \in Job, job[j] # None, NEW l \in BusyPc, Goto(j, l),
         l \in ReadPc => job[j].at \in ReadPc,
         l \in {"validate", "send"} => FALSE,
         l = "reply" => job[j].at = "validate",
         job[j].at \in ReadPc => l \in ReadPc
  PROVE  JobsOK'
<1> DEFINE v == [job[j] EXCEPT !.at = l]
<1>1. v \in Goroutine /\ GoroutineOK(v)
  BY GoroutineType DEF Goroutine, GoroutineOK
<1>2. job' = [job EXCEPT ![j] = v]
  BY DEF Goto
<1>3. QED
  BY <1>1, <1>2, JobType

LEMMA FinishType ==
  ASSUME TypeOK, NEW j \in Job, job[j] # None, Finish(j)
  PROVE  JobsOK'
<1>1. CASE job[j].asking
  <2> DEFINE v == [job[j] EXCEPT !.at = "asked"]
  <2>1. v \in Goroutine /\ GoroutineOK(v)
    BY <1>1, GoroutineType DEF Goroutine, GoroutineOK, BusyPc, ReadPc
  <2>2. job' = [job EXCEPT ![j] = v]
    BY <1>1 DEF Finish, Finished
  <2>3. QED
    BY <2>1, <2>2, JobType
<1>2. CASE ~job[j].asking
  BY <1>2, JobType DEF Finish, Finished
<1>3. QED
  BY <1>1, <1>2

\* A process ends.
LEMMA ExitType ==
  ASSUME TypeOK, NEW n \in Node, NEW why \in {"killed", "fileMissing", "noReplica", "garbled"},
         Exit(n, why)
  PROVE  /\ status' \in
              [Node -> {"up", "killed", "fileMissing", "noReplica", "garbled"}]
         /\ JobsOK' /\ beat' \in [Node -> Beat \cup {None}]
         /\ \A m \in mail' : MessageOK(m)
         /\ ended' \subseteq Node
BY DEF TypeOK, Exit, JobsOK, GoroutineOK

\* A goroutine writes its line, or had its file taken away.
LEMMA LineWritten ==
  ASSUME NEW j \in Job, WriteMeta(j)
  PROVE  \/ UNCHANGED meta
         \/ \E x \in {"blank", "sum", "garbled"} :
              meta' = [meta EXCEPT ![job[j].node][job[j].msg.chunk] = x]
BY DEF WriteMeta, Written

\* Descriptors are left without a file.
LEMMA UnlinkType ==
  ASSUME TypeOK, NEW n \in Node, NEW c \in Chunk, NEW kind \in {"meta", "data"},
         NEW j \in Job, job[j] # None, job[j].at \in DeletePc,
         NEW l \in DeletePc, job' = [Unlinked(n, c, kind) EXCEPT ![j].at = l]
  PROVE  JobsOK'
<1> DEFINE u == Unlinked(n, c, kind)
           v(i) == [job[i] EXCEPT !.open = @ \ {kind}]
<1>1. ASSUME NEW i \in Job, job[i] # None
      PROVE  v(i) \in Goroutine /\ GoroutineOK(v(i))
  BY <1>1, GoroutineType DEF Goroutine, GoroutineOK
<1>2. \A i \in Job : u[i] = job[i] \/ (job[i] # None /\ u[i] = v(i))
  BY DEF Unlinked, On
<1>3. u[j] \in Goroutine /\ GoroutineOK(u[j]) /\ u[j].at = job[j].at
  BY <1>1, <1>2, GoroutineType DEF Goroutine
<1> DEFINE w == [u[j] EXCEPT !.at = l]
<1>4. w \in Goroutine /\ GoroutineOK(w)
  BY <1>3 DEF Goroutine, GoroutineOK, BusyPc, DeletePc, ReadPc
<1>5. u = [i \in Job |-> u[i]] /\ job' = [u EXCEPT ![j] = w]
  BY DEF Unlinked
<1> HIDE DEF u, v, w
<1>6. \A i \in Job : job'[i] = IF i = j THEN w ELSE u[i]
  BY <1>5
<1>7. ASSUME NEW i \in Job
      PROVE  /\ job'[i] \in Goroutine \cup {None}
             /\ job'[i] # None => GoroutineOK(job'[i])
  <2>1. CASE i = j
    BY <2>1, <1>4, <1>6
  <2>2. CASE i # j /\ u[i] = job[i]
    BY <2>2, <1>6 DEF TypeOK
  <2>3. CASE i # j /\ job[i] # None /\ u[i] = v(i)
    BY <2>3, <1>1, <1>6
  <2>4. QED
    BY <1>2, <2>1, <2>2, <2>3
<1>8. job' = [i \in Job |-> job'[i]]
  BY <1>5
<1>9. QED
  BY <1>7, <1>8 DEF JobsOK

\* Storing a chunk.
LEMMA SaveType ==
  ASSUME TypeOK, NEW j \in Job, Save(j)
  PROVE  TypeOK'
<1> USE DEF files, history, Local
<1>1. job[j] # None
  BY DEF Save, CreateMeta, WriteMeta, CreateData, Copy, PassOn, Count, At
<1> DEFINE g == job[j]
           n == g.node
           c == g.msg.chunk
<1>2. n \in Node /\ c \in Chunk /\ g \in Goroutine /\ GoroutineOK(g)
      /\ g.msg \in Message
  BY <1>1, GoroutineType
<1>3. CASE CreateMeta(j)
  <2> DEFINE v == [g EXCEPT !.at = "writeMeta", !.open = {"meta"}]
  <2>1. v \in Goroutine /\ GoroutineOK(v)
    BY <1>2, <1>3
    DEF CreateMeta, At, Goroutine, GoroutineOK, BusyPc, WritePc, ReadPc
  <2>2. job' = [job EXCEPT ![j] = v]
    BY <1>3 DEF CreateMeta
  <2>3. JobsOK'
    BY <2>1, <2>2, JobType
  <2>4. QED
    BY <1>2, <1>3, <2>3 DEF CreateMeta, TypeOK, JobsOK, MetaFile
<1>4. CASE WriteMeta(j)
  <2>1. JobsOK'
    BY <1>1, <1>4, GotoType DEF WriteMeta, At, BusyPc, WritePc, ReadPc
  <2>2. meta' \in [Node -> [Chunk -> MetaFile]]
    <3>1. meta \in [Node -> [Chunk -> MetaFile]]
      BY DEF TypeOK
    <3>2. ASSUME NEW x \in {"blank", "sum", "garbled"}, meta' = [meta EXCEPT ![n][c] = x]
          PROVE  meta' \in [Node -> [Chunk -> MetaFile]]
      BY <1>2, <3>1, <3>2 DEF MetaFile
    <3>3. QED
      BY <1>4, <3>1, <3>2, LineWritten
  <2>3. QED
    BY <1>2, <1>4, <2>1, <2>2 DEF WriteMeta, TypeOK, JobsOK
<1>5. CASE CreateData(j)
  <2> DEFINE v == [g EXCEPT !.at = "copy", !.open = {"data"}]
  <2>1. v \in Goroutine /\ GoroutineOK(v)
    BY <1>2, <1>5
    DEF CreateData, At, Goroutine, GoroutineOK, BusyPc, WritePc, ReadPc
  <2>2. job' = [job EXCEPT ![j] = v]
    BY <1>5 DEF CreateData
  <2>3. JobsOK'
    BY <2>1, <2>2, JobType
  <2>4. QED
    BY <1>2, <1>5, <2>3 DEF CreateData, TypeOK, JobsOK, DataFile
<1>6. CASE Copy(j)
  <2>1. JobsOK'
    BY <1>1, <1>6, GotoType DEF Copy, At, BusyPc, WritePc, ReadPc
  <2>2. g.msg.data \in DataFile
    BY <1>2 DEF Message, DataFile
  <2>3. QED
    BY <1>2, <1>6, <2>1, <2>2 DEF Copy, TypeOK, JobsOK
<1>7. CASE PassOn(j)
  <2> DEFINE rest == g.msg.replicas
  <2>1. CASE rest # <<>> /\ Up(Head(rest))
    <3> DEFINE v == [g EXCEPT !.msg.replicas = Tail(rest)]
    <3>1. Head(rest) \in Node /\ Tail(rest) \in Seq(Node)
      BY <1>1, <2>1, GoroutineType, FirstAndRest
    <3>2. v \in Goroutine /\ GoroutineOK(v)
      BY <1>2, <3>1 DEF Goroutine, GoroutineOK, Message
    <3>3. job' = [job EXCEPT ![j] = v] /\ mail' = mail \cup {Upload(j)}
      BY <1>7, <2>1 DEF PassOn
    <3>4. JobsOK'
      BY <3>2, <3>3, JobType
    <3>5. <<>> \in Seq(Node) /\ ReadData(n, c) \in {"torn", "whole"}
          /\ ReadSum(n, c) \in BOOLEAN
      BY DEF ReadData, ReadSum
    <3>6. MessageOK(Upload(j))
      BY <1>2, <3>1, <3>5, Outsiders DEF MessageOK, Message, Upload, Type
    <3>7. QED
      BY <1>7, <3>3, <3>4, <3>6 DEF PassOn, TypeOK, JobsOK
  <2>2. CASE ~(rest # <<>> /\ Up(Head(rest)))
    <3>1. JobsOK'
      BY <1>1, <1>7, <2>2, GotoType DEF PassOn, At, BusyPc, WritePc, ReadPc
    <3>2. QED
      BY <1>7, <2>2, <3>1 DEF PassOn, TypeOK, JobsOK
  <2>3. QED
    BY <2>1, <2>2
<1>8. CASE Count(j)
  <2>1. JobsOK'
    BY <1>1, <1>8, FinishType DEF Count
  <2>2. (received[n] + 1) % Word \in 0 .. Word - 1
    BY <1>2, NodeAssumption DEF TypeOK
  <2>3. QED
    BY <1>2, <1>8, <2>1, <2>2 DEF Count, TypeOK, JobsOK
<1>9. QED
  BY <1>3, <1>4, <1>5, <1>6, <1>7, <1>8 DEF Save

\* log.Fatalln or a panic.
LEMMA FatalType ==
  ASSUME TypeOK, NEW j \in Job, job[j] # None, NEW why \in {"fileMissing", "noReplica"},
         Fatal(j, why), UNCHANGED files
  PROVE  TypeOK'
<1>1. job[j].node \in Node
  BY GoroutineType
<1>2. QED
  BY <1>1, ExitType DEF Fatal, TypeOK, JobsOK, files

\* Deleting a chunk.
LEMMA RemoveType ==
  ASSUME TypeOK, NEW j \in Job, Remove(j)
  PROVE  TypeOK'
<1> USE DEF files, history, Local
<1>1. job[j] # None
  BY DEF Remove, RemoveMeta, RemoveData, RemoveFails, PassDelete, Uncount, At
<1> DEFINE g == job[j]
           n == g.node
           c == g.msg.chunk
<1>2. n \in Node /\ c \in Chunk /\ g \in Goroutine /\ GoroutineOK(g)
      /\ g.msg \in Message
  BY <1>1, GoroutineType
<1>3. CASE RemoveMeta(j)
  <2>1. JobsOK'
    BY <1>1, <1>2, <1>3, UnlinkType DEF RemoveMeta, At, DeletePc
  <2>2. QED
    BY <1>2, <1>3, <2>1 DEF RemoveMeta, TypeOK, JobsOK, MetaFile
<1>4. CASE RemoveData(j)
  <2>1. JobsOK'
    BY <1>1, <1>2, <1>4, UnlinkType DEF RemoveData, At, DeletePc
  <2>2. QED
    BY <1>2, <1>4, <2>1 DEF RemoveData, TypeOK, JobsOK, DataFile
<1>5. CASE RemoveFails(j)
  BY <1>1, <1>5, FatalType DEF RemoveFails
<1>6. CASE PassDelete(j)
  <2> DEFINE rest == g.msg.replicas
  <2>1. CASE rest # <<>> /\ Up(Head(rest))
    <3> DEFINE v == [g EXCEPT !.msg.replicas = Tail(rest)]
               m == Request("delete", c, n, Head(rest), <<>>)
    <3>1. Head(rest) \in Node /\ Tail(rest) \in Seq(Node)
      BY <1>1, <2>1, GoroutineType, FirstAndRest
    <3>2. v \in Goroutine /\ GoroutineOK(v)
      BY <1>2, <3>1 DEF Goroutine, GoroutineOK, Message
    <3>3. job' = [job EXCEPT ![j] = v] /\ mail' = mail \cup {m}
      BY <1>6, <2>1 DEF PassDelete
    <3>4. JobsOK'
      BY <3>2, <3>3, JobType
    <3>5. <<>> \in Seq(Node) /\ "delete" \in Type
      BY DEF Type
    <3>6. MessageOK(m)
      BY <1>2, <3>1, <3>5, Outsiders, RequestType
    <3>7. QED
      BY <1>6, <3>3, <3>4, <3>6 DEF PassDelete, TypeOK, JobsOK
  <2>2. CASE ~(rest # <<>> /\ Up(Head(rest)))
    <3>1. JobsOK'
      BY <1>1, <1>6, <2>2, GotoType DEF PassDelete, At, BusyPc, DeletePc, ReadPc
    <3>2. QED
      BY <1>6, <2>2, <3>1 DEF PassDelete, TypeOK, JobsOK
  <2>3. QED
    BY <2>1, <2>2
<1>7. CASE Uncount(j)
  <2>1. JobsOK'
    BY <1>1, <1>7, FinishType DEF Uncount
  <2>2. (received[n] - 1) % Word \in 0 .. Word - 1
    BY <1>2, NodeAssumption DEF TypeOK
  <2>3. QED
    BY <1>2, <1>7, <2>1, <2>2 DEF Uncount, TypeOK, JobsOK
<1>8. QED
  BY <1>3, <1>4, <1>5, <1>6, <1>7 DEF Remove

\* Reading a chunk, and fetching one.
LEMMA ServeType ==
  ASSUME TypeOK, NEW j \in Job, Serve(j)
  PROVE  TypeOK'
<1> USE DEF files, history, Local
<1>1. job[j] # None
  BY DEF Serve, Load, Validated, Corrupted, ValidateFails, Reply, Send, Fetch,
         FetchFails, At
<1> DEFINE g == job[j]
           n == g.node
           c == g.msg.chunk
           m == g.msg
<1>2. n \in Node /\ c \in Chunk /\ g \in Goroutine /\ GoroutineOK(g)
      /\ m \in Message
  BY <1>1, GoroutineType
<1>3. CASE Load(j)
  <2> DEFINE v == [g EXCEPT !.at = "validate", !.sum = ReadSum(n, c),
                            !.loaded = ReadData(n, c)]
  <2>1. ReadData(n, c) \in DataFile \ {"none"} /\ ReadSum(n, c) \in BOOLEAN
    BY DEF ReadData, ReadSum, DataFile
  <2>2. v \in Goroutine /\ GoroutineOK(v)
    BY <1>2, <1>3, <2>1 DEF Load, At, Goroutine, GoroutineOK, BusyPc, ReadPc
  <2>3. job' = [job EXCEPT ![j] = v]
    BY <1>3 DEF Load
  <2>4. JobsOK'
    BY <2>2, <2>3, JobType
  <2>5. QED
    BY <1>3, <2>4 DEF Load, TypeOK, JobsOK
<1>4. CASE Validated(j)
  <2>1. JobsOK'
    BY <1>1, <1>4, GotoType DEF Validated, At, BusyPc, ReadPc
  <2>2. QED
    BY <1>4, <2>1 DEF Validated, TypeOK, JobsOK
<1>5. CASE Corrupted(j)
  <2> DEFINE v == [g EXCEPT !.at = "sleep", !.asking = TRUE, !.reader = m.from]
  <2>1. m.from \in Node \cup {Client}
    BY <1>2, <1>5 DEF Corrupted, At, GoroutineOK, ReadPc, Message
  <2>2. v \in Goroutine /\ GoroutineOK(v)
    BY <1>2, <1>5, <2>1, Outsiders
    DEF Corrupted, At, Goroutine, GoroutineOK, BusyPc, ReadPc
  <2>3. job' = [job EXCEPT ![j] = v]
    BY <1>5 DEF Corrupted
  <2>4. JobsOK'
    BY <2>2, <2>3, JobType
  <2>5. QED
    BY <1>5, <2>4 DEF Corrupted, TypeOK, JobsOK
<1>6. CASE ValidateFails(j)
  BY <1>1, <1>6, FatalType DEF ValidateFails
<1>7. CASE Reply(j)
  <2>1. CASE g.reader \in Node /\ ~Up(g.reader)
    <3>1. JobsOK'
      BY <1>1, <1>7, <2>1, FinishType DEF Reply
    <3>2. QED
      BY <1>7, <3>1 DEF Reply, TypeOK, JobsOK
  <2>2. CASE ~(g.reader \in Node /\ ~Up(g.reader))
    <3> DEFINE v == [g EXCEPT !.at = "send", !.msg.type = "write", !.msg.from = n]
    <3>1. v \in Goroutine /\ GoroutineOK(v)
      BY <1>2, <1>7, Outsiders
      DEF Reply, At, Goroutine, GoroutineOK, Message, Type, BusyPc, ReadPc
    <3>2. job' = [job EXCEPT ![j] = v]
      BY <1>7, <2>2 DEF Reply
    <3>3. JobsOK'
      BY <3>1, <3>2, JobType
    <3>4. QED
      BY <1>7, <3>3 DEF Reply, TypeOK, JobsOK
  <2>3. QED
    BY <2>1, <2>2
<1>8. CASE Send(j)
  <2>1. JobsOK'
    BY <1>1, <1>8, FinishType DEF Send
  <2>2. g.loaded \in {"torn", "whole"}
    BY <1>2, <1>8 DEF Send, At, Goroutine, GoroutineOK, DataFile
  <2>3. g.reader \in Node \cup {Client}
    BY <1>2, <1>8 DEF Send, At, Goroutine, GoroutineOK, ReadPc
  <2>4. CASE g.reader = Client
    BY <1>2, <1>8, <2>1, <2>2, <2>4 DEF Send, TypeOK, JobsOK
  <2>5. CASE g.reader # Client
    <3> DEFINE out == [m EXCEPT !.to = g.reader, !.data = g.loaded, !.sum = g.sum]
    <3>1. m.type \in {"write", "replica"}
      BY <1>2, <1>8 DEF Send, At, GoroutineOK
    <3>2. MessageOK(out)
      BY <1>2, <2>2, <2>3, <2>5, <3>1, Outsiders DEF MessageOK, Message, Goroutine
    <3>3. mail' = mail \cup {out} /\ answered' = answered
      BY <1>8, <2>5 DEF Send
    <3>4. QED
      BY <1>8, <2>1, <3>2, <3>3 DEF Send, TypeOK, JobsOK
  <2>6. QED
    BY <2>4, <2>5
<1>9. CASE Fetch(j)
  <2> DEFINE out == Request("read", c, n, Head(m.replicas), Tail(m.replicas))
  <2>1. JobsOK'
    BY <1>1, <1>9, FinishType DEF Fetch
  <2>2. Head(m.replicas) \in Node /\ Tail(m.replicas) \in Seq(Node)
    BY <1>1, <1>9, GoroutineType, FirstAndRest DEF Fetch
  <2>3. MessageOK(out)
    BY <1>2, <2>2, Outsiders, RequestType DEF Type
  <2>4. mail' = mail \/ mail' = mail \cup {out}
    BY <1>9 DEF Fetch
  <2>5. QED
    BY <1>9, <2>1, <2>3, <2>4 DEF Fetch, TypeOK, JobsOK
<1>10. CASE FetchFails(j)
  BY <1>1, <1>10, FatalType DEF FetchFails
<1>11. QED
  BY <1>3, <1>4, <1>5, <1>6, <1>7, <1>8, <1>9, <1>10 DEF Serve

\* What happens outside is counted.
LEMMA UseType ==
  ASSUME TypeOK, NEW kind \in Outside, Use(kind)
  PROVE  used' \in [Outside -> Nat]
BY DEF TypeOK, Use

\* Asking the controller, which may be out of reach, and a connection cut off.
LEMMA AskType ==
  ASSUME TypeOK, NEW j \in Job, 
         Ask(j) \/ AskFails(j) \/ CopyCut(j) \/ DialFails(j)
  PROVE  TypeOK'
<1> USE DEF files, history
<1>1. job[j] # None
  BY DEF Ask, AskFails, CopyCut, DialFails, At
<1> DEFINE g == job[j]
           n == g.node
           c == g.msg.chunk
<1>2. n \in Node /\ c \in Chunk /\ g \in Goroutine /\ GoroutineOK(g)
      /\ g.msg \in Message
  BY <1>1, GoroutineType
<1>3. CASE Ask(j)
  <2> DEFINE v == IF g.at = "asked" THEN None
                  ELSE [g EXCEPT !.asking = FALSE, !.msg.from = n,
                                 !.msg.type = "replica"]
             out == Request("lookup", c, n, Controller, <<>>)
  <2>1. v # None => v \in Goroutine /\ GoroutineOK(v)
    BY <1>2, Outsiders DEF Goroutine, GoroutineOK, Message, Type
  <2>2. job' = [job EXCEPT ![j] = v]
    BY <1>3 DEF Ask
  <2>3. JobsOK'
    BY <2>1, <2>2, JobType
  <2>4. <<>> \in Seq(Node)
    OBVIOUS
  <2>5. MessageOK(out)
    BY <1>2, <2>4, RequestType DEF Type
  <2>6. QED
    BY <1>3, <2>3, <2>5 DEF Ask, TypeOK, JobsOK
<1>4. CASE AskFails(j)
  <2> DEFINE v == IF g.at = "asked" THEN None ELSE [g EXCEPT !.asking = FALSE]
  <2>1. v # None => v \in Goroutine /\ GoroutineOK(v)
    BY <1>2 DEF Goroutine, GoroutineOK
  <2>2. job' = [job EXCEPT ![j] = v]
    BY <1>4 DEF AskFails
  <2>3. JobsOK'
    BY <2>1, <2>2, JobType
  <2>4. QED
    BY <1>4, <2>3, UseType DEF AskFails, Outside, TypeOK, JobsOK
<1>5. CASE CopyCut(j)
  <2>1. JobsOK'
    BY <1>1, <1>5, GotoType DEF CopyCut, At, BusyPc, WritePc, ReadPc
  <2>2. QED
    BY <1>5, <2>1, UseType DEF CopyCut, Outside, TypeOK, JobsOK
<1>6. CASE DialFails(j)
  <2>1. ASSUME NEW l \in {"count", "uncount"}, Goto(j, l), g.at \notin ReadPc
        PROVE  JobsOK'
    BY <1>1, <2>1, GotoType DEF BusyPc, WritePc, DeletePc, ReadPc
  <2>2. Finish(j) => JobsOK'
    BY <1>1, FinishType
  <2>3. JobsOK'
    BY <1>6, <2>1, <2>2 DEF DialFails, At, ReadPc
  <2>4. QED
    BY <1>6, <2>3, UseType DEF DialFails, Outside, TypeOK, JobsOK
<1>7. QED
  BY <1>3, <1>4, <1>5, <1>6

LEMMA ReceiveType ==
  ASSUME TypeOK, NEW j \in Job, NEW m \in mail, Receive(j, m)
  PROVE  TypeOK'
<1> USE DEF files, history
<1> DEFINE v == [at |-> FirstStep[m.type], node |-> m.to, msg |-> m,
                 reader |-> m.from, loaded |-> "none", sum |-> FALSE,
                 asking |-> FALSE, open |-> {}]
<1>1. MessageOK(m) /\ m.to \in Node
  BY DEF TypeOK, Receive
<1>2. v \in Goroutine
  BY <1>1, FirstStepType DEF Goroutine, MessageOK, Message, DataFile
<1>3. GoroutineOK(v)
  BY <1>1, <1>2, FirstStepType, Outsiders DEF GoroutineOK, MessageOK, ReadPc
<1>4. job' = [job EXCEPT ![j] = v]
  BY DEF Receive
<1>5. JobsOK'
  BY <1>2, <1>3, <1>4, JobType
<1>6. QED
  BY <1>5 DEF Receive, TypeOK, JobsOK

LEMMA HeartbeatType ==
  ASSUME TypeOK, NEW n \in Node, Heartbeat(n)
  PROVE  TypeOK'
<1> USE DEF files, history
<1>1. CASE BeatList(n)
  BY <1>1 DEF BeatList, TypeOK, Beat
<1>2. CASE BeatSend(n)
  <2>1. beat[n] \in Beat
    BY <1>2 DEF BeatSend, TypeOK
  <2>2. QED
    BY <1>2, <2>1 DEF BeatSend, TypeOK, Beat
<1>3. ASSUME NEW c \in Chunk, BeatRead(n, c)
      PROVE  TypeOK'
  <2>1. beat[n] \in Beat
    BY <1>3 DEF BeatRead, TypeOK
  <2>2. QED
    BY <1>3, <2>1 DEF BeatRead, TypeOK, Beat
<1>4. ASSUME NEW c \in Chunk, BeatFails(n, c)
      PROVE  TypeOK'
  <2>1. Exit(n, "fileMissing") \/ Exit(n, "garbled")
    BY <1>4 DEF BeatFails
  <2>2. QED
    BY <1>4, <2>1, ExitType DEF BeatFails, TypeOK, JobsOK
<1>5. QED
  BY <1>1, <1>2, <1>3, <1>4 DEF Heartbeat

\* The controller, the clients and the faults.
LEMMA OutsideType ==
  ASSUME TypeOK,
         \/ \E m \in mail : Lookup(m)
         \/ \E c \in Chunk : Requests(c)
         \/ \E n \in Node : Kill(n) \/ Restart(n) \/ \E c \in Chunk : Damage(n, c)
  PROVE  TypeOK'
<1> USE DEF files, history
<1>1. ASSUME NEW m \in mail, Lookup(m)
      PROVE  TypeOK'
  <2>1. MessageOK(m) /\ m.from \in Node /\ m.chunk \in Chunk
    BY <1>1 DEF TypeOK, Lookup, MessageOK, Message
  <2>2. PICK s \in Orders(located[m.chunk] \ {m.from}) :
          mail' = (mail \ {m}) \cup
                    IF Up(m.from)
                    THEN {Request("replica", m.chunk, Controller, m.from, s)}
                    ELSE {}
    BY <1>1 DEF Lookup
  <2>3. located[m.chunk] \ {m.from} \in SUBSET Node
    BY <2>1 DEF TypeOK
  <2>4. MessageOK(Request("replica", m.chunk, Controller, m.from, s))
    BY <2>1, <2>3, OrderIsList, Outsiders, RequestType DEF Type
  <2>5. QED
    BY <1>1, <2>2, <2>4 DEF Lookup, TypeOK
<1>2. ASSUME NEW c \in Chunk, NEW S \in (SUBSET Node) \ {{}}, NEW s \in Orders(S),
             ClientWrite(c, s)
      PROVE  TypeOK'
  <2> DEFINE out == [Request("write", c, Client, Head(s), Tail(s))
                       EXCEPT !.data = "whole", !.sum = TRUE]
  <2>1. s \in Seq(Node) /\ s # <<>> /\ Entries(s) \subseteq Node
    BY OrderNotEmpty, OrderIsList DEF Entries
  <2>2. MessageOK(out)
    BY <2>1, FirstAndRest, Outsiders DEF Request, MessageOK, Message, Type
  <2>3. QED
    BY <1>2, <2>1, <2>2, UseType DEF ClientWrite, New, Outside, TypeOK
<1>3. ASSUME NEW c \in Chunk, NEW s \in Orders(located[c]), ControllerDelete(c, s)
      PROVE  TypeOK'
  <2> DEFINE out == Request("delete", c, Controller, Head(s), Tail(s))
  <2>1. s \in Seq(Node) /\ s # <<>> /\ Entries(s) \subseteq Node
    <3>1. located[c] \in SUBSET Node
      BY DEF TypeOK
    <3>2. QED
      BY <1>3, <3>1, OrderIsList DEF ControllerDelete, Entries
  <2>2. MessageOK(out)
    BY <2>1, FirstAndRest, Outsiders, RequestType DEF Type
  <2>3. QED
    BY <1>3, <2>1, <2>2, UseType DEF ControllerDelete, New, Outside, TypeOK
<1>4. ASSUME NEW c \in Chunk, NEW n \in Node, ClientRead(c, n)
      PROVE  TypeOK'
  <2>1. <<>> \in Seq(Node)
    OBVIOUS
  <2>2. MessageOK(Request("read", c, Client, n, <<>>))
    BY <2>1, Outsiders, RequestType DEF Type
  <2>3. QED
    BY <1>4, <2>2, UseType DEF ClientRead, New, Outside, TypeOK
<1>5. ASSUME NEW c \in Chunk, NEW n \in Node,
             NEW s \in Orders(located[c] \ {n}), ControllerOrder(c, n, s)
      PROVE  TypeOK'
  <2>1. s \in Seq(Node)
    BY OrderIsList DEF TypeOK
  <2>2. MessageOK(Request("replica", c, Controller, n, s))
    BY <2>1, Outsiders, RequestType DEF Type
  <2>3. QED
    BY <1>5, <2>2, UseType DEF ControllerOrder, New, Outside, TypeOK
<1>6. ASSUME NEW n \in Node, Kill(n)
      PROVE  TypeOK'
  BY <1>6, ExitType, UseType DEF Kill, Outside, TypeOK, JobsOK
<1>7. ASSUME NEW n \in Node, Restart(n)
      PROVE  TypeOK'
  BY <1>7, NodeAssumption DEF Restart, TypeOK
<1>8. ASSUME NEW n \in Node, NEW c \in Chunk, Damage(n, c)
      PROVE  TypeOK'
  BY <1>8, UseType DEF Damage, Outside, TypeOK, DataFile
<1>9. QED
  BY <1>1, <1>2, <1>3, <1>4, <1>5, <1>6, <1>7, <1>8 DEF Requests

LEMMA NextType == TypeOK /\ [Next]_vars => TypeOK'
<1> SUFFICES ASSUME TypeOK, [Next]_vars PROVE TypeOK'
  OBVIOUS
<1>1. CASE UNCHANGED vars
  BY <1>1 DEF vars, files, history, TypeOK
<1>2. CASE Next
  BY <1>2, SaveType, RemoveType, ServeType, AskType, ReceiveType, HeartbeatType,
     OutsideType DEF Next, Faults
<1>3. QED
  BY <1>1, <1>2

LEMMA InitType == Init => TypeOK
BY NodeAssumption DEF Init, TypeOK, MetaFile, DataFile, Outside

\* The storage nodes' state keeps its types: a lookup is only ever a node's and
\* only ever the controller's to answer (handleClientRequest serves no such type,
\* storagenode.go:432-462), a chunk is only ever sent to who asked for it, and the
\* counter of chunks stays within its width.
THEOREM TypeCorrect == Spec => []TypeOK
BY InitType, NextType, PTL DEF Spec

-----------------------------------------------------------------------------
(* What a chunk's nodes are named by. *)

\* Every node that s names is named for c in P.
Named(c, s, P) == \A i \in DOMAIN s : <<c, s[i]>> \in P

\* A message asks for nothing that no upload, order or delete asked for.
MessageNamed(m) ==
  /\ m.type = "delete" => /\ <<m.chunk, m.to>> \in deleting
                          /\ Named(m.chunk, m.replicas, deleting)
  /\ m.type # "delete" => Named(m.chunk, m.replicas, storing)
  /\ m.type \in {"write", "replica"} => <<m.chunk, m.to>> \in storing
  /\ m.type \in {"read", "lookup"} /\ m.from \in Node =>
       <<m.chunk, m.from>> \in storing

\* Where a goroutine stores a chunk, or has found it stored.
KeepPc == WritePc \cup {"fetch", "reply", "send"}

\* Nor does a goroutine: it stores a chunk only where it was to be stored, and
\* sends it only to a node that was to store it.
GoroutineNamed(g) ==
  LET c == g.msg.chunk
  IN /\ g.at \in DeletePc => /\ <<c, g.node>> \in deleting
                             /\ Named(c, g.msg.replicas, deleting)
     /\ g.at \notin DeletePc => Named(c, g.msg.replicas, storing)
     /\ g.at \in KeepPc \/ g.asking => <<c, g.node>> \in storing
     /\ g.at \in ReadPc =>
          \A n \in {g.reader, g.msg.from} \cap Node : <<c, n>> \in storing

\* What is on disk, in a heartbeat, in the controller's list, on its way or being
\* worked on was named.
FilesNamed   == \A n \in Node, c \in Chunk :
                  meta[n][c] # "none" \/ data[n][c] # "none" => <<c, n>> \in storing
BeatsNamed   == \A n \in Node : beat[n] # None =>
                  \A c \in beat[n].todo \cup beat[n].files : <<c, n>> \in storing
LocatedNamed == \A c \in Chunk : \A n \in located[c] : <<c, n>> \in storing
MailNamed    == \A m \in mail : MessageNamed(m)
JobsNamed    == \A j \in Job : job[j] # None => GoroutineNamed(job[j])

AllNamed == FilesNamed /\ BeatsNamed /\ LocatedNamed /\ MailNamed /\ JobsNamed
NamedInv == TypeOK /\ AllNamed

\* Names are only added.
Names == <<storing, deleting>>

\* The rest of a list is named if the list is.
LEMMA RestNamed ==
  ASSUME NEW s \in Seq(Node), s # <<>>, NEW c, NEW P, Named(c, s, P)
  PROVE  <<c, Head(s)>> \in P /\ Named(c, Tail(s), P)
BY FirstAndRest DEF Named

LEMMA EmptyNamed ==
  ASSUME NEW c, NEW P
  PROVE  <<>> \in Seq(Node) /\ Named(c, <<>>, P)
BY DEF Named

\* One goroutine goes on, or returns.
LEMMA JobNamed ==
  ASSUME NamedInv, UNCHANGED Names, NEW j \in Job, NEW v,
         v # None => GoroutineNamed(v), job' = [job EXCEPT ![j] = v]
  PROVE  JobsNamed'
<1>1. ASSUME NEW g, GoroutineNamed(g)
      PROVE  GoroutineNamed(g)'
  BY <1>1 DEF GoroutineNamed, Named, Names
<1>2. \A i \in Job : job'[i] = IF i = j THEN v ELSE job[i]
  BY DEF NamedInv, TypeOK
<1>3. QED
  BY <1>1, <1>2 DEF NamedInv, AllNamed, JobsNamed

LEMMA GotoNamed ==
  ASSUME NamedInv, UNCHANGED Names, NEW j \in Job, job[j] # None,
         NEW l \in BusyPc, Goto(j, l),
         l \in DeletePc <=> job[j].at \in DeletePc,
         l \in KeepPc => <<job[j].msg.chunk, job[j].node>> \in storing,
         l \in ReadPc => job[j].at \in ReadPc
  PROVE  JobsNamed'
<1> DEFINE v == [job[j] EXCEPT !.at = l]
<1>1. GoroutineNamed(v)
  BY GoroutineType DEF NamedInv, AllNamed, JobsNamed, GoroutineNamed, Goroutine
<1>2. job' = [job EXCEPT ![j] = v]
  BY DEF Goto
<1>3. QED
  BY <1>1, <1>2, JobNamed

LEMMA FinishNamed ==
  ASSUME NamedInv, UNCHANGED Names, NEW j \in Job, job[j] # None, Finish(j)
  PROVE  JobsNamed'
<1>1. CASE job[j].asking
  <2> DEFINE v == [job[j] EXCEPT !.at = "asked"]
  <2>1. job[j].at \in ReadPc /\ job[j].at \notin DeletePc
    BY <1>1, GoroutineType DEF NamedInv, GoroutineOK, ReadPc, DeletePc
  <2>2. GoroutineNamed(v)
    BY <2>1, GoroutineType
    DEF NamedInv, AllNamed, JobsNamed, GoroutineNamed, Goroutine, KeepPc, WritePc,
        DeletePc, ReadPc
  <2>3. job' = [job EXCEPT ![j] = v]
    BY <1>1 DEF Finish, Finished
  <2>4. QED
    BY <2>2, <2>3, JobNamed
<1>2. CASE ~job[j].asking
  BY <1>2, JobNamed DEF Finish, Finished
<1>3. QED
  BY <1>1, <1>2

\* A process ends.
LEMMA ExitNamed ==
  ASSUME NamedInv, UNCHANGED Names, NEW n \in Node, NEW why, Exit(n, why),
         UNCHANGED <<files, located>>
  PROVE  AllNamed'
<1>1. ASSUME NEW g, GoroutineNamed(g)
      PROVE  GoroutineNamed(g)'
  BY <1>1 DEF GoroutineNamed, Named, Names
<1>2. ASSUME NEW m, MessageNamed(m)
      PROVE  MessageNamed(m)'
  BY <1>2 DEF MessageNamed, Named, Names
<1>3. JobsNamed' /\ MailNamed'
  BY <1>1, <1>2 DEF Exit, NamedInv, AllNamed, JobsNamed, MailNamed
<1>4. FilesNamed' /\ BeatsNamed' /\ LocatedNamed'
  BY DEF Exit, NamedInv, AllNamed, TypeOK, FilesNamed, BeatsNamed, LocatedNamed, files, Names
<1>5. QED
  BY <1>3, <1>4 DEF AllNamed

LEMMA FatalNamed ==
  ASSUME NamedInv, NEW j \in Job, job[j] # None, NEW why, Fatal(j, why),
         UNCHANGED files
  PROVE  AllNamed'
<1>1. job[j].node \in Node
  BY GoroutineType DEF NamedInv
<1>2. QED
  BY <1>1, ExitNamed DEF Fatal, Names

\* Messages are added.
LEMMA SentNamed ==
  ASSUME NamedInv, UNCHANGED Names, NEW m, mail' \subseteq mail \cup {m}, MessageNamed(m)
  PROVE  MailNamed'
<1>1. ASSUME NEW x, MessageNamed(x)
      PROVE  MessageNamed(x)'
  BY <1>1 DEF MessageNamed, Named, Names
<1>2. QED
  BY <1>1 DEF NamedInv, AllNamed, MailNamed

\* Nothing but goroutines changes.
LEMMA OthersNamed ==
  ASSUME NamedInv, UNCHANGED <<Names, files, beat, located>>
  PROVE  /\ FilesNamed' /\ BeatsNamed' /\ LocatedNamed'
         /\ UNCHANGED mail => MailNamed'
<1>1. ASSUME NEW m, MessageNamed(m)
      PROVE  MessageNamed(m)'
  BY <1>1 DEF MessageNamed, Named, Names
<1>2. UNCHANGED mail => MailNamed'
  BY <1>1 DEF NamedInv, AllNamed, MailNamed
<1>3. QED
  BY <1>2 DEF NamedInv, AllNamed, FilesNamed, BeatsNamed, LocatedNamed, Names, files

LEMMA SaveNamed ==
  ASSUME NamedInv, NEW j \in Job, Save(j)
  PROVE  AllNamed'
<1> USE DEF files, history, Local, Names
<1>1. job[j] # None
  BY DEF Save, CreateMeta, WriteMeta, CreateData, Copy, PassOn, Count, At
<1> DEFINE g == job[j]
           n == g.node
           c == g.msg.chunk
           rest == g.msg.replicas
<1>2. TypeOK /\ n \in Node /\ c \in Chunk /\ g \in Goroutine /\ rest \in Seq(Node)
      /\ g.msg \in Message
  BY <1>1, GoroutineType DEF NamedInv
<1>3. g.at \in WritePc /\ g.at \notin DeletePc
  BY DEF Save, CreateMeta, WriteMeta, CreateData, Copy, PassOn, Count, At, WritePc,
         DeletePc
<1>4. GoroutineNamed(g) /\ <<c, n>> \in storing /\ Named(c, rest, storing)
  BY <1>1, <1>3 DEF NamedInv, AllNamed, JobsNamed, GoroutineNamed, KeepPc
<1>5. ASSUME CreateMeta(j) \/ WriteMeta(j) \/ CreateData(j) \/ Copy(j)
      PROVE  FilesNamed' /\ BeatsNamed' /\ LocatedNamed' /\ MailNamed'
  <2>1. UNCHANGED <<storing, deleting, beat, located, mail>>
    BY <1>5 DEF CreateMeta, WriteMeta, CreateData, Copy
  <2>2. ASSUME NEW m, MessageNamed(m)
        PROVE  MessageNamed(m)'
    BY <2>1, <2>2 DEF MessageNamed, Named
  <2>3. \A k \in Node, d \in Chunk :
          /\ meta'[k][d] = meta[k][d] \/ (k = n /\ d = c)
          /\ data'[k][d] = data[k][d] \/ (k = n /\ d = c)
    <3>1. CASE WriteMeta(j)
      BY <1>2, <3>1, LineWritten DEF WriteMeta, TypeOK
    <3>2. CASE CreateMeta(j) \/ CreateData(j) \/ Copy(j)
      BY <1>2, <3>2 DEF CreateMeta, CreateData, Copy, TypeOK
    <3>3. QED
      BY <1>5, <3>1, <3>2
  <2>4. FilesNamed'
    BY <1>4, <2>1, <2>3 DEF NamedInv, AllNamed, FilesNamed
  <2>5. BeatsNamed' /\ LocatedNamed' /\ MailNamed'
    BY <2>1, <2>2 DEF NamedInv, AllNamed, BeatsNamed, LocatedNamed, MailNamed
  <2>6. QED
    BY <2>4, <2>5
<1>6. ASSUME CreateMeta(j) \/ CreateData(j)
      PROVE  JobsNamed'
  <2> DEFINE v(l, o) == [g EXCEPT !.at = l, !.open = o]
  <2>1. GoroutineNamed(v("writeMeta", {"meta"})) /\ GoroutineNamed(v("copy", {"data"}))
    BY <1>2, <1>3, <1>4, GoroutineType
    DEF GoroutineNamed, Goroutine, GoroutineOK, KeepPc, WritePc, DeletePc, ReadPc
  <2>2. job' = [job EXCEPT ![j] = v("writeMeta", {"meta"})]
        \/ job' = [job EXCEPT ![j] = v("copy", {"data"})]
    BY <1>6 DEF CreateMeta, CreateData
  <2>3. UNCHANGED Names
    BY <1>6 DEF CreateMeta, CreateData
  <2> HIDE DEF v
  <2>4. QED
    BY <2>1, <2>2, <2>3, JobNamed
<1>7. ASSUME WriteMeta(j) \/ Copy(j)
      PROVE  JobsNamed'
  BY <1>1, <1>3, <1>4, <1>7, GotoNamed
  DEF WriteMeta, Copy, BusyPc, WritePc, DeletePc, ReadPc
<1>8. CASE PassOn(j)
  <2>1. CASE rest # <<>> /\ Up(Head(rest))
    <3> DEFINE v == [g EXCEPT !.msg.replicas = Tail(rest)]
    <3>1. <<c, Head(rest)>> \in storing /\ Named(c, Tail(rest), storing)
      BY <1>2, <1>4, <2>1, RestNamed
    <3>2. GoroutineNamed(v)
      BY <1>2, <1>3, <1>4, <3>1 DEF GoroutineNamed, Goroutine, Message
    <3>3. job' = [job EXCEPT ![j] = v] /\ mail' = mail \cup {Upload(j)}
      BY <1>8, <2>1 DEF PassOn
    <3>4. MessageNamed(Upload(j))
      BY <3>1, EmptyNamed DEF MessageNamed, Upload
    <3>5. JobsNamed' /\ MailNamed'
      BY <1>8, <3>2, <3>3, <3>4, JobNamed, SentNamed DEF PassOn
    <3>6. QED
      BY <1>8, <3>5, OthersNamed DEF PassOn, AllNamed
  <2>2. CASE ~(rest # <<>> /\ Up(Head(rest)))
    <3>1. JobsNamed'
      BY <1>1, <1>3, <1>4, <1>8, <2>2, GotoNamed
      DEF PassOn, BusyPc, WritePc, DeletePc, ReadPc
    <3>2. QED
      BY <1>8, <2>2, <3>1, OthersNamed DEF PassOn, AllNamed
  <2>3. QED
    BY <2>1, <2>2
<1>9. CASE Count(j)
  BY <1>1, <1>9, FinishNamed, OthersNamed DEF Count, AllNamed
<1>10. QED
  BY <1>5, <1>6, <1>7, <1>8, <1>9 DEF Save, AllNamed

LEMMA RemoveNamed ==
  ASSUME NamedInv, NEW j \in Job, Remove(j)
  PROVE  AllNamed'
<1> USE DEF files, history, Local, Names
<1>1. job[j] # None
  BY DEF Remove, RemoveMeta, RemoveData, RemoveFails, PassDelete, Uncount, At
<1> DEFINE g == job[j]
           n == g.node
           c == g.msg.chunk
           rest == g.msg.replicas
<1>2. TypeOK /\ n \in Node /\ c \in Chunk /\ g \in Goroutine /\ rest \in Seq(Node)
      /\ g.msg \in Message
  BY <1>1, GoroutineType DEF NamedInv
<1>3. g.at \in DeletePc /\ g.at \notin WritePc \cup ReadPc \cup {"fetch"}
      /\ ~g.asking
  BY <1>1, <1>2, GoroutineType
  DEF Remove, RemoveMeta, RemoveData, RemoveFails, PassDelete, Uncount, At, WritePc,
      DeletePc, ReadPc, GoroutineOK
<1>4. GoroutineNamed(g) /\ <<c, n>> \in deleting /\ Named(c, rest, deleting)
  BY <1>1, <1>3 DEF NamedInv, AllNamed, JobsNamed, GoroutineNamed
<1>5. ASSUME RemoveMeta(j) \/ RemoveData(j)
      PROVE  AllNamed'
  <2>1. UNCHANGED <<storing, deleting, beat, located, mail>>
    BY <1>5 DEF RemoveMeta, RemoveData
  <2>2. ASSUME NEW m, MessageNamed(m)
        PROVE  MessageNamed(m)'
    BY <2>1, <2>2 DEF MessageNamed, Named
  <2>3. \A k \in Node, d \in Chunk :
          /\ meta'[k][d] = meta[k][d] \/ meta'[k][d] = "none"
          /\ data'[k][d] = data[k][d] \/ data'[k][d] = "none"
    <3>1. CASE RemoveMeta(j)
      BY <1>2, <3>1 DEF RemoveMeta, TypeOK
    <3>2. CASE RemoveData(j)
      BY <1>2, <3>2 DEF RemoveData, TypeOK
    <3>3. QED
      BY <1>5, <3>1, <3>2
  <2>4. FilesNamed'
    BY <2>1, <2>3 DEF NamedInv, AllNamed, FilesNamed
  <2>5. BeatsNamed' /\ LocatedNamed' /\ MailNamed'
    BY <2>1, <2>2 DEF NamedInv, AllNamed, BeatsNamed, LocatedNamed, MailNamed
  <2>6. ASSUME NEW kind, NEW l \in DeletePc, NEW u, u = Unlinked(n, c, kind),
               job' = [u EXCEPT ![j].at = l]
        PROVE  JobsNamed'
    <3> DEFINE v(i) == [job[i] EXCEPT !.open = @ \ {kind}]
               w == [u[j] EXCEPT !.at = l]
    <3>1. ASSUME NEW i \in Job, job[i] # None
          PROVE  GoroutineNamed(v(i)) /\ GoroutineNamed(job[i])
      BY <3>1, GoroutineType
      DEF NamedInv, AllNamed, JobsNamed, GoroutineNamed, Goroutine
    <3>2. \A i \in Job : u[i] = job[i] \/ (job[i] # None /\ u[i] = v(i))
      BY <2>6 DEF Unlinked, On
    <3>3. GoroutineNamed(w)
      BY <1>1, <1>2, <1>3, <1>4, <3>2
      DEF GoroutineNamed, Goroutine, KeepPc, DeletePc, WritePc, ReadPc
    <3>4. \A i \in Job : job'[i] = IF i = j THEN w ELSE u[i]
      BY <2>6 DEF Unlinked
    <3>5. ASSUME NEW x, GoroutineNamed(x)
          PROVE  GoroutineNamed(x)'
      BY <2>1, <3>5 DEF GoroutineNamed, Named
    <3> HIDE DEF v, w
    <3>6. ASSUME NEW i \in Job, job'[i] # None
          PROVE  GoroutineNamed(job'[i])
      BY <3>1, <3>2, <3>3, <3>4, <3>6
    <3>7. QED
      BY <3>5, <3>6 DEF JobsNamed
  <2>7. JobsNamed'
    BY <1>5, <2>6 DEF RemoveMeta, RemoveData, DeletePc
  <2>8. QED
    BY <2>4, <2>5, <2>7 DEF AllNamed
<1>6. CASE RemoveFails(j)
  BY <1>1, <1>6, FatalNamed DEF RemoveFails
<1>7. CASE PassDelete(j)
  <2>1. CASE rest # <<>> /\ Up(Head(rest))
    <3> DEFINE v == [g EXCEPT !.msg.replicas = Tail(rest)]
               m == Request("delete", c, n, Head(rest), <<>>)
    <3>1. <<c, Head(rest)>> \in deleting /\ Named(c, Tail(rest), deleting)
      BY <1>2, <1>4, <2>1, RestNamed
    <3>2. GoroutineNamed(v)
      BY <1>2, <1>3, <1>4, <3>1 DEF GoroutineNamed, Goroutine, Message
    <3>3. job' = [job EXCEPT ![j] = v] /\ mail' = mail \cup {m}
      BY <1>7, <2>1 DEF PassDelete
    <3>4. MessageNamed(m)
      BY <3>1, EmptyNamed DEF MessageNamed, Request
    <3>5. JobsNamed' /\ MailNamed'
      BY <1>7, <3>2, <3>3, <3>4, JobNamed, SentNamed DEF PassDelete
    <3>6. QED
      BY <1>7, <3>5, OthersNamed DEF PassDelete, AllNamed
  <2>2. CASE ~(rest # <<>> /\ Up(Head(rest)))
    <3>1. JobsNamed'
      BY <1>1, <1>3, <1>7, <2>2, GotoNamed
      DEF PassDelete, BusyPc, KeepPc, WritePc, DeletePc, ReadPc
    <3>2. QED
      BY <1>7, <2>2, <3>1, OthersNamed DEF PassDelete, AllNamed
  <2>3. QED
    BY <2>1, <2>2
<1>8. CASE Uncount(j)
  BY <1>1, <1>8, FinishNamed, OthersNamed DEF Uncount, AllNamed
<1>9. QED
  BY <1>5, <1>6, <1>7, <1>8 DEF Remove

LEMMA ServeNamed ==
  ASSUME NamedInv, NEW j \in Job, Serve(j)
  PROVE  AllNamed'
<1> USE DEF files, history, Local, Names
<1>1. job[j] # None
  BY DEF Serve, Load, Validated, Corrupted, ValidateFails, Reply, Send, Fetch,
         FetchFails, At
<1> DEFINE g == job[j]
           n == g.node
           c == g.msg.chunk
           m == g.msg
<1>2. TypeOK /\ n \in Node /\ c \in Chunk /\ g \in Goroutine /\ GoroutineOK(g)
      /\ m \in Message /\ m.replicas \in Seq(Node)
  BY <1>1, GoroutineType DEF NamedInv
<1>3. GoroutineNamed(g)
  BY <1>1 DEF NamedInv, AllNamed, JobsNamed
<1>4. CASE Load(j)
  <2> DEFINE v == [g EXCEPT !.at = "validate", !.sum = ReadSum(n, c),
                            !.loaded = ReadData(n, c)]
  <2>1. GoroutineNamed(v)
    BY <1>2, <1>3, <1>4
    DEF Load, At, GoroutineNamed, Goroutine, KeepPc, WritePc, DeletePc, ReadPc
  <2>2. job' = [job EXCEPT ![j] = v]
    BY <1>4 DEF Load
  <2>3. JobsNamed'
    BY <1>4, <2>1, <2>2, JobNamed DEF Load
  <2>4. QED
    BY <1>4, <2>3, OthersNamed DEF Load, AllNamed
<1>5. CASE Validated(j)
  <2>1. <<c, n>> \in storing
    BY <1>2, <1>5 DEF Validated, Valid, NamedInv, AllNamed, FilesNamed
  <2>2. JobsNamed'
    BY <1>1, <1>5, <2>1, GotoNamed DEF Validated, At, BusyPc, DeletePc, ReadPc
  <2>3. QED
    BY <1>5, <2>2, OthersNamed DEF Validated, AllNamed
<1>6. CASE Corrupted(j)
  <2> DEFINE v == [g EXCEPT !.at = "sleep", !.asking = TRUE, !.reader = m.from]
  <2>1. <<c, n>> \in storing
    BY <1>2, <1>6 DEF Corrupted, NamedInv, AllNamed, FilesNamed
  <2>2. GoroutineNamed(v)
    BY <1>2, <1>3, <1>6, <2>1
    DEF Corrupted, At, GoroutineNamed, Goroutine, KeepPc, WritePc, DeletePc, ReadPc
  <2>3. job' = [job EXCEPT ![j] = v]
    BY <1>6 DEF Corrupted
  <2>4. JobsNamed'
    BY <1>6, <2>2, <2>3, JobNamed DEF Corrupted
  <2>5. QED
    BY <1>6, <2>4, OthersNamed DEF Corrupted, AllNamed
<1>7. CASE ValidateFails(j)
  BY <1>1, <1>7, FatalNamed DEF ValidateFails
<1>8. CASE Reply(j)
  <2>1. CASE g.reader \in Node /\ ~Up(g.reader)
    <3>1. JobsNamed'
      BY <1>1, <1>8, <2>1, FinishNamed DEF Reply
    <3>2. QED
      BY <1>8, <3>1, OthersNamed DEF Reply, AllNamed
  <2>2. CASE ~(g.reader \in Node /\ ~Up(g.reader))
    <3> DEFINE v == [g EXCEPT !.at = "send", !.msg.type = "write", !.msg.from = n]
    <3>1. v.msg.from = n /\ v.reader = g.reader /\ v.msg.chunk = c /\ v.node = n
          /\ v.asking = g.asking /\ v.msg.replicas = m.replicas /\ v.at = "send"
      BY <1>2 DEF Goroutine, Message
    <3>2. g.at = "reply"
      BY <1>8 DEF Reply, At
    <3>3. <<c, n>> \in storing
      BY <1>3, <3>2 DEF GoroutineNamed, KeepPc
    <3>4. GoroutineNamed(v)
      BY <1>2, <1>3, <3>1, <3>2, <3>3
      DEF GoroutineNamed, DeletePc, ReadPc
    <3>5. job' = [job EXCEPT ![j] = v]
      BY <1>8, <2>2 DEF Reply
    <3>6. JobsNamed'
      BY <1>8, <3>4, <3>5, JobNamed DEF Reply
    <3>7. QED
      BY <1>8, <3>6, OthersNamed DEF Reply, AllNamed
  <2>3. QED
    BY <2>1, <2>2
<1>9. CASE Send(j)
  <2>1. JobsNamed'
    BY <1>1, <1>9, FinishNamed DEF Send
  <2>2. CASE g.reader = Client
    BY <1>9, <2>1, <2>2, OthersNamed DEF Send, AllNamed
  <2>3. CASE g.reader # Client
    <3> DEFINE out == [m EXCEPT !.to = g.reader, !.data = g.loaded, !.sum = g.sum]
    <3>1. m.type \in {"write", "replica"}
      BY <1>2, <1>9 DEF Send, At, GoroutineOK
    <3>2. g.reader \in Node
      BY <1>2, <1>9, <2>3 DEF Send, At, Goroutine, GoroutineOK, ReadPc
    <3>3. out.type = m.type /\ out.chunk = c /\ out.to = g.reader
          /\ out.replicas = m.replicas
      BY <1>2 DEF Message
    <3>4. <<c, g.reader>> \in storing /\ Named(c, m.replicas, storing)
      BY <1>3, <1>9, <3>2 DEF Send, At, GoroutineNamed, DeletePc, ReadPc
    <3>5. MessageNamed(out)
      BY <3>1, <3>3, <3>4 DEF MessageNamed
    <3>6. MailNamed'
      BY <1>9, <2>3, <3>5, SentNamed DEF Send
    <3>7. QED
      BY <1>9, <2>1, <3>6, OthersNamed DEF Send, AllNamed
  <2>4. QED
    BY <2>2, <2>3
<1>10. CASE Fetch(j)
  <2> DEFINE out == Request("read", c, n, Head(m.replicas), Tail(m.replicas))
  <2>1. JobsNamed'
    BY <1>1, <1>10, FinishNamed DEF Fetch
  <2>2. <<c, n>> \in storing /\ Named(c, m.replicas, storing)
    BY <1>3, <1>10 DEF Fetch, At, GoroutineNamed, KeepPc, DeletePc
  <2>3. Named(c, Tail(m.replicas), storing)
    BY <1>2, <1>10, <2>2, RestNamed DEF Fetch
  <2>4. MessageNamed(out)
    BY <2>2, <2>3 DEF MessageNamed, Request
  <2>5. mail' \subseteq mail \cup {out}
    BY <1>10 DEF Fetch
  <2>6. MailNamed'
    BY <1>10, <2>4, <2>5, SentNamed DEF Fetch
  <2>7. QED
    BY <1>10, <2>1, <2>6, OthersNamed DEF Fetch, AllNamed
<1>11. CASE FetchFails(j)
  BY <1>1, <1>11, FatalNamed DEF FetchFails
<1>12. QED
  BY <1>4, <1>5, <1>6, <1>7, <1>8, <1>9, <1>10, <1>11 DEF Serve

LEMMA AskNamed ==
  ASSUME NamedInv, NEW j \in Job,
         Ask(j) \/ AskFails(j) \/ CopyCut(j) \/ DialFails(j)
  PROVE  AllNamed'
<1> USE DEF files, history, Names
<1>1. job[j] # None
  BY DEF Ask, AskFails, CopyCut, DialFails, At
<1> DEFINE g == job[j]
           n == g.node
           c == g.msg.chunk
<1>2. TypeOK /\ n \in Node /\ c \in Chunk /\ g \in Goroutine /\ GoroutineOK(g)
      /\ g.msg \in Message
  BY <1>1, GoroutineType DEF NamedInv
<1>3. GoroutineNamed(g)
  BY <1>1 DEF NamedInv, AllNamed, JobsNamed
<1>4. CASE Ask(j)
  <2> DEFINE v == [g EXCEPT !.asking = FALSE, !.msg.from = n, !.msg.type = "replica"]
             w == IF g.at = "asked" THEN None ELSE v
             out == Request("lookup", c, n, Controller, <<>>)
  <2>1. <<c, n>> \in storing
    BY <1>3, <1>4 DEF Ask, GoroutineNamed
  <2>2. v.msg.from = n /\ v.reader = g.reader /\ v.msg.chunk = c /\ v.node = n
        /\ v.msg.replicas = g.msg.replicas /\ v.at = g.at
    BY <1>2 DEF Goroutine, Message
  <2>3. GoroutineNamed(v)
    BY <1>3, <2>1, <2>2 DEF GoroutineNamed
  <2>4. job' = [job EXCEPT ![j] = w]
    BY <1>4 DEF Ask
  <2>5. JobsNamed'
    BY <1>4, <2>3, <2>4, JobNamed DEF Ask
  <2>6. MessageNamed(out)
    BY <2>1, EmptyNamed DEF MessageNamed, Request
  <2>7. MailNamed'
    BY <1>4, <2>6, SentNamed DEF Ask
  <2>8. QED
    BY <1>4, <2>5, <2>7, OthersNamed DEF Ask, AllNamed
<1>5. CASE AskFails(j)
  <2> DEFINE v == [g EXCEPT !.asking = FALSE]
             w == IF g.at = "asked" THEN None ELSE v
  <2>1. GoroutineNamed(v)
    BY <1>2, <1>3 DEF GoroutineNamed, Goroutine
  <2>2. job' = [job EXCEPT ![j] = w]
    BY <1>5 DEF AskFails
  <2>3. JobsNamed'
    BY <1>5, <2>1, <2>2, JobNamed DEF AskFails
  <2>4. QED
    BY <1>5, <2>3, OthersNamed DEF AskFails, AllNamed
<1>6. CASE CopyCut(j)
  <2>1. <<c, n>> \in storing
    BY <1>3, <1>6 DEF CopyCut, At, GoroutineNamed, KeepPc, WritePc
  <2>2. JobsNamed'
    BY <1>1, <1>6, <2>1, GotoNamed
    DEF CopyCut, At, BusyPc, WritePc, DeletePc, ReadPc
  <2>3. QED
    BY <1>6, <2>2, OthersNamed DEF CopyCut, AllNamed
<1>7. CASE DialFails(j)
  <2>1. Goto(j, "count") /\ g.at = "passOn" => JobsNamed'
    BY <1>1, <1>3, <1>7, GotoNamed
    DEF DialFails, GoroutineNamed, KeepPc, BusyPc, WritePc, DeletePc, ReadPc
  <2>2. Goto(j, "uncount") /\ g.at = "passDelete" => JobsNamed'
    BY <1>1, <1>3, <1>7, GotoNamed
    DEF DialFails, GoroutineNamed, KeepPc, BusyPc, WritePc, DeletePc, ReadPc
  <2>3. Finish(j) => JobsNamed'
    BY <1>1, <1>3, <1>7, FinishNamed DEF DialFails
  <2>4. JobsNamed'
    BY <1>7, <2>1, <2>2, <2>3 DEF DialFails, At
  <2>5. QED
    BY <1>7, <2>4, OthersNamed DEF DialFails, AllNamed
<1>8. QED
  BY <1>4, <1>5, <1>6, <1>7

LEMMA ReceiveNamed ==
  ASSUME NamedInv, NEW j \in Job, NEW m \in mail, Receive(j, m)
  PROVE  AllNamed'
<1> USE DEF files, history, Names
<1> DEFINE v == [at |-> FirstStep[m.type], node |-> m.to, msg |-> m,
                 reader |-> m.from, loaded |-> "none", sum |-> FALSE,
                 asking |-> FALSE, open |-> {}]
<1>1. MessageOK(m) /\ m.to \in Node
  BY DEF NamedInv, TypeOK, Receive
<1>2. MessageNamed(m)
  BY DEF NamedInv, AllNamed, MailNamed
<1>3. m.type \in {"write", "delete", "read", "replica"}
  BY <1>1, Outsiders DEF MessageOK, Message, Type
<1>4. GoroutineNamed(v)
  BY <1>1, <1>2, <1>3
  DEF FirstStep, GoroutineNamed, MessageNamed, KeepPc, WritePc, DeletePc, ReadPc
<1>5. job' = [job EXCEPT ![j] = v] /\ mail' \subseteq mail
  BY DEF Receive
<1>6. JobsNamed' /\ MailNamed'
  BY <1>2, <1>4, <1>5, JobNamed, SentNamed DEF Receive
<1>7. QED
  BY <1>6, OthersNamed DEF Receive, AllNamed

\* Nothing but heartbeats and the list of who has reported a chunk changes.
LEMMA ReportNamed ==
  ASSUME NamedInv, UNCHANGED <<Names, files, job, mail>>
  PROVE  FilesNamed' /\ JobsNamed' /\ MailNamed'
<1>1. ASSUME NEW m, MessageNamed(m)
      PROVE  MessageNamed(m)'
  BY <1>1 DEF MessageNamed, Named, Names
<1>2. ASSUME NEW g, GoroutineNamed(g)
      PROVE  GoroutineNamed(g)'
  BY <1>2 DEF GoroutineNamed, Named, Names
<1>3. QED
  BY <1>1, <1>2 DEF NamedInv, AllNamed, FilesNamed, MailNamed, JobsNamed, Names, files

LEMMA HeartbeatNamed ==
  ASSUME NamedInv, NEW n \in Node, Heartbeat(n)
  PROVE  AllNamed'
<1> USE DEF files, history, Names, NamedInv, AllNamed
<1>1. CASE BeatList(n)
  <2>1. BeatsNamed' /\ LocatedNamed'
    BY <1>1 DEF BeatList, TypeOK, BeatsNamed, LocatedNamed, FilesNamed
  <2>2. QED
    BY <1>1, <2>1, ReportNamed DEF BeatList
<1>2. CASE BeatSend(n)
  <2>1. BeatsNamed' /\ LocatedNamed'
    BY <1>2 DEF BeatSend, TypeOK, BeatsNamed, LocatedNamed
  <2>2. QED
    BY <1>2, <2>1, ReportNamed DEF BeatSend
<1>3. ASSUME NEW c \in Chunk, BeatRead(n, c)
      PROVE  AllNamed'
  <2>1. BeatsNamed' /\ LocatedNamed'
    BY <1>3 DEF BeatRead, TypeOK, BeatsNamed, LocatedNamed
  <2>2. QED
    BY <1>3, <2>1, ReportNamed DEF BeatRead
<1>4. ASSUME NEW c \in Chunk, BeatFails(n, c)
      PROVE  AllNamed'
  BY <1>4, ExitNamed DEF BeatFails
<1>5. QED
  BY <1>1, <1>2, <1>3, <1>4 DEF Heartbeat

\* Names are added.
LEMMA ToldNamed ==
  ASSUME NamedInv, storing \subseteq storing', deleting \subseteq deleting',
         UNCHANGED <<files, beat, job>>
  PROVE  /\ FilesNamed' /\ BeatsNamed' /\ JobsNamed'
         /\ UNCHANGED located => LocatedNamed'
         /\ \A m \in mail : MessageNamed(m)'
<1>1. ASSUME NEW m, MessageNamed(m)
      PROVE  MessageNamed(m)'
  BY <1>1 DEF MessageNamed, Named
<1>2. ASSUME NEW g, GoroutineNamed(g)
      PROVE  GoroutineNamed(g)'
  BY <1>2 DEF GoroutineNamed, Named
<1>3. QED
  BY <1>1, <1>2
  DEF NamedInv, AllNamed, FilesNamed, BeatsNamed, LocatedNamed, MailNamed, JobsNamed,
      files

LEMMA OutsideNamed ==
  ASSUME NamedInv,
         \/ \E m \in mail : Lookup(m)
         \/ \E c \in Chunk : Requests(c)
         \/ \E n \in Node : Kill(n) \/ Restart(n) \/ \E c \in Chunk : Damage(n, c)
  PROVE  AllNamed'
<1> USE DEF files, history, Names
<1>1. ASSUME NEW m \in mail, Lookup(m)
      PROVE  AllNamed'
  <2>1. MessageOK(m) /\ m.from \in Node /\ m.chunk \in Chunk /\ m.type = "lookup"
    BY <1>1 DEF NamedInv, TypeOK, Lookup, MessageOK, Message
  <2>2. <<m.chunk, m.from>> \in storing
    BY <2>1 DEF NamedInv, AllNamed, MailNamed, MessageNamed
  <2>3. PICK s \in Orders(located[m.chunk] \ {m.from}) :
          mail' = (mail \ {m}) \cup
                    IF Up(m.from)
                    THEN {Request("replica", m.chunk, Controller, m.from, s)}
                    ELSE {}
    BY <1>1 DEF Lookup
  <2> DEFINE out == Request("replica", m.chunk, Controller, m.from, s)
  <2>4. located[m.chunk] \ {m.from} \in SUBSET Node
    BY <2>1 DEF NamedInv, TypeOK
  <2>5. Named(m.chunk, s, storing)
    BY <2>1, <2>4, OrderIsList DEF Named, NamedInv, AllNamed, LocatedNamed
  <2>6. MessageNamed(out)
    BY <2>2, <2>5 DEF MessageNamed, Request
  <2>7. mail' \subseteq mail \cup {out}
    BY <2>3
  <2>8. MailNamed'
    BY <1>1, <2>6, <2>7, SentNamed DEF Lookup
  <2>9. JobsNamed'
    BY <1>1, ToldNamed DEF Lookup
  <2>10. QED
    BY <1>1, <2>8, <2>9, OthersNamed DEF Lookup, AllNamed
<1>2. ASSUME NEW c \in Chunk, NEW S \in (SUBSET Node) \ {{}}, NEW s \in Orders(S),
             ClientWrite(c, s)
      PROVE  AllNamed'
  <2> DEFINE out == [Request("write", c, Client, Head(s), Tail(s))
                       EXCEPT !.data = "whole", !.sum = TRUE]
  <2>1. s \in Seq(Node) /\ s # <<>>
    BY OrderNotEmpty, OrderIsList
  <2>2. storing \subseteq storing' /\ deleting' = deleting /\ Named(c, s, storing')
    BY <1>2 DEF ClientWrite, Named, Entries
  <2>3. <<c, Head(s)>> \in storing' /\ Named(c, Tail(s), storing')
    BY <2>1, <2>2, RestNamed
  <2>4. MessageNamed(out)'
    BY <2>3 DEF MessageNamed, Request
  <2>5. mail' = mail \cup {out}
    BY <1>2 DEF ClientWrite
  <2>6. MailNamed'
    BY <1>2, <2>2, <2>4, <2>5, ToldNamed DEF ClientWrite, MailNamed
  <2>7. QED
    BY <1>2, <2>2, <2>6, ToldNamed DEF ClientWrite, AllNamed
<1>3. ASSUME NEW c \in Chunk, NEW s \in Orders(located[c]), ControllerDelete(c, s)
      PROVE  AllNamed'
  <2> DEFINE out == Request("delete", c, Controller, Head(s), Tail(s))
  <2>1. s \in Seq(Node) /\ s # <<>>
    <3>1. located[c] \in SUBSET Node
      BY DEF NamedInv, TypeOK
    <3>2. QED
      BY <1>3, <3>1, OrderIsList DEF ControllerDelete
  <2>2. storing' = storing /\ deleting \subseteq deleting' /\ Named(c, s, deleting')
    BY <1>3 DEF ControllerDelete, Named, Entries
  <2>3. <<c, Head(s)>> \in deleting' /\ Named(c, Tail(s), deleting')
    BY <2>1, <2>2, RestNamed
  <2>4. MessageNamed(out)'
    BY <2>3 DEF MessageNamed, Request
  <2>5. mail' \subseteq mail \cup {out}
    BY <1>3 DEF ControllerDelete
  <2>6. MailNamed'
    BY <1>3, <2>2, <2>4, <2>5, ToldNamed DEF ControllerDelete, MailNamed
  <2>7. LocatedNamed'
    BY <1>3 DEF ControllerDelete, LocatedNamed, NamedInv, AllNamed, TypeOK
  <2>8. QED
    BY <1>3, <2>2, <2>6, <2>7, ToldNamed DEF ControllerDelete, AllNamed
<1>4. ASSUME NEW c \in Chunk, NEW n \in Node, ClientRead(c, n)
      PROVE  AllNamed'
  <2> DEFINE out == Request("read", c, Client, n, <<>>)
  <2>1. MessageNamed(out)
    BY Outsiders, EmptyNamed DEF MessageNamed, Request
  <2>2. MailNamed'
    BY <1>4, <2>1, SentNamed DEF ClientRead
  <2>3. QED
    BY <1>4, <2>2, ToldNamed DEF ClientRead, AllNamed
<1>5. ASSUME NEW c \in Chunk, NEW n \in Node,
             NEW s \in Orders(located[c] \ {n}), ControllerOrder(c, n, s)
      PROVE  AllNamed'
  <2> DEFINE out == Request("replica", c, Controller, n, s)
  <2>1. located[c] \ {n} \in SUBSET Node
    BY DEF NamedInv, TypeOK
  <2>2. Named(c, s, storing')
    BY <1>5, <2>1, OrderIsList
    DEF ControllerOrder, Named, NamedInv, AllNamed, LocatedNamed
  <2>3. storing \subseteq storing' /\ deleting' = deleting
        /\ <<c, n>> \in storing' /\ mail' = mail \cup {out}
    BY <1>5 DEF ControllerOrder
  <2>4. MessageNamed(out)'
    BY <2>2, <2>3 DEF MessageNamed, Request
  <2>5. MailNamed'
    BY <1>5, <2>3, <2>4, ToldNamed DEF ControllerOrder, MailNamed
  <2>6. QED
    BY <1>5, <2>3, <2>5, ToldNamed DEF ControllerOrder, AllNamed
<1>6. ASSUME NEW n \in Node, Kill(n)
      PROVE  AllNamed'
  BY <1>6, ExitNamed DEF Kill
<1>7. ASSUME NEW n \in Node, Restart(n)
      PROVE  AllNamed'
  BY <1>7, ToldNamed, OthersNamed DEF Restart, AllNamed
<1>8. ASSUME NEW n \in Node, NEW c \in Chunk, Damage(n, c)
      PROVE  AllNamed'
  <2>1. \A k \in Node, d \in Chunk :
          data'[k][d] = data[k][d] \/ (data[k][d] # "none" /\ k = n /\ d = c)
    BY <1>8 DEF Damage, NamedInv, TypeOK
  <2>2. FilesNamed'
    BY <1>8, <2>1 DEF Damage, NamedInv, AllNamed, FilesNamed
  <2>3. BeatsNamed' /\ LocatedNamed'
    BY <1>8 DEF Damage, NamedInv, AllNamed, BeatsNamed, LocatedNamed
  <2>4. MailNamed' /\ JobsNamed'
    <3>1. ASSUME NEW m, MessageNamed(m)
          PROVE  MessageNamed(m)'
      BY <1>8, <3>1 DEF Damage, MessageNamed, Named
    <3>2. ASSUME NEW g, GoroutineNamed(g)
          PROVE  GoroutineNamed(g)'
      BY <1>8, <3>2 DEF Damage, GoroutineNamed, Named
    <3>3. QED
      BY <1>8, <3>1, <3>2 DEF Damage, NamedInv, AllNamed, MailNamed, JobsNamed
  <2>5. QED
    BY <2>2, <2>3, <2>4 DEF AllNamed
<1>9. QED
  BY <1>1, <1>2, <1>3, <1>4, <1>5, <1>6, <1>7, <1>8 DEF Requests

LEMMA NextNamed == NamedInv /\ [Next]_vars => NamedInv'
<1> SUFFICES ASSUME NamedInv, [Next]_vars PROVE NamedInv'
  OBVIOUS
<1>1. TypeOK'
  BY NextType DEF NamedInv
<1>2. CASE UNCHANGED vars
  <2>1. UNCHANGED <<Names, files, beat, job, mail, located>>
    BY <1>2 DEF vars, history, Names
  <2>2. AllNamed'
    BY <2>1, ToldNamed, OthersNamed DEF AllNamed, Names
  <2>3. QED
    BY <1>1, <2>2 DEF NamedInv
<1>3. CASE Next
  <2>1. AllNamed'
    BY <1>3, SaveNamed, RemoveNamed, ServeNamed, AskNamed, ReceiveNamed,
       HeartbeatNamed, OutsideNamed DEF Next, Faults
  <2>2. QED
    BY <1>1, <2>1 DEF NamedInv
<1>4. QED
  BY <1>2, <1>3

LEMMA InitNamed == Init => NamedInv
BY InitType DEF Init, NamedInv, AllNamed, FilesNamed, BeatsNamed, LocatedNamed,
   MailNamed, JobsNamed

LEMMA AlwaysNamed == Spec => []NamedInv
BY InitNamed, NextNamed, PTL DEF Spec

-----------------------------------------------------------------------------
(* What the nodes keep is what ChunkStore promises. *)

\* Steps that leave the directories and the names alone are nothing to ChunkStore.
LEMMA KeptStays == ASSUME UNCHANGED <<meta, storing, deleting>>
                   PROVE  UNCHANGED Store!vars
BY DEF Store!vars, Kept

\* A metadata file of a chunk that was to be stored there.
LEMMA KeptStores ==
  ASSUME TypeOK, NEW n \in Node, NEW c \in Chunk, <<c, n>> \in storing,
         NEW x \in MetaFile \ {"none"}, meta' = [meta EXCEPT ![n][c] = x],
         UNCHANGED <<storing, deleting>>
  PROVE  Store!Store(c, n)
<1>1. ASSUME NEW k \in Node
      PROVE  Kept'[k] = IF k = n THEN Kept[k] \cup {c} ELSE Kept[k]
  <2>1. \A d \in Chunk : meta'[k][d] = IF k = n /\ d = c THEN x ELSE meta[k][d]
    BY DEF TypeOK
  <2>2. QED
    BY <2>1 DEF Kept
<1>2. Kept' = [Kept EXCEPT ![n] = @ \cup {c}]
  BY <1>1 DEF Kept
<1>3. QED
  BY <1>2 DEF Store!Store

\* And one of a chunk that was to be deleted there.
LEMMA KeptDeletes ==
  ASSUME TypeOK, NEW n \in Node, NEW c \in Chunk, <<c, n>> \in deleting,
         meta' = [meta EXCEPT ![n][c] = "none"], UNCHANGED <<storing, deleting>>
  PROVE  Store!Delete(c, n)
<1>1. ASSUME NEW k \in Node
      PROVE  Kept'[k] = IF k = n THEN Kept[k] \ {c} ELSE Kept[k]
  <2>1. \A d \in Chunk :
          meta'[k][d] = IF k = n /\ d = c THEN "none" ELSE meta[k][d]
    BY DEF TypeOK
  <2>2. QED
    BY <2>1 DEF Kept
<1>2. Kept' = [Kept EXCEPT ![n] = @ \ {c}]
  BY <1>1 DEF Kept
<1>3. QED
  BY <1>2 DEF Store!Delete

LEMMA SaveStores ==
  ASSUME NamedInv, NEW j \in Job, Save(j)
  PROVE  [Store!Next]_Store!vars
<1> USE DEF files, history, Local
<1>1. CASE CreateMeta(j) \/ WriteMeta(j)
  <2>1. job[j] # None /\ job[j].at \in KeepPc
    BY <1>1 DEF CreateMeta, WriteMeta, At, KeepPc, WritePc
  <2> DEFINE n == job[j].node
             c == job[j].msg.chunk
  <2>2. TypeOK /\ n \in Node /\ c \in Chunk /\ <<c, n>> \in storing
    BY <2>1, GoroutineType DEF NamedInv, AllNamed, JobsNamed, GoroutineNamed
  <2>3. UNCHANGED <<storing, deleting>>
    BY <1>1 DEF CreateMeta, WriteMeta
  <2>4. UNCHANGED meta
        \/ \E x \in MetaFile \ {"none"} : meta' = [meta EXCEPT ![n][c] = x]
    BY <1>1, LineWritten DEF CreateMeta, MetaFile
  <2>5. QED
    BY <2>2, <2>3, <2>4, KeptStores, KeptStays DEF Store!Next
<1>2. CASE CreateData(j) \/ Copy(j) \/ PassOn(j) \/ Count(j)
  BY <1>2, KeptStays DEF CreateData, Copy, PassOn, Count
<1>3. QED
  BY <1>1, <1>2 DEF Save

LEMMA RemoveDeletes ==
  ASSUME NamedInv, NEW j \in Job, Remove(j)
  PROVE  [Store!Next]_Store!vars
<1> USE DEF files, history, Local
<1>1. CASE RemoveMeta(j)
  <2>1. job[j] # None /\ job[j].at \in DeletePc
    BY <1>1 DEF RemoveMeta, At, DeletePc
  <2> DEFINE n == job[j].node
             c == job[j].msg.chunk
  <2>2. TypeOK /\ n \in Node /\ c \in Chunk /\ <<c, n>> \in deleting
    BY <2>1, GoroutineType DEF NamedInv, AllNamed, JobsNamed, GoroutineNamed
  <2>3. QED
    BY <1>1, <2>2, KeptDeletes DEF RemoveMeta, Store!Next
<1>2. CASE RemoveData(j) \/ RemoveFails(j) \/ PassDelete(j) \/ Uncount(j)
  BY <1>2, KeptStays DEF RemoveData, RemoveFails, Fatal, PassDelete, Uncount
<1>3. QED
  BY <1>1, <1>2 DEF Remove

\* Everything else that the nodes do, and what goes wrong, adds and loses none.
LEMMA OthersKeep ==
  ASSUME \/ \E j \in Job : \/ Serve(j) \/ Ask(j)
                           \/ \E m \in mail : Receive(j, m)
         \/ \E n \in Node : Heartbeat(n)
         \/ \E m \in mail : Lookup(m)
         \/ Faults
  PROVE  UNCHANGED Store!vars
<1> USE DEF files, history, Local
<1>1. ASSUME NEW j \in Job, Serve(j)
      PROVE  UNCHANGED Store!vars
  BY <1>1, KeptStays
  DEF Serve, Load, Validated, Corrupted, ValidateFails, Fatal, Reply, Send, Fetch,
      FetchFails
<1>2. ASSUME NEW j \in Job, Ask(j) \/ CopyCut(j) \/ AskFails(j) \/ DialFails(j)
      PROVE  UNCHANGED Store!vars
  BY <1>2, KeptStays DEF Ask, CopyCut, AskFails, DialFails
<1>3. ASSUME NEW j \in Job, NEW m \in mail, Receive(j, m)
      PROVE  UNCHANGED Store!vars
  BY <1>3, KeptStays DEF Receive
<1>4. ASSUME NEW n \in Node, Heartbeat(n)
      PROVE  UNCHANGED Store!vars
  BY <1>4, KeptStays DEF Heartbeat, BeatList, BeatSend, BeatRead, BeatFails
<1>5. ASSUME NEW m \in mail, Lookup(m)
      PROVE  UNCHANGED Store!vars
  BY <1>5, KeptStays DEF Lookup
<1>6. ASSUME NEW n \in Node, Kill(n) \/ Restart(n) \/ \E c \in Chunk : Damage(n, c)
      PROVE  UNCHANGED Store!vars
  BY <1>6, KeptStays DEF Kill, Restart, Damage
<1>7. QED
  BY <1>1, <1>2, <1>3, <1>4, <1>5, <1>6 DEF Faults

LEMMA RequestsTell ==
  ASSUME NamedInv, NEW c \in Chunk, Requests(c)
  PROVE  [Store!Next]_Store!vars
<1> USE DEF files, history
<1>1. ASSUME NEW S \in (SUBSET Node) \ {{}}, NEW s \in Orders(S), ClientWrite(c, s)
      PROVE  Store!Next
  <2>1. {c} \X Entries(s) \in SUBSET (Chunk \X Node)
    BY OrderIsList DEF Entries
  <2>2. Store!TellStore({c} \X Entries(s))
    BY <1>1 DEF ClientWrite, Store!TellStore, Kept
  <2>3. QED
    BY <2>1, <2>2 DEF Store!Next
<1>2. ASSUME NEW s \in Orders(located[c]), ControllerDelete(c, s)
      PROVE  Store!Next
  <2>1. located[c] \in SUBSET Node
    BY DEF NamedInv, TypeOK
  <2>2. {c} \X Entries(s) \in SUBSET (Chunk \X Node)
    BY <2>1, OrderIsList DEF Entries
  <2>3. Store!TellDelete({c} \X Entries(s))
    BY <1>2 DEF ControllerDelete, Store!TellDelete, Kept
  <2>4. QED
    BY <2>2, <2>3 DEF Store!Next
<1>3. ASSUME NEW n \in Node, NEW s \in Orders(located[c] \ {n}),
             ControllerOrder(c, n, s)
      PROVE  Store!Next
  <2>1. {<<c, n>>} \in SUBSET (Chunk \X Node)
    OBVIOUS
  <2>2. Store!TellStore({<<c, n>>})
    BY <1>3 DEF ControllerOrder, Store!TellStore, Kept
  <2>3. QED
    BY <2>1, <2>2 DEF Store!Next
<1>4. ASSUME NEW n \in Node, ClientRead(c, n)
      PROVE  UNCHANGED Store!vars
  BY <1>4, KeptStays DEF ClientRead
<1>5. QED
  BY <1>1, <1>2, <1>3, <1>4 DEF Requests

LEMMA NextStores == NamedInv /\ [Next]_vars => [Store!Next]_Store!vars
<1> SUFFICES ASSUME NamedInv, [Next]_vars PROVE [Store!Next]_Store!vars
  OBVIOUS
<1>1. CASE UNCHANGED vars
  BY <1>1, KeptStays DEF vars, files, history
<1>2. CASE Next
  BY <1>2, SaveStores, RemoveDeletes, RequestsTell, OthersKeep DEF Next
<1>3. QED
  BY <1>1, <1>2

LEMMA InitStores == Init => Store!Init
BY DEF Init, Store!Init, Kept

\* The storage nodes implement ChunkStore, however many connections they serve at
\* once, with processes ending, chunks damaged and repaired, and requests that
\* overlap: a chunk appears only on a node that an upload or an order named
\* (saveChunkInfoToDisk, storagenode.go:43-177), and leaves only a node that a
\* delete named (deleteChunkInfoFromDisk, storagenode.go:180-202).
THEOREM ChunkStoreImplemented == Spec => ImplementsChunkStore
BY AlwaysNamed, InitStores, NextStores, PTL DEF Spec, ImplementsChunkStore, Store!Spec

=============================================================================
