---------------------------- MODULE ClientProofs ----------------------------
(***************************************************************************)
(* Proofs about Client, for any files, sizes, folders and number of        *)
(* connections: what the goroutines of one command, which share variables  *)
(* without a lock, make of them while the next command waits.              *)
(***************************************************************************)
EXTENDS Client, FiniteSetTheorems, TLAPS

-----------------------------------------------------------------------------
(* The inductive invariant. *)

\* The message, or the goroutine, is all there is of a command.
SoleMail(m) == mail = {m} /\ \A j \in Job : job[j] = None
SoleJob(j)  == mail = {} /\ \A i \in Job : i # j => job[i] = None

\* A file is stored in order, and only under a name the controller has.
StoredOK(f) == /\ \E n \in 0 .. Chunks(f) : stored[f] = (0 .. n - 1) \X {f}
               /\ names[f] = None => stored[f] = {}

\* What the globals say of the file that m is about.
Uploading(m) == /\ file_path = [file |-> m.file, local |-> TRUE]
                /\ names[m.file] # None
Retrieving(m) == /\ file_path.file = m.file
                 /\ \A i \in m.have : <<i, m.file>> \in stored[m.file]
Reading(m) == file_path.file = m.file /\ meta = m.file

\* A chunk of the file that is read.
ChunkOK(m) == Reading(m) /\ m.data = m.file /\ m.i \in ChunksOf(m.file)

MailOK(m) ==
  /\ m.type = "write" => SoleMail(m) /\ Uploading(m) /\ stored[m.file] = {}
  /\ m.type = "read"  => SoleMail(m) /\ Retrieving(m)
  /\ m.type = "chunk" => ChunkOK(m)

UploadOK(j) ==
  LET g == job[j] f == job[j].msg.file
  IN /\ SoleJob(j) /\ Uploading(g.msg)
     /\ g.at = "open" => g.i = 0 /\ stored[f] = {}
     /\ g.at = "send" => /\ g.file = f
                         /\ g.i \in 0 .. Chunks(f)
                         /\ stored[f] = (0 .. g.i - 1) \X {f}

AskOK(j) == LET g == job[j]
            IN /\ Reading(g.msg)
               /\ \A i \in g.left : <<i, g.msg.file>> \in stored[g.msg.file]

JobOK(j) ==
  LET g == job[j]
  IN /\ g.at \in UploadPc => UploadOK(j)
     /\ g.at = "retrieve" => SoleJob(j) /\ Retrieving(g.msg)
     /\ g.at = "ask" => AskOK(j)
     /\ g.at \in SavePc \cup MergePc => ChunkOK(g.msg)
     /\ g.at \in SavePc \ {"create"} => g.folder = folder_name

\* A chunk is to be asked for, on its way, or not yet counted.
EarlyPc == SavePc \ {"test"}

Asking(j, i) == job[j] # None /\ job[j].at = "ask" /\ i \in job[j].left
Coming(m, i) == m \in mail /\ m.type = "chunk" /\ m.i = i
Saving(j, i) == job[j] # None /\ job[j].at \in EarlyPc /\ job[j].msg.i = i
Open(i) == \/ \E j \in Job : Asking(j, i) \/ Saving(j, i)
           \/ \E m \in mail : Coming(m, i)

\* It is only one of these, once.
Once(i) ==
  /\ \A j, k \in Job : ~(Asking(j, i) /\ Saving(k, i))
  /\ \A j \in Job : \A m \in mail : Coming(m, i) => ~Asking(j, i) /\ ~Saving(j, i)
  /\ \A j, k \in Job : Asking(j, i) /\ Asking(k, i) => j = k
  /\ \A j, k \in Job : Saving(j, i) /\ Saving(k, i) => j = k
  /\ \A m, o \in mail : Coming(m, i) /\ Coming(o, i) => m = o

\* The chunk's file is whole where mergeChunks is going to look for it.
There(i) == saved[<<folder_name, meta, i>>] = meta

Counted == {i \in ChunksOf(meta) : There(i) /\ ~Open(i)}

Merging(j) == job[j] # None /\ job[j].at \in MergePc

\* Before the first merge: no chunk is counted that is not there.
CountOK ==
  merges = 0 =>
    /\ \A j \in Job : job[j] # None =>
         /\ job[j].at \notin MergePc
         /\ job[j].at = "copy" => saved[<<folder_name, meta, job[j].msg.i>>] # None
         /\ job[j].at \in EarlyPc \ {"create", "copy"} => There(job[j].msg.i)
         /\ job[j].at \in SavePc \cup {"ask"} => chunksReceived <= Cardinality(Counted)
         /\ job[j].at = "addCount" => job[j].loaded <= Cardinality(Counted)
    /\ \A m \in mail : m.type = "chunk" => chunksReceived <= Cardinality(Counted)

\* The first merge finds the chunks it has yet to write.
MergeOK(j) ==
  LET g == job[j]
  IN /\ \A k \in Job : Merging(k) => k = j
     /\ g.at = "mergeCreate" => \A i \in ChunksOf(meta) : There(i)
     /\ g.at # "mergeCreate" => /\ g.folder = folder_name /\ g.file = meta
                                /\ merged[<<folder_name, meta>>] # None
                                /\ \A i \in ChunksOf(meta) : i >= g.i => There(i)

MergesOK ==
  /\ merges # 0 => \A i \in Index : ~Open(i)
  /\ merges = 1 => \A j \in Job : Merging(j) => MergeOK(j)
  /\ status = "missing" => merges > 1

Orderly == /\ \A f \in File : StoredOK(f)
           /\ \A m \in mail : MailOK(m)
           /\ \A j \in Job : job[j] # None => JobOK(j)
           /\ \A i \in Index : Once(i)
           /\ CountOK
           /\ MergesOK

ClientInv == TypeOK /\ (~crossed => Orderly)

-----------------------------------------------------------------------------
(* Sizes and indexes. *)

LEMMA NumberOfChunks ==
  ASSUME NEW f \in File
  PROVE  Chunks(f) \in Nat
<1>1. Size[f] \in Nat /\ ChunkSize \in Nat \ {0}
  BY ClientAssumption
<1>2. QED
  BY <1>1 DEF Chunks

LEMMA BytesType ==
  ASSUME NEW f \in File, NEW i \in Nat
  PROVE  Bytes(f, i) \in Nat
<1>1. Size[f] \in Nat /\ ChunkSize \in Nat
  BY ClientAssumption
<1>2. i * ChunkSize \in Nat
  BY <1>1
<1>3. QED
  BY <1>1, <1>2 DEF Bytes

LEMMA IndexType ==
  /\ Index \subseteq Nat /\ IsFiniteSet(Index)
  /\ \A f \in File : ChunksOf(f) \subseteq Index
<1>1. \A f \in File : ChunksOf(f) \subseteq Nat /\ IsFiniteSet(ChunksOf(f))
  BY NumberOfChunks, FS_Interval DEF ChunksOf
<1>2. IsFiniteSet({ChunksOf(f) : f \in File})
  <2> DEFINE T == {ChunksOf(f) : f \in File}
             F == [f \in File |-> ChunksOf(f)]
  <2>1. F \in Surjection(File, T)
    BY DEF Surjection
  <2>2. QED
    BY <2>1, ClientAssumption, FS_Surjection
<1>3. IsFiniteSet(UNION {ChunksOf(f) : f \in File})
  BY <1>1, <1>2, FS_UNION
<1>4. QED
  BY <1>1, <1>3 DEF Index

\* A file of n chunks has n indexes.
LEMMA HowMany ==
  ASSUME NEW f \in File
  PROVE  /\ IsFiniteSet(ChunksOf(f)) /\ Cardinality(ChunksOf(f)) = Chunks(f)
         /\ Chunks(f) <= Cardinality(Index)
<1>1. Chunks(f) \in Nat
  BY NumberOfChunks
<1>2. IsFiniteSet(ChunksOf(f)) /\ Cardinality(ChunksOf(f)) = Chunks(f)
  BY <1>1, FS_Interval DEF ChunksOf
<1>3. QED
  BY <1>2, IndexType, FS_Subset

\* So a loop counter that is an index can go one up.
LEMMA IndexNext ==
  ASSUME NEW i \in Index
  PROVE  i + 1 \in 0 .. Cardinality(Index)
<1>1. PICK f \in File : i \in ChunksOf(f)
  BY DEF Index
<1>2. i \in Nat /\ i + 1 <= Chunks(f)
  BY <1>1, NumberOfChunks DEF ChunksOf
<1>3. Cardinality(Index) \in Nat /\ Chunks(f) \in Nat
  BY IndexType, FS_CardinalityType, NumberOfChunks
<1>4. QED
  BY <1>2, <1>3, HowMany

-----------------------------------------------------------------------------
(* Types. *)

\* The goroutines' part of TypeOK.
JobsOK == /\ job \in [Job -> Goroutine \cup {None}]
          /\ \A j \in Job : job[j] # None => GoroutineOK(job[j])

\* What is known of any goroutine.
LEMMA JobFacts ==
  ASSUME TypeOK, NEW j \in Job, job[j] # None
  PROVE  /\ job[j] \in Goroutine /\ GoroutineOK(job[j]) /\ job[j].msg \in Message
         /\ job[j].msg.file \in File
BY DEF TypeOK, Goroutine, Message

\* What it serves at each step.
LEMMA MessageFacts ==
  ASSUME TypeOK, NEW j \in Job, job[j] # None
  PROVE  /\ job[j].at \in {"retrieve", "ask"} =>
              job[j].msg.folder \in Folder /\ job[j].msg.have \in SUBSET Index
         /\ job[j].at \in SavePc \cup MergePc =>
              /\ job[j].msg.type = "chunk"
              /\ job[j].msg.i \in Index /\ job[j].msg.data \in File
<1>1. job[j].at \in SavePc \cup MergePc =>
        job[j].at \notin UploadPc \cup {"retrieve", "ask"}
  BY DEF SavePc, MergePc, UploadPc
<1>2. QED
  BY <1>1, JobFacts DEF GoroutineOK, Message

\* One goroutine goes on, or returns.
LEMMA JobType ==
  ASSUME TypeOK, NEW j \in Job, NEW v, v # None => GoroutineOK(v),
         job' = [job EXCEPT ![j] = v]
  PROVE  JobsOK'
BY DEF TypeOK, JobsOK, GoroutineOK

LEMMA ReturnType ==
  ASSUME TypeOK, NEW j \in Job, Return(j)
  PROVE  JobsOK'
BY JobType DEF Return

\* It goes on at a later step of the same part of the code.
LEMMA GotoType ==
  ASSUME TypeOK, NEW j \in Job, job[j] # None, NEW l, Goto(j, l),
         \/ job[j].at \in SavePc \ {"create"} /\ l \in (SavePc \cup MergePc)
                                                       \ {"create", "mergeWrite"}
  PROVE  JobsOK'
<1> DEFINE v == [job[j] EXCEPT !.at = l]
<1>1. GoroutineOK(v)
  BY JobFacts DEF Goroutine, GoroutineOK, Pc, SavePc, MergePc, UploadPc
<1>2. job' = [job EXCEPT ![j] = v]
  BY DEF Goto
<1>3. QED
  BY <1>1, <1>2, JobType

LEMMA CommandType ==
  ASSUME TypeOK, Command
  PROVE  TypeOK'
<1> USE DEF disk, cluster, history, globals
<1>1. commands' \in Nat /\ crossed' \in BOOLEAN
  <2>1. commands' = commands + 1 /\ crossed' = (crossed \/ ~Idle)
    BY DEF Command, Write, Read, Delete, ListFolder, Typed
  <2>2. QED
    BY <2>1 DEF TypeOK
<1>2. ASSUME NEW f \in File, NEW folder \in Folder, Write(f, folder)
      PROVE  TypeOK'
  <2>1. \A m \in mail' : m \in Message
    BY <1>2 DEF Write, TypeOK, Message
  <2>2. names' \in [File -> Folder \cup {None}]
    BY <1>2 DEF Write, TypeOK
  <2>3. QED
    BY <1>1, <1>2, <2>1, <2>2 DEF Write, TypeOK
<1>3. ASSUME NEW f \in File, Read(f)
      PROVE  TypeOK'
  <2>1. \A m \in mail' : m \in Message
    BY <1>3, ClientAssumption DEF Read, TypeOK, Message
  <2>2. QED
    BY <1>1, <1>3, <2>1 DEF Read, TypeOK
<1>4. ASSUME NEW f \in File, Delete(f)
      PROVE  TypeOK'
  BY <1>1, <1>4 DEF Delete, TypeOK
<1>5. ASSUME NEW folder \in Folder, ListFolder(folder)
      PROVE  TypeOK'
  BY <1>1, <1>5 DEF ListFolder, TypeOK
<1>6. QED
  BY <1>2, <1>3, <1>4, <1>5 DEF Command

LEMMA ReceiveType ==
  ASSUME TypeOK, NEW j \in Job, NEW m \in mail, Receive(j, m)
  PROVE  TypeOK'
<1> USE DEF disk, cluster, history, globals
<1> DEFINE v == [at |-> First[m.type], msg |-> m, file |-> None, folder |-> None,
                 i |-> 0, left |-> {}, loaded |-> 0, data |-> None]
<1>1. m \in Message /\ Cardinality(Index) \in Nat
  BY IndexType, FS_CardinalityType DEF TypeOK
<1>2. m.type \in {"write", "read", "chunk"}
  BY <1>1 DEF Message
<1>3. /\ First[m.type] \in {"open", "retrieve", "create"}
      /\ First[m.type] = "open" <=> m.type = "write"
      /\ First[m.type] = "retrieve" <=> m.type = "read"
  BY <1>2 DEF First
<1>4. GoroutineOK(v)
  BY <1>1, <1>3 DEF GoroutineOK, Goroutine, Pc, UploadPc, SavePc, MergePc
<1>5. JobsOK'
  BY <1>4, JobType DEF Receive
<1>6. QED
  BY <1>5 DEF Receive, TypeOK, JobsOK

LEMMA UploadType ==
  ASSUME TypeOK, NEW j \in Job, Upload(j)
  PROVE  TypeOK'
<1> USE DEF disk, cluster, history, globals, OnlyJobs, SameDisk, SameGlobals
<1>1. job[j] # None /\ job[j].at \in UploadPc
  BY DEF Upload, UploadOpen, UploadOpenFails, UploadSend, UploadFails, UploadEnd,
     At, UploadPc
<1> DEFINE g == job[j]
<1>2. g \in Goroutine /\ GoroutineOK(g) /\ g.msg.file \in File
  BY <1>1, JobFacts
<1>3. CASE UploadOpen(j)
  <2> DEFINE v == [g EXCEPT !.at = "send", !.file = file_path.file]
  <2>1. file_path.file \in File
    BY <1>3 DEF UploadOpen, TypeOK
  <2>2. GoroutineOK(v)
    BY <1>2, <1>3, <2>1
    DEF UploadOpen, At, GoroutineOK, Goroutine, Pc, UploadPc, SavePc, MergePc
  <2>3. JobsOK'
    BY <1>3, <2>2, JobType DEF UploadOpen
  <2>4. QED
    BY <1>3, <2>3 DEF UploadOpen, TypeOK, JobsOK
<1>4. CASE UploadOpenFails(j)
  BY <1>4 DEF UploadOpenFails, End, TypeOK
<1>5. CASE UploadSend(j)
  <2>1. g.i \in ChunksOf(g.msg.file) /\ g.i \in Nat /\ g.file \in File
    BY <1>2, <1>5, IndexType, FS_CardinalityType, NumberOfChunks
    DEF UploadSend, At, MoreToSend, GoroutineOK, Goroutine, ChunksOf
  <2>2. g.i \in Index /\ g.i + 1 \in 0 .. Cardinality(Index)
    BY <1>2, <2>1, IndexType, IndexNext
  <2>3. JobsOK'
    <3> DEFINE v == [g EXCEPT !.i = g.i + 1]
    <3>1. GoroutineOK(v)
      BY <1>1, <1>2, <1>5, <2>2
      DEF GoroutineOK, Goroutine, UploadPc, UploadSend, At
    <3>2. Return(j) \/ job' = [job EXCEPT ![j] = v]
      BY <1>5 DEF UploadSend
    <3>3. QED
      BY <3>1, <3>2, JobType, ReturnType
  <2>4. stored' \in [File -> SUBSET (Index \X File)]
    BY <1>2, <1>5, <2>1, <2>2 DEF UploadSend, TypeOK
  <2>5. QED
    BY <1>5, <2>3, <2>4 DEF UploadSend, TypeOK, JobsOK
<1>6. CASE UploadFails(j) \/ UploadEnd(j)
  <2>1. JobsOK'
    BY <1>6, ReturnType DEF UploadFails, UploadEnd
  <2>2. QED
    BY <1>6, <2>1 DEF UploadFails, UploadEnd, Fault, TypeOK, JobsOK
<1>7. QED
  BY <1>3, <1>4, <1>5, <1>6 DEF Upload

LEMMA RetrieveType ==
  ASSUME TypeOK, NEW j \in Job, Retrieve(j)
  PROVE  TypeOK'
<1> USE DEF disk, cluster, history, globals, OnlyJobs, SameDisk, SameGlobals
<1>1. job[j] # None /\ job[j].at \in {"retrieve", "ask"}
  BY DEF Retrieve, RetrieveStart, Ask, AskFails, AskNoReplica, AskEnd, At
<1> DEFINE g == job[j]
<1>2. g \in Goroutine /\ GoroutineOK(g) /\ g.msg.file \in File
      /\ g.msg.folder \in Folder /\ g.msg.have \in SUBSET Index
  BY <1>1, JobFacts, MessageFacts
<1>3. CASE RetrieveStart(j)
  <2> DEFINE v == [g EXCEPT !.at = "ask", !.left = Located(g.msg)]
  <2>1. GoroutineOK(v)
    BY <1>1, <1>2
    DEF Located, GoroutineOK, Goroutine, Pc, UploadPc, SavePc, MergePc
  <2>2. JobsOK'
    BY <1>3, <2>1, JobType DEF RetrieveStart
  <2>3. QED
    BY <1>2, <1>3, <2>2 DEF RetrieveStart, TypeOK, JobsOK
<1>4. ASSUME NEW i \in Index, Ask(j, i)
      PROVE  TypeOK'
  <2> DEFINE v == [g EXCEPT !.left = @ \ {i}]
  <2>1. GoroutineOK(v)
    BY <1>2, <1>4 DEF GoroutineOK, Goroutine
  <2>2. JobsOK'
    BY <1>4, <2>1, JobType DEF Ask
  <2>3. PICK d \in File : mail' = mail \cup {[type |-> "chunk", file |-> g.msg.file,
                                              no |-> g.msg.no, i |-> i, data |-> d]}
    BY <1>4 DEF Ask
  <2>4. g.msg.no \in Nat
    BY <1>1, JobFacts DEF Message
  <2>5. \A m \in mail' : m \in Message
    BY <1>2, <2>3, <2>4 DEF TypeOK, Message
  <2>6. QED
    BY <1>4, <2>2, <2>5 DEF Ask, TypeOK, JobsOK
<1>5. CASE AskFails(j) \/ AskEnd(j)
  <2>1. JobsOK'
    BY <1>5, ReturnType DEF AskFails, AskEnd
  <2>2. QED
    BY <1>5, <2>1 DEF AskFails, AskEnd, Fault, TypeOK, JobsOK
<1>6. CASE AskNoReplica(j)
  BY <1>6 DEF AskNoReplica, End, TypeOK
<1>7. QED
  BY <1>3, <1>4, <1>5, <1>6 DEF Retrieve

LEMMA SaveType ==
  ASSUME TypeOK, NEW j \in Job, Save(j)
  PROVE  TypeOK'
<1> USE DEF disk, cluster, history, globals, OnlyJobs, SameDisk, SameGlobals
<1>1. job[j] # None /\ job[j].at \in SavePc
  BY DEF Save, SaveCreate, SaveCopy, SaveCut, LoadBytes, AddBytes, LoadCount,
     AddCount, Test, At, SavePc
<1> DEFINE g == job[j]
<1>2. g \in Goroutine /\ GoroutineOK(g) /\ g.msg.file \in File /\ g.loaded \in Nat
      /\ g.msg.i \in Index /\ g.msg.i \in Nat /\ g.msg.data \in File
  BY <1>1, JobFacts, MessageFacts, IndexType DEF Goroutine
<1>3. CASE SaveCreate(j)
  <2> DEFINE v == [g EXCEPT !.at = "copy", !.folder = folder_name]
  <2>1. GoroutineOK(v)
    BY <1>1, <1>2
    DEF TypeOK, GoroutineOK, Goroutine, Pc, UploadPc, SavePc, MergePc
  <2>2. JobsOK'
    BY <1>3, <2>1, JobType DEF SaveCreate
  <2>3. saved' \in [Folder \X File \X Index -> Data \cup {None}]
    BY <1>3 DEF SaveCreate, TypeOK, Data
  <2>4. QED
    BY <1>3, <2>2, <2>3 DEF SaveCreate, TypeOK, JobsOK
<1>4. CASE SaveCopy(j)
  <2>1. JobsOK'
    BY <1>1, <1>4, GotoType DEF SaveCopy, At, SavePc
  <2>2. saved' \in [Folder \X File \X Index -> Data \cup {None}]
    BY <1>2, <1>4 DEF SaveCopy, TypeOK, Data
  <2>3. QED
    BY <1>4, <2>1, <2>2 DEF SaveCopy, TypeOK, JobsOK
<1>5. CASE SaveCut(j)
  BY <1>5 DEF SaveCut, End, TypeOK
<1>6. ASSUME NEW value \in Nat, NEW next \in {"addBytes", "addCount"},
             g.at \in {"loadBytes", "loadCount"}, Load(j, value, next)
      PROVE  TypeOK'
  <2> DEFINE v == [g EXCEPT !.at = next, !.loaded = value]
  <2>1. GoroutineOK(v)
    BY <1>2, <1>6 DEF GoroutineOK, Goroutine, Pc, UploadPc, SavePc, MergePc
  <2>2. JobsOK'
    BY <1>6, <2>1, JobType DEF Load
  <2>3. QED
    BY <1>6, <2>2 DEF Load, TypeOK, JobsOK
<1>7. CASE LoadBytes(j) \/ LoadCount(j)
  BY <1>6, <1>7 DEF LoadBytes, LoadCount, At, TypeOK
<1>8. CASE AddBytes(j)
  <2>1. JobsOK'
    BY <1>1, <1>8, GotoType DEF AddBytes, At, SavePc
  <2>2. receivedBytes' \in Nat
    <3>1. Bytes(g.msg.data, g.msg.i) \in Nat
      BY <1>2, BytesType
    <3>2. QED
      BY <1>2, <1>8, <3>1 DEF AddBytes
  <2>3. faults' \subseteq {"down", "silent", "race"}
    BY <1>8 DEF AddBytes, Raced, Fault, TypeOK
  <2>4. QED
    BY <1>8, <2>1, <2>2, <2>3 DEF AddBytes, TypeOK, JobsOK
<1>9. CASE AddCount(j)
  <2>1. JobsOK'
    BY <1>1, <1>9, GotoType DEF AddCount, At, SavePc
  <2>2. chunksReceived' \in Nat
    BY <1>2, <1>9 DEF AddCount
  <2>3. faults' \subseteq {"down", "silent", "race"}
    BY <1>9 DEF AddCount, Raced, Fault, TypeOK
  <2>4. QED
    BY <1>9, <2>1, <2>2, <2>3 DEF AddCount, TypeOK, JobsOK
<1>10. CASE Test(j)
  <2>1. JobsOK'
    BY <1>1, <1>10, GotoType, ReturnType DEF Test, At, SavePc, MergePc
  <2>2. merges' \in Nat
    BY <1>10 DEF Test, TypeOK
  <2>3. QED
    BY <1>10, <2>1, <2>2 DEF Test, TypeOK, JobsOK
<1>11. QED
  BY <1>3, <1>4, <1>5, <1>7, <1>8, <1>9, <1>10 DEF Save

LEMMA MergeType ==
  ASSUME TypeOK, NEW j \in Job, Merge(j)
  PROVE  TypeOK'
<1> USE DEF disk, cluster, history, globals, OnlyJobs, SameDisk, SameGlobals
<1>1. job[j] # None /\ job[j].at \in MergePc
  BY DEF Merge, MergeCreate, MergeOpen, MergeWrite, MergeEnd, MergeFails, At, MergePc
<1> DEFINE g == job[j]
<1>2. g \in Goroutine /\ GoroutineOK(g)
  BY <1>1, JobFacts
<1>3. CASE MergeCreate(j)
  <2> DEFINE v == [g EXCEPT !.at = "mergeOpen", !.folder = folder_name,
                            !.file = file_path.file]
  <2>1. GoroutineOK(v)
    BY <1>1, <1>2 DEF TypeOK, GoroutineOK, Goroutine, Pc, UploadPc, SavePc, MergePc
  <2>2. job' = [job EXCEPT ![j] = v]
    BY <1>3 DEF MergeCreate
  <2> HIDE DEF v
  <2>3. JobsOK'
    BY <2>1, <2>2, JobType
  <2>4. merged' \in [Folder \X File -> {None} \cup SUBSET (Index \X Data)]
    BY <1>3 DEF MergeCreate, TypeOK
  <2>5. QED
    BY <1>3, <2>3, <2>4 DEF MergeCreate, TypeOK, JobsOK
<1>4. CASE MergeOpen(j)
  <2> DEFINE v == [g EXCEPT !.at = "mergeWrite", !.data = saved[NextChunk(j)]]
  <2>1. NextChunk(j) \in Folder \X File \X Index /\ saved[NextChunk(j)] \in Data
    BY <1>4 DEF MergeOpen, TypeOK
  <2>2. g.i \in Index
    BY <2>1 DEF NextChunk
  <2>3. GoroutineOK(v)
    BY <1>1, <1>2, <2>1, <2>2
    DEF GoroutineOK, Goroutine, Pc, UploadPc, SavePc, MergePc
  <2>4. JobsOK'
    BY <1>4, <2>3, JobType DEF MergeOpen
  <2>5. QED
    BY <1>4, <2>4 DEF MergeOpen, TypeOK, JobsOK
<1>5. CASE MergeWrite(j)
  <2> DEFINE v == [g EXCEPT !.at = "mergeOpen", !.i = g.i + 1]
  <2>1. g.i \in Index /\ g.data \in Data /\ g.i + 1 \in 0 .. Cardinality(Index)
    BY <1>2, <1>5, IndexNext DEF MergeWrite, At, GoroutineOK
  <2>2. GoroutineOK(v)
    BY <1>1, <1>2, <2>1 DEF GoroutineOK, Goroutine, Pc, UploadPc, SavePc, MergePc
  <2>3. JobsOK'
    BY <1>5, <2>2, JobType DEF MergeWrite
  <2>4. merged' \in [Folder \X File -> {None} \cup SUBSET (Index \X Data)]
    <3> DEFINE x == <<g.folder, g.file>>
    <3>1. ASSUME x \in Folder \X File, merged[x] # None
          PROVE  merged[x] \cup {<<g.i, g.data>>} \in SUBSET (Index \X Data)
      <4>1. merged[x] \in {None} \cup SUBSET (Index \X Data)
        BY <3>1 DEF TypeOK
      <4>2. QED
        BY <2>1, <3>1, <4>1
    <3>2. merged' = merged
          \/ (merged[x] # None
              /\ merged' = [merged EXCEPT ![x] = merged[x] \cup {<<g.i, g.data>>}])
      BY <1>5 DEF MergeWrite
    <3> HIDE DEF x
    <3>3. QED
      BY <3>1, <3>2 DEF TypeOK
  <2>5. saved' \in [Folder \X File \X Index -> Data \cup {None}]
    BY <1>5 DEF MergeWrite, TypeOK
  <2>6. QED
    BY <1>5, <2>3, <2>4, <2>5 DEF MergeWrite, TypeOK, JobsOK
<1>6. CASE MergeEnd(j)
  <2>1. JobsOK'
    BY <1>6, ReturnType DEF MergeEnd
  <2>2. merged' \in [Folder \X File -> {None} \cup SUBSET (Index \X Data)]
    BY <1>6 DEF MergeEnd, TypeOK
  <2>3. QED
    BY <1>6, <2>1, <2>2 DEF MergeEnd, TypeOK, JobsOK
<1>7. CASE MergeFails(j)
  BY <1>7 DEF MergeFails, End, TypeOK
<1>8. QED
  BY <1>3, <1>4, <1>5, <1>6, <1>7 DEF Merge

LEMMA LoseType ==
  ASSUME TypeOK, NEW m \in mail, Lose(m)
  PROVE  TypeOK'
BY DEF Lose, Fault, TypeOK, globals, disk, cluster

LEMMA NextType == TypeOK /\ [Next]_vars => TypeOK'
<1> SUFFICES ASSUME TypeOK, [Next]_vars PROVE TypeOK'
  OBVIOUS
<1>1. CASE UNCHANGED vars
  BY <1>1 DEF vars, globals, disk, cluster, history, TypeOK
<1>2. CASE Next
  BY <1>2, CommandType, ReceiveType, UploadType, RetrieveType, SaveType, MergeType,
     LoseType DEF Next, Serve
<1>3. QED
  BY <1>1, <1>2

LEMMA InitType == Init => TypeOK
<1> SUFFICES ASSUME Init PROVE TypeOK
  OBVIOUS
<1>1. /\ file_path \in [file : File \cup {None}, local : BOOLEAN]
      /\ file_path.local => file_path.file \in File
  BY DEF Init
<1>2. job \in [Job -> Goroutine \cup {None}] /\ \A j \in Job : job[j] = None
  BY DEF Init
<1>3. /\ saved \in [Folder \X File \X Index -> Data \cup {None}]
      /\ merged \in [Folder \X File -> {None} \cup SUBSET (Index \X Data)]
  BY DEF Init
<1>4. /\ names \in [File -> Folder \cup {None}]
      /\ stored \in [File -> SUBSET (Index \X File)]
  BY DEF Init
<1>5. QED
  BY <1>1, <1>2, <1>3, <1>4, ClientAssumption DEF Init, TypeOK

\* The client's variables keep their types, whatever command is typed while others
\* are carried out: a goroutine that goes on has at hand what its next step uses
\* (client.go:128-418).
THEOREM TypeCorrect == Spec => []TypeOK
BY InitType, NextType, PTL DEF Spec

-----------------------------------------------------------------------------
(* One command at a time. *)

Shared == <<file_path, folder_name, meta, names, stored>>

\* No chunk of a file is on its way or being saved or merged.
Calm == /\ \A j \in Job : job[j] # None => job[j].at \in UploadPc \cup {"retrieve"}
        /\ \A m \in mail : m.type # "chunk"
        /\ status # "missing"

LEMMA CalmOK ==
  ASSUME Calm'
  PROVE  (\A i \in Index : Once(i)') /\ CountOK' /\ MergesOK'
<1>1. \A j \in Job : job'[j] # None => job'[j].at \notin SavePc \cup MergePc \cup {"ask"}
  BY DEF Calm, UploadPc, SavePc, MergePc
<1>2. ASSUME NEW i
      PROVE  /\ \A j \in Job : ~Asking(j, i)' /\ ~Saving(j, i)'
             /\ \A m \in mail' : ~Coming(m, i)'
  BY <1>1 DEF Calm, Asking, Saving, Coming, EarlyPc
<1>3. \A i : ~Open(i)' /\ Once(i)'
  BY <1>2 DEF Open, Once
<1>4. CountOK'
  <2>1. ASSUME NEW j \in Job, job'[j] # None
        PROVE  /\ job'[j].at \notin MergePc /\ job'[j].at # "copy"
               /\ job'[j].at \notin EarlyPc \ {"create", "copy"}
               /\ job'[j].at \notin SavePc \cup {"ask"} /\ job'[j].at # "addCount"
    BY <1>1, <2>1 DEF SavePc, EarlyPc
  <2>2. \A m \in mail' : m.type # "chunk"
    BY DEF Calm
  <2>3. QED
    BY <2>1, <2>2 DEF CountOK
<1>5. MergesOK'
  BY <1>1, <1>3 DEF MergesOK, Merging, Calm
<1>6. QED
  BY <1>3, <1>4, <1>5

\* While a file is read, nothing else is done.
InRead == /\ \A m \in mail : m.type = "chunk"
          /\ \A j \in Job : job[j] # None => job[j].at \in SavePc \cup MergePc \cup {"ask"}

LEMMA ReadPhase ==
  ASSUME TypeOK, Orderly,
         \/ \E j \in Job : job[j] # None /\ job[j].at \in SavePc \cup MergePc \cup {"ask"}
         \/ \E m \in mail : m.type = "chunk"
  PROVE  InRead
<1>1. \A m \in mail : m.type \in {"write", "read", "chunk"}
  BY DEF TypeOK, Message
<1>2. \A j \in Job : job[j] # None =>
        job[j].at \in UploadPc \cup {"retrieve"} \cup SavePc \cup MergePc \cup {"ask"}
  BY JobFacts DEF Goroutine, Pc
<1>3. {"retrieve"} \cap (SavePc \cup MergePc \cup {"ask"}) = {}
      /\ UploadPc \cap (SavePc \cup MergePc \cup {"ask"}) = {}
  BY DEF UploadPc, SavePc, MergePc
<1>4. ASSUME NEW m \in mail, m.type # "chunk"
      PROVE  FALSE
  <2>1. SoleMail(m)
    BY <1>1, <1>4 DEF Orderly, MailOK
  <2>2. QED
    BY <1>4, <2>1 DEF SoleMail
<1>5. ASSUME NEW j \in Job, job[j] # None,
             job[j].at \notin SavePc \cup MergePc \cup {"ask"}
      PROVE  FALSE
  <2>1. job[j].at \in UploadPc \/ job[j].at = "retrieve"
    BY <1>2, <1>5
  <2>2. SoleJob(j)
    BY <1>5, <2>1 DEF Orderly, JobOK, UploadOK
  <2>3. QED
    BY <1>3, <1>5, <2>2 DEF SoleJob
<1>6. QED
  BY <1>4, <1>5 DEF InRead

\* What is stored of a file is stored in order: its chunks, with its data.
LEMMA StoredChunk ==
  ASSUME Orderly, NEW f \in File, NEW i, NEW d, <<i, d>> \in stored[f]
  PROVE  d = f /\ i \in ChunksOf(f)
<1>1. PICK n \in 0 .. Chunks(f) : stored[f] = (0 .. n - 1) \X {f}
  BY DEF Orderly, StoredOK
<1>2. i \in 0 .. n - 1 /\ d = f
  BY <1>1
<1>3. QED
  BY <1>2, NumberOfChunks DEF ChunksOf

LEMMA CommandKeeps ==
  ASSUME TypeOK, Orderly, Command, ~crossed'
  PROVE  Orderly'
<1> USE DEF disk, cluster, history, globals
<1>1. Typed /\ UNCHANGED <<status, job>>
  BY DEF Command, Write, Read, Delete, ListFolder
<1>2. Idle /\ status # "missing"
  BY <1>1 DEF Typed, Up
<1>3. mail = {} /\ \A j \in Job : job[j] = None /\ job'[j] = None
  BY <1>1, <1>2 DEF Idle
<1>4. ASSUME \A f \in File : StoredOK(f)', \A m \in mail' : MailOK(m)',
             \A m \in mail' : m.type # "chunk"
      PROVE  Orderly'
  <2>1. Calm'
    BY <1>1, <1>2, <1>3, <1>4 DEF Calm
  <2>2. QED
    BY <1>3, <1>4, <2>1, CalmOK DEF Orderly
<1>5. ASSUME NEW f \in File, NEW folder \in Folder, Write(f, folder)
      PROVE  Orderly'
  <2>1. stored' = stored /\ file_path' = [file |-> f, local |-> TRUE]
    BY <1>5 DEF Write
  <2>2. CASE names[f] = None
    <3>1. PICK m : m = [type |-> "write", file |-> f, no |-> commands]
      OBVIOUS
    <3>2. /\ mail' = {m} /\ names' = [names EXCEPT ![f] = folder]
          /\ m.type = "write" /\ m.file = f
      BY <1>3, <1>5, <2>2, <3>1 DEF Write
    <3>3. names'[f] # None
      BY <3>2, ClientAssumption DEF TypeOK
    <3>4. stored'[f] = {}
      BY <2>1, <2>2 DEF Orderly, StoredOK
    <3>5. \A h \in File : StoredOK(h)'
      BY <2>1, <3>2, <3>3 DEF Orderly, StoredOK, TypeOK
    <3>6. MailOK(m)'
      BY <1>3, <2>1, <3>2, <3>3, <3>4 DEF MailOK, SoleMail, Uploading
    <3>7. QED
      BY <1>4, <3>2, <3>5, <3>6
  <2>3. CASE names[f] # None
    <3>1. UNCHANGED <<names, mail>>
      BY <1>5, <2>3 DEF Write
    <3>2. QED
      BY <1>3, <1>4, <2>1, <3>1 DEF Orderly, StoredOK
  <2>4. QED
    BY <2>2, <2>3
<1>6. ASSUME NEW f \in File, Read(f)
      PROVE  Orderly'
  <2>1. UNCHANGED <<names, stored>> /\ file_path'.file = f
    BY <1>6 DEF Read
  <2>2. \A h \in File : StoredOK(h)'
    BY <2>1 DEF Orderly, StoredOK
  <2>3. PICK C \in SUBSET {i \in Index : \E g \in File : <<i, g>> \in stored[f]} :
          mail' = IF names[f] = None THEN mail
                  ELSE mail \cup {[type |-> "read", file |-> f, no |-> commands,
                                   folder |-> names[f], have |-> C]}
    BY <1>6 DEF Read
  <2>4. PICK m : m = [type |-> "read", file |-> f, no |-> commands,
                      folder |-> names[f], have |-> C]
    OBVIOUS
  <2>5. /\ mail' = {} \/ mail' = {m}
        /\ m.type = "read" /\ m.file = f /\ m.have = C
    BY <1>3, <2>3, <2>4
  <2>6. \A i \in C : <<i, f>> \in stored'[f]
    BY <2>1, StoredChunk
  <2>7. mail' = {m} => MailOK(m)'
    BY <1>3, <2>1, <2>5, <2>6 DEF MailOK, SoleMail, Retrieving
  <2>8. QED
    BY <1>4, <2>2, <2>5, <2>7
<1>7. ASSUME NEW f \in File, Delete(f)
      PROVE  Orderly'
  <2>1. /\ names' = [names EXCEPT ![f] = None] /\ stored' = [stored EXCEPT ![f] = {}]
        /\ mail' = mail
    BY <1>7 DEF Delete
  <2>2. ASSUME NEW h \in File
        PROVE  StoredOK(h)'
    <3>1. CASE h = f
      <4>1. stored'[h] = (0 .. 0 - 1) \X {h}
        BY <2>1, <3>1 DEF TypeOK
      <4>2. 0 \in 0 .. Chunks(h)
        BY NumberOfChunks
      <4>3. QED
        BY <2>1, <3>1, <4>1, <4>2 DEF StoredOK, TypeOK
    <3>2. CASE h # f
      BY <2>1, <3>2 DEF Orderly, StoredOK, TypeOK
    <3>3. QED
      BY <3>1, <3>2
  <2>3. QED
    BY <1>3, <1>4, <2>1, <2>2
<1>8. ASSUME NEW folder \in Folder, ListFolder(folder)
      PROVE  Orderly'
  <2>1. UNCHANGED <<names, stored, mail>>
    BY <1>8 DEF ListFolder
  <2>2. QED
    BY <1>3, <1>4, <2>1 DEF Orderly, StoredOK
<1>9. QED
  BY <1>5, <1>6, <1>7, <1>8 DEF Command

\* Uploading: the goroutine is all there is.
LEMMA UploadKeeps ==
  ASSUME TypeOK, Orderly, NEW j \in Job, Upload(j)
  PROVE  Orderly'
<1> USE DEF disk, cluster, history, globals, OnlyJobs, SameDisk, SameGlobals
<1>1. job[j] # None /\ job[j].at \in UploadPc /\ Up
  BY DEF Upload, UploadOpen, UploadOpenFails, UploadSend, UploadFails, UploadEnd,
     At, UploadPc
<1> DEFINE g == job[j]
           f == g.msg.file
<1>2. g \in Goroutine /\ GoroutineOK(g) /\ f \in File
  BY <1>1, JobFacts
<1>3. UploadOK(j) /\ mail = {} /\ \A i \in Job : i # j => job[i] = None
  BY <1>1 DEF Orderly, JobOK, UploadOK, SoleJob
<1>4. UNCHANGED <<file_path, names, mail>>
  BY DEF Upload, UploadOpen, UploadOpenFails, UploadSend, UploadFails, UploadEnd
<1>5. ASSUME NEW v, job' = [job EXCEPT ![j] = v], status' = status,
             \A h \in File : StoredOK(h)',
             v # None => /\ v.at = "send" /\ v.msg = g.msg /\ v.file = f
                         /\ v.i \in 0 .. Chunks(f)
                         /\ stored'[f] = (0 .. v.i - 1) \X {f}
      PROVE  Orderly'
  <2>1. job'[j] = v /\ \A i \in Job : i # j => job'[i] = None
    BY <1>3, <1>5 DEF TypeOK
  <2>2. SoleJob(j)' /\ mail' = {}
    BY <1>3, <1>4, <2>1 DEF SoleJob
  <2>3. "send" \in UploadPc /\ "send" \notin SavePc \cup MergePc
    BY DEF UploadPc, SavePc, MergePc
  <2>4. job'[j] # None => JobOK(j)'
    BY <1>3, <1>4, <1>5, <2>1, <2>2, <2>3 DEF JobOK, UploadOK, Uploading
  <2>5. Calm'
    BY <1>1, <1>5, <2>1, <2>2, <2>3 DEF Calm, Up
  <2>6. QED
    BY <1>5, <2>1, <2>2, <2>4, <2>5, CalmOK DEF Orderly
<1>6. stored' = stored => \A h \in File : StoredOK(h)'
  BY <1>4 DEF Orderly, StoredOK
<1>7. CASE UploadOpen(j)
  <2> DEFINE v == [g EXCEPT !.at = "send", !.file = file_path.file]
  <2>1. job' = [job EXCEPT ![j] = v] /\ stored' = stored /\ status' = status
    BY <1>7 DEF UploadOpen
  <2>2. g.at = "open"
    BY <1>7 DEF UploadOpen, At
  <2>3. v.at = "send" /\ v.msg = g.msg /\ v.file = f /\ v.i = 0
    BY <1>2, <1>3, <2>2 DEF Goroutine, UploadOK, Uploading
  <2>4. stored'[f] = (0 .. v.i - 1) \X {f} /\ v.i \in 0 .. Chunks(f)
    BY <1>2, <1>3, <2>1, <2>2, <2>3, NumberOfChunks DEF UploadOK
  <2> HIDE DEF v
  <2>5. QED
    BY <1>5, <1>6, <2>1, <2>3, <2>4
<1>8. CASE UploadOpenFails(j)
  BY <1>3, <1>8 DEF UploadOpenFails, UploadOK, Uploading
<1>9. CASE UploadSend(j)
  <2> DEFINE i == g.i
  <2>1. g.at = "send" /\ g.file = f /\ i \in Nat /\ i < Chunks(f)
        /\ stored[f] = (0 .. i - 1) \X {f} /\ Chunks(f) \in Nat
    BY <1>2, <1>3, <1>9, NumberOfChunks DEF UploadSend, At, UploadOK, MoreToSend
  <2>2. stored' = [stored EXCEPT ![f] = @ \cup {<<i, f>>}] /\ status' = status
    BY <1>9, <2>1 DEF UploadSend
  <2>3. stored'[f] = (0 .. i) \X {f}
    <3>1. stored'[f] = stored[f] \cup {<<i, f>>}
      BY <1>2, <2>2 DEF TypeOK
    <3>2. 0 .. i = (0 .. i - 1) \cup {i}
      BY <2>1
    <3>3. QED
      BY <2>1, <3>1, <3>2
  <2>4. names'[f] # None
    BY <1>3, <1>4 DEF UploadOK, Uploading
  <2>5. ASSUME NEW h \in File
        PROVE  StoredOK(h)'
    <3>1. CASE h = f
      <4>1. i + 1 \in 0 .. Chunks(f) /\ (i + 1) - 1 = i
        BY <2>1
      <4>2. QED
        BY <2>3, <2>4, <3>1, <4>1 DEF StoredOK
    <3>2. CASE h # f
      BY <1>2, <1>4, <2>2, <3>2 DEF Orderly, StoredOK, TypeOK
    <3>3. QED
      BY <3>1, <3>2
  <2> DEFINE v == [g EXCEPT !.i = i + 1]
  <2>6. v.at = "send" /\ v.msg = g.msg /\ v.file = f /\ v.i = i + 1
    BY <1>2, <2>1 DEF Goroutine
  <2>7. Return(j) \/ job' = [job EXCEPT ![j] = v]
    BY <1>9 DEF UploadSend
  <2> HIDE DEF v
  <2>8. v.i \in 0 .. Chunks(f) /\ stored'[f] = (0 .. v.i - 1) \X {f}
    BY <2>1, <2>3, <2>6
  <2>9. QED
    BY <1>5, <2>2, <2>5, <2>6, <2>7, <2>8 DEF Return
<1>10. CASE UploadFails(j) \/ UploadEnd(j)
  BY <1>5, <1>6, <1>10 DEF UploadFails, UploadEnd, Return
<1>11. QED
  BY <1>7, <1>8, <1>9, <1>10 DEF Upload

-----------------------------------------------------------------------------
(* While a file is read: what a step of one goroutine leaves as it was. *)

LEMMA OthersOK ==
  ASSUME TypeOK, Orderly, InRead, UNCHANGED Shared,
         NEW j, \A k \in Job : k # j => job'[k] = job[k]
  PROVE  /\ \A f \in File : StoredOK(f)'
         /\ \A m \in mail : MailOK(m)'
         /\ \A k \in Job : k # j /\ job'[k] # None => JobOK(k)'
<1>1. \A f \in File : StoredOK(f)'
  BY DEF Orderly, StoredOK, Shared
<1>2. ASSUME NEW m \in mail
      PROVE  MailOK(m)'
  <2>1. m.type = "chunk" /\ ChunkOK(m)
    BY <1>2 DEF InRead, Orderly, MailOK
  <2>2. m.type # "write" /\ m.type # "read"
    BY <2>1
  <2>3. QED
    BY <2>1, <2>2 DEF MailOK, ChunkOK, Reading, Shared
<1>3. ASSUME NEW k \in Job, k # j, job'[k] # None
      PROVE  JobOK(k)'
  <2>1. job'[k] = job[k] /\ JobOK(k) /\ job[k].at \in SavePc \cup MergePc \cup {"ask"}
    BY <1>3 DEF InRead, Orderly
  <2>2. job[k].at \notin UploadPc /\ job[k].at # "retrieve"
    BY <2>1 DEF UploadPc, SavePc, MergePc
  <2>3. job[k].at = "ask" => AskOK(k)'
    BY <2>1 DEF JobOK, AskOK, Reading, Shared
  <2>4. job[k].at \in SavePc \cup MergePc => ChunkOK(job[k].msg)'
    BY <2>1 DEF JobOK, ChunkOK, Reading, Shared
  <2>5. job[k].at \in SavePc \ {"create"} => job'[k].folder = folder_name'
    BY <2>1 DEF JobOK, Shared
  <2>6. QED
    BY <2>1, <2>2, <2>3, <2>4, <2>5 DEF JobOK
<1>4. QED
  BY <1>1, <1>2, <1>3

\* No chunk is asked for, comes or is saved anew.
Fewer(i) == /\ \A k \in Job : /\ Asking(k, i)' => Asking(k, i)
                              /\ Saving(k, i)' => Saving(k, i)
            /\ mail' \subseteq mail

LEMMA FewerOnce ==
  ASSUME NEW i, Fewer(i), Once(i)
  PROVE  Once(i)' /\ (Open(i)' => Open(i))
<1>1. \A m : Coming(m, i)' => Coming(m, i)
  BY DEF Fewer, Coming
<1>2. \A m \in mail' : m \in mail
  BY DEF Fewer
<1>3. /\ \A k \in Job : Asking(k, i)' => Asking(k, i)
      /\ \A k \in Job : Saving(k, i)' => Saving(k, i)
  BY DEF Fewer
<1>4. Open(i)' => Open(i)
  BY <1>1, <1>2, <1>3 DEF Open
<1>5. Once(i)'
  BY <1>1, <1>2, <1>3 DEF Once
<1>6. QED
  BY <1>4, <1>5

\* The step of j does not make it ask for, or save, another chunk.
LEMMA JobFewer ==
  ASSUME TypeOK, NEW i, NEW j \in Job, job[j] # None,
         \A k \in Job : k # j => job'[k] = job[k], mail' \subseteq mail,
         job'[j] # None =>
           /\ job'[j].at = "ask" => job[j].at = "ask" /\ job'[j].left \subseteq job[j].left
           /\ job'[j].at \in EarlyPc => job[j].at \in EarlyPc /\ job'[j].msg = job[j].msg
  PROVE  Fewer(i)
<1>1. ASSUME NEW k \in Job
      PROVE  (Asking(k, i)' => Asking(k, i)) /\ (Saving(k, i)' => Saving(k, i))
  <2>1. CASE k = j
    BY <2>1 DEF Asking, Saving
  <2>2. CASE k # j
    BY <2>2 DEF Asking, Saving
  <2>3. QED
    BY <2>1, <2>2
<1>2. QED
  BY <1>1 DEF Fewer

\* The chunks on their way are chunks of the file that is read.
LEMMA OpenInFile ==
  ASSUME TypeOK, Orderly, InRead, NEW i, Open(i)
  PROVE  meta \in File /\ i \in ChunksOf(meta)
<1>1. ASSUME NEW j \in Job, Asking(j, i)
      PROVE  meta \in File /\ i \in ChunksOf(meta)
  <2>1. AskOK(j) /\ job[j].msg.file \in File
    BY <1>1, JobFacts DEF Asking, Orderly, JobOK
  <2>2. <<i, meta>> \in stored[meta] /\ meta \in File
    BY <1>1, <2>1 DEF AskOK, Reading, Asking
  <2>3. QED
    BY <2>2, StoredChunk
<1>2. ASSUME NEW j \in Job, Saving(j, i)
      PROVE  meta \in File /\ i \in ChunksOf(meta)
  <2>1. ChunkOK(job[j].msg) /\ job[j].msg.file \in File
    BY <1>2, JobFacts DEF Saving, Orderly, JobOK, EarlyPc
  <2>2. QED
    BY <1>2, <2>1 DEF ChunkOK, Reading, Saving
<1>3. ASSUME NEW m \in mail, Coming(m, i)
      PROVE  meta \in File /\ i \in ChunksOf(meta)
  <2>1. ChunkOK(m) /\ m.file \in File
    BY <1>3 DEF Coming, Orderly, MailOK, TypeOK, Message
  <2>2. QED
    BY <1>3, <2>1 DEF ChunkOK, Reading, Coming
<1>4. QED
  BY <1>1, <1>2, <1>3 DEF Open

-----------------------------------------------------------------------------
(* The counters before the first merge, and what the first merge finds. *)

LEMMA CountedSize ==
  ASSUME meta \in File
  PROVE  /\ IsFiniteSet(Counted) /\ Cardinality(Counted) \in Nat
         /\ Cardinality(Counted) = Chunks(meta) => Counted = ChunksOf(meta)
<1>1. Counted \subseteq ChunksOf(meta)
  BY DEF Counted
<1>2. IsFiniteSet(ChunksOf(meta)) /\ Cardinality(ChunksOf(meta)) = Chunks(meta)
  BY HowMany
<1>3. QED
  BY <1>1, <1>2, FS_Subset, FS_CardinalityType

\* What is counted stays so, when only chunks that are not counted are written.
LEMMA CountedGrows ==
  ASSUME meta \in File, UNCHANGED <<meta, folder_name>>,
         \A i \in ChunksOf(meta) : Open(i)' => Open(i),
         \A i \in ChunksOf(meta) : There(i) /\ ~Open(i) => There(i)'
  PROVE  /\ Counted \subseteq Counted' /\ Cardinality(Counted) \in Nat
         /\ Cardinality(Counted') \in Nat
         /\ Cardinality(Counted) <= Cardinality(Counted')
<1>1. ChunksOf(meta)' = ChunksOf(meta)
  BY DEF ChunksOf, Chunks
<1>2. Counted \subseteq Counted'
  BY <1>1 DEF Counted
<1>3. Counted' \subseteq ChunksOf(meta)
  BY <1>1 DEF Counted
<1>4. IsFiniteSet(Counted')
  BY <1>3, HowMany, FS_Subset
<1>5. QED
  BY <1>2, <1>4, CountedSize, FS_Subset, FS_CardinalityType

LEMMA CountKeeps ==
  ASSUME TypeOK, Orderly, UNCHANGED <<meta, folder_name>>,
         merges' = 0 => merges = 0,
         Cardinality(Counted) \in Nat, Cardinality(Counted') \in Nat,
         Cardinality(Counted) <= Cardinality(Counted'),
         chunksReceived' <= Cardinality(Counted'),
         NEW j, \A k \in Job : k # j => job'[k] = job[k],
         \A k \in Job : k # j /\ job[k] # None /\ job[k].at \in EarlyPc =>
           saved'[<<folder_name, meta, job[k].msg.i>>]
             = saved[<<folder_name, meta, job[k].msg.i>>],
         j \in Job /\ job'[j] # None =>
           /\ job'[j].at \notin MergePc
           /\ job'[j].at = "copy" => saved'[<<folder_name, meta, job'[j].msg.i>>] # None
           /\ job'[j].at \in EarlyPc \ {"create", "copy"} => There(job[j].msg.i)'
           /\ job'[j].at = "addCount" => job'[j].loaded <= Cardinality(Counted')
  PROVE  CountOK'
<1> SUFFICES ASSUME merges' = 0
             PROVE  CountOK'
  BY DEF CountOK
<1>1. CountOK /\ merges = 0
  BY DEF Orderly
<1>2. ASSUME NEW k \in Job, k # j, job'[k] # None
      PROVE  /\ job'[k].at \notin MergePc
             /\ job'[k].at = "copy" => saved'[<<folder_name, meta, job'[k].msg.i>>] # None
             /\ job'[k].at \in EarlyPc \ {"create", "copy"} => There(job[k].msg.i)'
             /\ job'[k].at = "addCount" => job'[k].loaded <= Cardinality(Counted')
  <2>1. job'[k] = job[k] /\ job[k].loaded \in Nat
    BY <1>2, JobFacts DEF Goroutine
  <2>2. /\ job[k].at \notin MergePc
        /\ job[k].at = "copy" => saved[<<folder_name, meta, job[k].msg.i>>] # None
        /\ job[k].at \in EarlyPc \ {"create", "copy"} => There(job[k].msg.i)
        /\ job[k].at = "addCount" => job[k].loaded <= Cardinality(Counted)
    BY <1>1, <1>2, <2>1 DEF CountOK
  <2>3. "copy" \in EarlyPc
    BY DEF EarlyPc, SavePc
  <2>4. QED
    BY <1>2, <2>1, <2>2, <2>3 DEF There
<1>3. QED
  BY <1>2 DEF CountOK

LEMMA MergesKeep ==
  ASSUME MergesOK, UNCHANGED <<saved, merged, meta, folder_name, merges>>,
         \A i \in Index : Open(i)' => Open(i),
         status' = status \/ status' # "missing",
         NEW j, \A k \in Job : k # j => job'[k] = job[k],
         j \in Job /\ job'[j] # None => job'[j].at \notin MergePc
  PROVE  MergesOK'
<1>1. ASSUME merges = 1, NEW k \in Job, Merging(k)'
      PROVE  MergeOK(k)'
  <2>1. k # j /\ job'[k] = job[k] /\ Merging(k)
    BY <1>1 DEF Merging
  <2>2. \A l \in Job : Merging(l)' => Merging(l)
    BY DEF Merging
  <2>3. MergeOK(k)
    BY <1>1, <2>1 DEF MergesOK
  <2>4. \A i : There(i)' <=> There(i)
    BY DEF There
  <2>5. ChunksOf(meta)' = ChunksOf(meta)
    BY DEF ChunksOf, Chunks
  <2>6. QED
    BY <2>1, <2>2, <2>3, <2>4, <2>5 DEF MergeOK
<1>2. QED
  BY <1>1 DEF MergesOK

-----------------------------------------------------------------------------
(* Answers that are lost, or served. *)

LEMMA LoseKeeps ==
  ASSUME TypeOK, Orderly, NEW m \in mail, Lose(m)
  PROVE  Orderly'
<1>1. /\ UNCHANGED <<status, job, Shared, saved, merged, chunksReceived, merges>>
      /\ mail' = mail \ {m} /\ Up
  BY DEF Lose, Shared, globals, disk, cluster
<1>2. CASE m.type # "chunk"
  <2>1. SoleMail(m)
    BY <1>2 DEF Orderly, MailOK, TypeOK, Message
  <2>2. mail' = {} /\ \A j \in Job : job'[j] = None
    BY <1>1, <2>1 DEF SoleMail
  <2>3. Calm'
    BY <1>1, <2>2 DEF Calm, Up
  <2>4. QED
    BY <1>1, <2>2, <2>3, CalmOK DEF Orderly, StoredOK, Shared
<1>3. CASE m.type = "chunk"
  <2>1. InRead /\ meta \in File /\ chunksReceived \in Nat
    BY <1>3, ReadPhase DEF Orderly, MailOK, ChunkOK, Reading, TypeOK, Message
  <2>2. \A i : Fewer(i)
    BY <1>1 DEF Fewer, Asking, Saving
  <2>3. \A i \in Index : Once(i)' /\ (Open(i)' => Open(i))
    BY <2>2, FewerOnce DEF Orderly
  <2>4. PICK j : j \notin Job
    BY NoSetContainsEverything
  <2>5. /\ \A f \in File : StoredOK(f)'
        /\ \A o \in mail : MailOK(o)'
        /\ \A k \in Job : job'[k] # None => JobOK(k)'
    BY <1>1, <2>1, <2>4, OthersOK
  <2>6. MergesOK'
    BY <1>1, <2>3, <2>4, MergesKeep DEF Orderly, Shared
  <2>7. CountOK'
    <3> SUFFICES ASSUME merges = 0
                 PROVE  CountOK'
      BY <1>1 DEF CountOK
    <3>1. chunksReceived <= Cardinality(Counted)
      BY <1>3 DEF Orderly, CountOK
    <3>2. /\ Cardinality(Counted) \in Nat /\ Cardinality(Counted') \in Nat
          /\ Cardinality(Counted) <= Cardinality(Counted')
      BY <1>1, <2>1, <2>3, IndexType, CountedGrows DEF There, Shared
    <3>3. chunksReceived' <= Cardinality(Counted')
      BY <1>1, <2>1, <3>1, <3>2
    <3>4. QED
      BY <1>1, <2>4, <3>2, <3>3, CountKeeps DEF Shared
  <2>8. QED
    BY <1>1, <2>3, <2>5, <2>6, <2>7 DEF Orderly
<1>4. QED
  BY <1>2, <1>3

LEMMA ReceiveKeeps ==
  ASSUME TypeOK, Orderly, NEW j \in Job, NEW m \in mail, Receive(j, m)
  PROVE  Orderly'
<1>1. /\ UNCHANGED <<status, Shared, saved, merged, chunksReceived, merges>>
      /\ mail' = mail \ {m} /\ Up /\ job[j] = None
  BY DEF Receive, Shared, globals, disk, cluster, history
<1>2. PICK v : /\ job' = [job EXCEPT ![j] = v]
               /\ v = [at |-> First[m.type], msg |-> m, file |-> None,
                       folder |-> None, i |-> 0, left |-> {}, loaded |-> 0,
                       data |-> None]
  BY DEF Receive
<1>3. /\ v.at = First[m.type] /\ v.msg = m /\ v.i = 0 /\ job'[j] = v
      /\ \A k \in Job : k # j => job'[k] = job[k]
  BY <1>2 DEF TypeOK
<1>4. m \in Message /\ m.file \in File
  BY DEF TypeOK, Message
<1>5. CASE m.type # "chunk"
  <2>1. SoleMail(m) /\ (m.type = "write" \/ m.type = "read")
    BY <1>4, <1>5 DEF Orderly, MailOK, Message
  <2>2. mail' = {} /\ \A k \in Job : k # j => job'[k] = None
    BY <1>1, <1>3, <2>1 DEF SoleMail
  <2>3. SoleJob(j)'
    BY <2>2 DEF SoleJob
  <2>4. /\ m.type = "write" => v.at = "open"
        /\ m.type = "read" => v.at = "retrieve"
    BY <1>3 DEF First
  <2>5. v.at \in UploadPc \cup {"retrieve"} /\ v.at # "send"
    BY <2>1, <2>4 DEF UploadPc
  <2>6. Calm'
    BY <1>1, <1>3, <2>2, <2>5 DEF Calm, Up
  <2>7. JobOK(j)'
    <3>1. v.at \in UploadPc => UploadOK(j)'
      <4>1. v.at \in UploadPc => m.type = "write"
        BY <2>1, <2>4 DEF UploadPc
      <4>2. m.type = "write" => Uploading(m) /\ stored[m.file] = {}
        BY DEF Orderly, MailOK
      <4>3. m.type = "write" => Uploading(m)' /\ stored'[m.file] = {}
        BY <1>1, <4>2 DEF Uploading, Shared
      <4>4. QED
        BY <1>3, <2>3, <2>5, <4>1, <4>3 DEF UploadOK, Uploading
    <3>2. v.at = "retrieve" => SoleJob(j)' /\ Retrieving(m)'
      <4>1. v.at = "retrieve" => m.type = "read"
        BY <2>1, <2>4
      <4>2. QED
        BY <1>1, <2>3, <4>1 DEF Orderly, MailOK, Retrieving, Shared
    <3>3. v.at \notin SavePc \cup MergePc \cup {"ask"}
      BY <2>5 DEF UploadPc, SavePc, MergePc
    <3>4. QED
      BY <1>3, <3>1, <3>2, <3>3 DEF JobOK, Retrieving
  <2>8. QED
    BY <1>1, <2>2, <2>6, <2>7, CalmOK DEF Orderly, StoredOK, Shared
<1>6. CASE m.type = "chunk"
  <2>1. InRead /\ ChunkOK(m) /\ meta \in File /\ chunksReceived \in Nat
    BY <1>4, <1>6, ReadPhase DEF Orderly, MailOK, ChunkOK, Reading, TypeOK
  <2>2. v.at = "create" /\ "create" \in SavePc /\ "create" \in EarlyPc
        /\ "create" \notin UploadPc \cup MergePc
    BY <1>3, <1>6 DEF First, SavePc, EarlyPc, UploadPc, MergePc
  <2>3. ASSUME NEW i
        PROVE  /\ \A k \in Job : Asking(k, i)' => Asking(k, i)
               /\ \A k \in Job : Saving(k, i)' => Saving(k, i) \/ (k = j /\ i = m.i)
               /\ \A o : Coming(o, i)' => Coming(o, i) /\ o # m
    <3>1. \A k \in Job : Asking(k, i)' => Asking(k, i)
      BY <1>3, <2>2 DEF Asking
    <3>2. \A k \in Job : Saving(k, i)' => Saving(k, i) \/ (k = j /\ i = m.i)
      BY <1>3 DEF Saving
    <3>3. \A o : Coming(o, i)' => Coming(o, i) /\ o # m
      BY <1>1 DEF Coming
    <3>4. QED
      BY <3>1, <3>2, <3>3
  <2>4. Coming(m, m.i)
    BY <1>6 DEF Coming
  <2>5. ASSUME NEW i \in Index
        PROVE  Once(i)' /\ (Open(i)' => Open(i))
    <3>1. Once(i) /\ \A o \in mail' : o \in mail
      BY <1>1 DEF Orderly
    <3>2. Open(i)' => Open(i)
      BY <2>3, <2>4, <3>1 DEF Open
    <3>3. Once(i)'
      <4>1. CASE i # m.i
        BY <2>3, <3>1, <4>1 DEF Once
      <4>2. CASE i = m.i
        <5>1. /\ \A k \in Job : ~Asking(k, i) /\ ~Saving(k, i)
              /\ \A o \in mail : Coming(o, i) => o = m
          BY <2>4, <3>1, <4>2 DEF Once
        <5>2. /\ \A k \in Job : ~Asking(k, i)' /\ (Saving(k, i)' => k = j)
              /\ \A o \in mail' : ~Coming(o, i)'
          BY <2>3, <3>1, <5>1
        <5>3. QED
          BY <5>2 DEF Once
      <4>3. QED
        BY <4>1, <4>2
    <3>4. QED
      BY <3>2, <3>3
  <2>6. /\ \A f \in File : StoredOK(f)'
        /\ \A o \in mail : MailOK(o)'
        /\ \A k \in Job : k # j /\ job'[k] # None => JobOK(k)'
    BY <1>1, <1>3, <2>1, OthersOK
  <2>7. JobOK(j)'
    <3>1. ChunkOK(m)'
      BY <1>1, <2>1 DEF ChunkOK, Reading, Shared
    <3>2. QED
      BY <1>3, <2>2, <3>1 DEF JobOK, ChunkOK, Reading
  <2>8. MergesOK'
    BY <1>1, <1>3, <2>2, <2>5, MergesKeep DEF Orderly, Shared
  <2>9. CountOK'
    <3> SUFFICES ASSUME merges = 0
                 PROVE  CountOK'
      BY <1>1 DEF CountOK
    <3>1. chunksReceived <= Cardinality(Counted)
      BY <1>6 DEF Orderly, CountOK
    <3>2. /\ Cardinality(Counted) \in Nat /\ Cardinality(Counted') \in Nat
          /\ Cardinality(Counted) <= Cardinality(Counted')
      BY <1>1, <2>1, <2>5, IndexType, CountedGrows DEF There, Shared
    <3>3. chunksReceived' <= Cardinality(Counted')
      BY <1>1, <2>1, <3>1, <3>2
    <3>4. QED
      BY <1>1, <1>3, <2>2, <3>2, <3>3, CountKeeps DEF Shared
  <2>10. QED
    BY <1>1, <2>5, <2>6, <2>7, <2>8, <2>9 DEF Orderly
<1>7. QED
  BY <1>5, <1>6

\* The process ends: nothing moves but the status.
LEMMA EndKeeps ==
  ASSUME Orderly, UNCHANGED <<globals, job, disk, mail, cluster, history>>,
         status' # "missing" \/ merges > 1
  PROVE  Orderly'
<1> USE DEF disk, cluster, history, globals
<1>1. (\A f \in File : StoredOK(f)') /\ \A m \in mail' : MailOK(m)'
  BY DEF Orderly, StoredOK, MailOK, SoleMail, Uploading, Retrieving, ChunkOK, Reading
<1>2. \A j \in Job : job'[j] # None => JobOK(j)'
  BY DEF Orderly, JobOK, UploadOK, SoleJob, Uploading, Retrieving, AskOK, ChunkOK, Reading
<1>3. ASSUME NEW i
      PROVE  /\ \A j \in Job : (Asking(j, i)' <=> Asking(j, i)) /\ (Saving(j, i)' <=> Saving(j, i))
             /\ \A m : Coming(m, i)' <=> Coming(m, i)
  BY DEF Asking, Saving, Coming
<1>4. \A i : Open(i)' <=> Open(i)
  BY <1>3 DEF Open
<1>5. \A i \in Index : Once(i)'
  BY <1>3 DEF Orderly, Once
<1>6. \A i : There(i)' <=> There(i)
  BY DEF There
<1>7. ChunksOf(meta)' = ChunksOf(meta)
  BY DEF ChunksOf, Chunks
<1>8. Counted' = Counted
  BY <1>4, <1>6, <1>7 DEF Counted
<1>9. CountOK'
  BY <1>6, <1>8 DEF Orderly, CountOK
<1>10. \A j \in Job : (Merging(j)' <=> Merging(j)) /\ (MergeOK(j) => MergeOK(j)')
  BY <1>6, <1>7 DEF Merging, MergeOK
<1>11. MergesOK'
  BY <1>4, <1>10 DEF Orderly, MergesOK
<1>12. QED
  BY <1>1, <1>2, <1>5, <1>9, <1>11 DEF Orderly

-----------------------------------------------------------------------------
(* The chunks are asked for. *)

\* A goroutine that returns, or goes on asking, and the chunks it no longer asks for.
LEMMA AskStep ==
  ASSUME TypeOK, Orderly, NEW j \in Job, At(j, "ask"), NEW v, v = None \/ v.at = "ask",
         job' = [job EXCEPT ![j] = v], JobOK(j)' \/ v = None,
         UNCHANGED <<status, Shared, saved, merged, chunksReceived, merges>>,
         \A m \in mail' \ mail : MailOK(m)',
         \A i \in Index : Once(i)' /\ (Open(i)' => Open(i))
  PROVE  Orderly'
<1>1. InRead /\ AskOK(j) /\ job[j] # None /\ Up
  BY ReadPhase DEF Orderly, JobOK, At
<1>2. meta \in File /\ chunksReceived \in Nat
  BY <1>1, JobFacts DEF AskOK, Reading, TypeOK
<1>3. job'[j] = v /\ \A k \in Job : k # j => job'[k] = job[k]
  BY DEF TypeOK
<1>4. /\ \A f \in File : StoredOK(f)'
      /\ \A o \in mail : MailOK(o)'
      /\ \A k \in Job : k # j /\ job'[k] # None => JobOK(k)'
  BY <1>1, <1>3, OthersOK
<1>5. v # None => v.at \notin SavePc \cup MergePc
  BY DEF SavePc, MergePc
<1>6. MergesOK'
  BY <1>3, <1>5, MergesKeep DEF Orderly, Shared
<1>7. CountOK'
  <2> SUFFICES ASSUME merges = 0
               PROVE  CountOK'
    BY DEF CountOK
  <2>1. chunksReceived <= Cardinality(Counted)
    BY <1>1 DEF Orderly, CountOK, At
  <2>2. /\ Cardinality(Counted) \in Nat /\ Cardinality(Counted') \in Nat
        /\ Cardinality(Counted) <= Cardinality(Counted')
    BY <1>2, IndexType, CountedGrows DEF There, Shared
  <2>3. chunksReceived' <= Cardinality(Counted')
    BY <1>2, <2>1, <2>2
  <2>4. v # None => v.at # "copy" /\ v.at # "addCount" /\ v.at \notin EarlyPc
    BY DEF EarlyPc, SavePc
  <2>5. QED
    BY <1>3, <1>5, <2>2, <2>3, <2>4, CountKeeps DEF Shared
<1>8. QED
  BY <1>3, <1>4, <1>6, <1>7 DEF Orderly

LEMMA RetrieveKeeps ==
  ASSUME TypeOK, Orderly, NEW j \in Job, Retrieve(j)
  PROVE  Orderly'
<1> USE DEF disk, cluster, history, globals, OnlyJobs, SameDisk, SameGlobals
<1>1. job[j] # None /\ Up
  BY DEF Retrieve, RetrieveStart, Ask, AskFails, AskNoReplica, AskEnd, At
<1>2. PICK g : g = job[j] /\ g \in Goroutine /\ g.msg \in Message /\ g.msg.file \in File
  BY <1>1, JobFacts
<1>3. CASE RetrieveStart(j)
  <2>1. PICK v : v = [g EXCEPT !.at = "ask", !.left = Located(g.msg)]
    OBVIOUS
  <2>2. /\ job' = [job EXCEPT ![j] = v] /\ g.at = "retrieve" /\ merges' = 0
        /\ UNCHANGED <<status, file_path, mail, names, stored>>
        /\ meta' = g.msg.file /\ chunksReceived' = 0
    BY <1>2, <1>3, <2>1 DEF RetrieveStart, At
  <2>3. v.at = "ask" /\ v.left = g.msg.have /\ v.msg = g.msg
    BY <1>2, <2>1 DEF Goroutine, Located
  <2>4. job'[j] = v /\ \A k \in Job : k # j => job'[k] = job[k]
    BY <2>2 DEF TypeOK
  <2>5. SoleJob(j) /\ Retrieving(g.msg)
    BY <1>1, <1>2, <2>2 DEF Orderly, JobOK
  <2>6. /\ mail' = {} /\ \A k \in Job : k # j => job'[k] = None
        /\ "ask" \notin UploadPc \cup SavePc \cup MergePc \cup EarlyPc
    BY <2>2, <2>4, <2>5 DEF SoleJob, UploadPc, SavePc, MergePc, EarlyPc
  <2>7. JobOK(j)'
    BY <2>2, <2>3, <2>4, <2>5, <2>6 DEF JobOK, AskOK, Reading, Retrieving
  <2>8. /\ \A i : \A k \in Job : (Asking(k, i)' => k = j) /\ ~Saving(k, i)'
        /\ \A m, i : ~Coming(m, i)'
    BY <2>3, <2>4, <2>6 DEF Asking, Saving, Coming
  <2>9. \A i \in Index : Once(i)'
    BY <2>8 DEF Once
  <2>10. CountOK'
    <3>1. Cardinality(Counted') \in Nat
      <4>1. Counted' \subseteq ChunksOf(g.msg.file)
        BY <2>2 DEF Counted, ChunksOf, Chunks
      <4>2. IsFiniteSet(Counted')
        BY <1>2, <4>1, HowMany, FS_Subset
      <4>3. QED
        BY <4>2, FS_CardinalityType
    <3>2. "copy" \in SavePc /\ "addCount" \in SavePc
      BY DEF SavePc
    <3>3. QED
      BY <2>2, <2>3, <2>4, <2>6, <3>1, <3>2 DEF CountOK
  <2>11. MergesOK'
    BY <1>1, <2>2 DEF MergesOK, Up
  <2>12. QED
    BY <2>2, <2>6, <2>7, <2>9, <2>10, <2>11 DEF Orderly, StoredOK
<1>4. ASSUME NEW i \in Index, Ask(j, i)
      PROVE  Orderly'
  <2>1. PICK v : v = [g EXCEPT !.left = @ \ {i}]
    OBVIOUS
  <2>2. PICK d, m : /\ d \in File /\ <<i, d>> \in stored[g.msg.file]
                    /\ m = [type |-> "chunk", file |-> g.msg.file,
                            no |-> g.msg.no, i |-> i, data |-> d]
                    /\ mail' = mail \cup {m}
    BY <1>2, <1>4 DEF Ask
  <2>3. /\ job' = [job EXCEPT ![j] = v] /\ At(j, "ask") /\ i \in g.left
        /\ UNCHANGED <<status, Shared, saved, merged, chunksReceived, merges>>
    BY <1>2, <1>4, <2>1 DEF Ask, Shared
  <2>4. v.at = "ask" /\ v.left = g.left \ {i} /\ v.msg = g.msg /\ v # None
    BY <1>2, <2>1, <2>3, NoneAssumption DEF Goroutine, At
  <2>5. job'[j] = v /\ \A k \in Job : k # j => job'[k] = job[k]
    BY <2>3 DEF TypeOK
  <2>6. m.type = "chunk" /\ m.file = g.msg.file /\ m.i = i /\ m.data = d
    BY <2>2
  <2>7. AskOK(j) /\ Reading(g.msg)
    BY <1>1, <1>2, <2>3 DEF Orderly, JobOK, AskOK, At
  <2>8. d = g.msg.file /\ i \in ChunksOf(g.msg.file)
    BY <1>2, <2>2, StoredChunk
  <2>9. MailOK(m)'
    BY <2>3, <2>6, <2>7, <2>8 DEF MailOK, ChunkOK, Reading, Shared
  <2>10. JobOK(j)'
    <3>1. "ask" \notin UploadPc \cup SavePc \cup MergePc
      BY DEF UploadPc, SavePc, MergePc
    <3>2. AskOK(j)'
      BY <1>2, <2>3, <2>4, <2>5, <2>7 DEF AskOK, Reading, Shared
    <3>3. QED
      BY <2>4, <2>5, <3>1, <3>2 DEF JobOK
  <2>11. Asking(j, i)
    BY <1>1, <1>2, <2>3 DEF Asking, At
  <2>12. ASSUME NEW n
         PROVE  /\ \A k \in Job : Asking(k, n)' => Asking(k, n) /\ ~(k = j /\ n = i)
                /\ \A k \in Job : Saving(k, n)' => Saving(k, n)
                /\ \A o : Coming(o, n)' => Coming(o, n) \/ (o = m /\ n = i)
    <3>1. \A k \in Job : Asking(k, n)' => Asking(k, n) /\ ~(k = j /\ n = i)
      BY <1>1, <1>2, <2>3, <2>4, <2>5 DEF Asking, At
    <3>2. \A k \in Job : Saving(k, n)' => Saving(k, n)
      BY <2>4, <2>5 DEF Saving, EarlyPc, SavePc
    <3>3. \A o : Coming(o, n)' => Coming(o, n) \/ (o = m /\ n = i)
      BY <2>2, <2>6 DEF Coming
    <3>4. QED
      BY <3>1, <3>2, <3>3
  <2>13. ASSUME NEW n \in Index
         PROVE  Once(n)' /\ (Open(n)' => Open(n))
    <3>1. Once(n) /\ \A o \in mail' : o \in mail \/ o = m
      BY <2>2 DEF Orderly
    <3>2. \A o : Coming(o, n) => o \in mail
      BY DEF Coming
    <3>3. Open(n)' => Open(n)
      BY <2>11, <2>12, <3>1, <3>2 DEF Open
    <3>4. Once(n)'
      <4>1. CASE n # i
        BY <2>12, <3>1, <3>2, <4>1 DEF Once
      <4>2. CASE n = i
        <5>1. /\ \A k \in Job : ~Saving(k, n) /\ (Asking(k, n) => k = j)
              /\ \A o \in mail : ~Coming(o, n)
          BY <2>11, <3>1, <4>2 DEF Once
        <5>2. /\ \A k \in Job : ~Saving(k, n)' /\ ~Asking(k, n)'
              /\ \A o \in mail' : Coming(o, n)' => o = m
          BY <2>12, <3>2, <4>2, <5>1
        <5>3. QED
          BY <5>2 DEF Once
      <4>3. QED
        BY <4>1, <4>2
    <3>5. QED
      BY <3>3, <3>4
  <2>14. \A o \in mail' \ mail : o = m
    BY <2>2
  <2>15. QED
    BY <2>3, <2>4, <2>9, <2>10, <2>13, <2>14, AskStep
<1>5. CASE AskFails(j) \/ AskEnd(j)
  <2>1. /\ At(j, "ask") /\ job' = [job EXCEPT ![j] = None] /\ mail' = mail
        /\ UNCHANGED <<status, Shared, saved, merged, chunksReceived, merges>>
    BY <1>5 DEF AskFails, AskEnd, Return, Shared
  <2>2. job'[j] = None /\ \A k \in Job : k # j => job'[k] = job[k]
    BY <2>1 DEF TypeOK
  <2>3. \A i : Fewer(i)
    BY <1>1, <2>1, <2>2, JobFewer
  <2>4. \A i \in Index : Once(i)' /\ (Open(i)' => Open(i))
    BY <2>3, FewerOnce DEF Orderly
  <2>5. QED
    BY <2>1, <2>4, AskStep
<1>6. CASE AskNoReplica(j)
  <2>1. status' = "noReplica" /\ UNCHANGED <<globals, job, disk, mail, cluster, history>>
    BY <1>6 DEF AskNoReplica, End
  <2>2. QED
    BY <2>1, EndKeeps
<1>7. QED
  BY <1>3, <1>4, <1>5, <1>6 DEF Retrieve

-----------------------------------------------------------------------------
(* A chunk is saved, and counted. *)

\* What is known of a goroutine that saves a chunk or merges them.
LEMMA SavingFacts ==
  ASSUME TypeOK, Orderly, NEW j \in Job, job[j] # None,
         job[j].at \in SavePc \cup MergePc
  PROVE  /\ InRead /\ meta \in File /\ chunksReceived \in Nat
         /\ job[j] \in Goroutine /\ job[j].loaded \in Nat
         /\ job[j].msg.i \in ChunksOf(meta) /\ job[j].msg.i \in Index
         /\ job[j].msg.file = meta /\ job[j].msg.data = meta /\ file_path.file = meta
         /\ job[j].at \in SavePc \ {"create"} => job[j].folder = folder_name
<1>1. ChunkOK(job[j].msg) /\ job[j] \in Goroutine /\ job[j].msg.file \in File
  BY JobFacts DEF Orderly, JobOK
<1>2. meta \in File
  BY <1>1 DEF ChunkOK, Reading
<1>3. job[j].at \in SavePc \ {"create"} => job[j].folder = folder_name
  BY DEF Orderly, JobOK
<1>4. chunksReceived \in Nat /\ job[j].loaded \in Nat
  BY <1>1 DEF TypeOK, Goroutine
<1>5. QED
  BY <1>1, <1>2, <1>3, <1>4, ReadPhase, MessageFacts DEF ChunkOK, Reading

\* A chunk that is being saved is not counted, and nothing is merged.
LEMMA EarlyFacts ==
  ASSUME TypeOK, Orderly, NEW j \in Job, job[j] # None, job[j].at \in EarlyPc
  PROVE  /\ Open(job[j].msg.i) /\ merges = 0
         /\ chunksReceived <= Cardinality(Counted)
         /\ job[j].at = "copy" => saved[<<folder_name, meta, job[j].msg.i>>] # None
         /\ job[j].at \in EarlyPc \ {"create", "copy"} => There(job[j].msg.i)
         /\ job[j].at = "addCount" => job[j].loaded <= Cardinality(Counted)
<1>1. job[j].at \in SavePc /\ job[j].msg.i \in Index
  BY SavingFacts DEF EarlyPc
<1>2. Open(job[j].msg.i)
  BY DEF Open, Saving
<1>3. merges = 0
  BY <1>1, <1>2 DEF Orderly, MergesOK
<1>4. QED
  BY <1>1, <1>2, <1>3 DEF Orderly, CountOK

\* The chunk j was about to count is counted.
LEMMA CountedOne ==
  ASSUME NEW i, i \notin Counted, i \in Counted', Counted \subseteq Counted',
         meta \in File, meta' \in File
  PROVE  Cardinality(Counted) + 1 <= Cardinality(Counted')
<1>1. /\ IsFiniteSet(Counted) /\ Cardinality(Counted) \in Nat
  BY CountedSize
<1>2. IsFiniteSet(Counted')
  <2>1. Counted' \subseteq ChunksOf(meta')
    BY DEF Counted, ChunksOf, Chunks
  <2>2. QED
    BY <2>1, HowMany, FS_Subset
<1>3. /\ IsFiniteSet(Counted \cup {i})
      /\ Cardinality(Counted \cup {i}) = Cardinality(Counted) + 1
  BY <1>1, FS_AddElement
<1>4. Counted \cup {i} \subseteq Counted'
  OBVIOUS
<1>5. QED
  BY <1>2, <1>3, <1>4, FS_Subset

LEMMA SaveStep ==
  ASSUME TypeOK, Orderly, NEW j \in Job, Up, job[j] # None, job[j].at \in EarlyPc,
         NEW v, v # None, v.at \in SavePc \ {"create"}, v.msg = job[j].msg,
         v.folder = folder_name, job' = [job EXCEPT ![j] = v],
         UNCHANGED <<status, Shared, mail, merges>>,
         \A n \in Index : n # job[j].msg.i =>
           saved'[<<folder_name, meta, n>>] = saved[<<folder_name, meta, n>>],
         v.at = "copy" => saved'[<<folder_name, meta, job[j].msg.i>>] # None,
         v.at # "copy" => saved'[<<folder_name, meta, job[j].msg.i>>] = meta,
         v.at = "addCount" => v.loaded <= Cardinality(Counted) /\ v.loaded \in Nat,
         \/ chunksReceived' = chunksReceived
         \/ /\ job[j].at = "addCount" /\ v.at = "test"
            /\ chunksReceived' = job[j].loaded + 1
  PROVE  Orderly'
<1>1. PICK g, i : g = job[j] /\ i = g.msg.i
  OBVIOUS
<1>2. /\ InRead /\ meta \in File /\ chunksReceived \in Nat /\ i \in Index
      /\ i \in ChunksOf(meta) /\ g.loaded \in Nat
  BY <1>1, SavingFacts DEF EarlyPc
<1>3. /\ Open(i) /\ merges = 0 /\ chunksReceived <= Cardinality(Counted)
      /\ g.at = "addCount" => g.loaded <= Cardinality(Counted)
  BY <1>1, EarlyFacts
<1>4. job'[j] = v /\ \A k \in Job : k # j => job'[k] = job[k]
  BY DEF TypeOK
<1>5. Saving(j, i)
  BY <1>1 DEF Saving
<1>6. \A n : Fewer(n)
  BY <1>4, JobFewer DEF EarlyPc, SavePc
<1>7. \A n \in Index : Once(n)' /\ (Open(n)' => Open(n))
  BY <1>6, FewerOnce DEF Orderly
<1>8. /\ \A f \in File : StoredOK(f)'
      /\ \A m \in mail' : MailOK(m)'
      /\ \A k \in Job : k # j /\ job'[k] # None => JobOK(k)'
  BY <1>2, <1>4, OthersOK
<1>9. v.at \notin UploadPc \cup MergePc \cup {"retrieve", "ask"}
  BY DEF UploadPc, MergePc, SavePc
<1>10. JobOK(j)'
  <2>1. ChunkOK(g.msg)'
    BY <1>1 DEF Orderly, JobOK, ChunkOK, Reading, Shared, EarlyPc
  <2>2. QED
    BY <1>1, <1>4, <1>9, <2>1 DEF JobOK, ChunkOK, Reading, Shared
<1>11. MergesOK'
  BY <1>3 DEF MergesOK, Up
<1>12. /\ Counted \subseteq Counted' /\ Cardinality(Counted) \in Nat
       /\ Cardinality(Counted') \in Nat
       /\ Cardinality(Counted) <= Cardinality(Counted')
  <2>1. \A n \in ChunksOf(meta) : n \in Index
    BY <1>2, IndexType
  <2>2. \A n \in ChunksOf(meta) : There(n) /\ ~Open(n) => There(n)'
    BY <1>1, <1>3, <2>1 DEF There, Shared
  <2>3. QED
    BY <1>2, <1>7, <2>1, <2>2, CountedGrows DEF Shared
<1>13. chunksReceived' <= Cardinality(Counted')
  <2>1. CASE chunksReceived' = chunksReceived
    BY <1>2, <1>3, <1>12, <2>1
  <2>2. CASE /\ g.at = "addCount" /\ v.at = "test"
             /\ chunksReceived' = g.loaded + 1
    <3>1. ~Open(i)'
      <4>1. \A k \in Job : ~Asking(k, i) /\ (Saving(k, i) => k = j)
        BY <1>2, <1>5 DEF Orderly, Once
      <4>2. \A m \in mail : ~Coming(m, i)
        BY <1>2, <1>5 DEF Orderly, Once
      <4>3. \A k \in Job : ~Asking(k, i)' /\ (Saving(k, i)' => k = j)
        BY <1>6, <4>1 DEF Fewer
      <4>4. ~Saving(j, i)'
        BY <1>4, <2>2 DEF Saving, EarlyPc
      <4>5. \A m \in mail' : ~Coming(m, i)'
        BY <4>2 DEF Coming
      <4>6. QED
        BY <4>3, <4>4, <4>5 DEF Open
    <3>2. i \notin Counted /\ i \in Counted'
      <4>1. There(i)'
        BY <1>1, <2>2 DEF There, Shared
      <4>2. i \in ChunksOf(meta)'
        BY <1>2 DEF Shared, ChunksOf, Chunks
      <4>3. QED
        BY <1>3, <3>1, <4>1, <4>2 DEF Counted
    <3>3. Cardinality(Counted) + 1 <= Cardinality(Counted')
      BY <1>2, <1>12, <3>2, CountedOne DEF Shared
    <3>4. QED
      BY <1>2, <1>3, <1>12, <2>2, <3>3
  <2>3. QED
    BY <1>1, <2>1, <2>2
<1>14. CountOK'
  <2>1. ASSUME NEW k \in Job, k # j, job[k] # None, job[k].at \in EarlyPc
        PROVE  saved'[<<folder_name, meta, job[k].msg.i>>]
                 = saved[<<folder_name, meta, job[k].msg.i>>]
    <3>1. job[k].msg.i \in Index
      BY <2>1, SavingFacts DEF EarlyPc
    <3>2. Saving(k, job[k].msg.i)
      BY <2>1 DEF Saving
    <3>3. job[k].msg.i # i
      BY <1>2, <1>5, <2>1, <3>2 DEF Orderly, Once
    <3>4. QED
      BY <1>1, <3>1, <3>3
  <2>2. v.at \in EarlyPc \ {"create", "copy"} => There(v.msg.i)'
    BY DEF There, Shared
  <2>3. v.at = "addCount" => v.loaded <= Cardinality(Counted')
    BY <1>12
  <2>4. QED
    BY <1>4, <1>9, <1>12, <1>13, <2>1, <2>2, <2>3, CountKeeps DEF Shared
<1>15. QED
  BY <1>4, <1>7, <1>8, <1>10, <1>11, <1>14 DEF Orderly

\* The count is compared with the number of chunks.
LEMMA TestKeeps ==
  ASSUME TypeOK, Orderly, NEW j \in Job, Test(j)
  PROVE  Orderly'
<1> USE DEF disk, cluster, history, globals, OnlyJobs, SameGlobals
<1>1. PICK g : g = job[j]
  OBVIOUS
<1>2. /\ Up /\ g # None /\ g.at = "test" /\ g.at \in SavePc /\ g.at \notin EarlyPc
      /\ UNCHANGED <<status, Shared, chunksReceived, saved, merged, mail>>
  BY <1>1 DEF Test, At, Shared, SavePc, EarlyPc
<1>3. /\ InRead /\ meta \in File /\ chunksReceived \in Nat /\ g \in Goroutine
      /\ g.msg.file = meta
  BY <1>1, <1>2, SavingFacts
<1>4. PICK v : job' = [job EXCEPT ![j] = v]
               /\ \/ v = None /\ merges' = merges
                  \/ /\ v = [g EXCEPT !.at = "mergeCreate"] /\ Complete
                     /\ v # None /\ merges' = merges + 1
  <2>1. PICK v : v = [g EXCEPT !.at = "mergeCreate"]
    OBVIOUS
  <2>2. v \in Goroutine
    BY <1>3, <2>1 DEF Goroutine, Pc, MergePc
  <2>3. v # None
    BY <2>2, NoneAssumption
  <2>4. QED
    BY <1>1, <1>2, <1>3, <2>1, <2>3 DEF Test, Goto, Return
<1>5. job'[j] = v /\ \A k \in Job : k # j => job'[k] = job[k]
  BY <1>4 DEF TypeOK
<1>6. v # None => v.at = "mergeCreate" /\ v.msg = g.msg
  BY <1>3, <1>4 DEF Goroutine
<1>7. "mergeCreate" \in MergePc
      /\ "mergeCreate" \notin UploadPc \cup SavePc \cup {"retrieve", "ask"}
      /\ "mergeCreate" \notin EarlyPc
  BY DEF UploadPc, MergePc, SavePc, EarlyPc
<1>8. \A n : Fewer(n)
  BY <1>1, <1>2, <1>5, <1>6, <1>7, JobFewer
<1>9. \A n \in Index : Once(n)' /\ (Open(n)' => Open(n))
  BY <1>8, FewerOnce DEF Orderly
<1>10. /\ \A f \in File : StoredOK(f)'
       /\ \A m \in mail' : MailOK(m)'
       /\ \A k \in Job : k # j /\ job'[k] # None => JobOK(k)'
  BY <1>2, <1>3, <1>5, OthersOK
<1>11. v # None => JobOK(j)'
  <2>1. ChunkOK(g.msg)'
    BY <1>1, <1>2 DEF Orderly, JobOK, ChunkOK, Reading, Shared
  <2>2. QED
    BY <1>5, <1>6, <1>7, <2>1 DEF JobOK, ChunkOK, Reading
<1>12. merges \in Nat
  BY DEF TypeOK
<1>13. merges = 0 => chunksReceived <= Cardinality(Counted)
  BY <1>1, <1>2 DEF Orderly, CountOK
<1>14. CASE v = None
  <2>1. MergesOK'
    BY <1>2, <1>4, <1>5, <1>9, <1>14, MergesKeep DEF Orderly, Shared
  <2>2. CountOK'
    <3> SUFFICES ASSUME merges = 0
                 PROVE  CountOK'
      BY <1>4, <1>12, <1>14 DEF CountOK
    <3>1. /\ Cardinality(Counted) \in Nat /\ Cardinality(Counted') \in Nat
          /\ Cardinality(Counted) <= Cardinality(Counted')
      BY <1>2, <1>3, <1>9, IndexType, CountedGrows DEF There, Shared
    <3>2. chunksReceived' <= Cardinality(Counted')
      BY <1>2, <1>3, <1>13, <3>1
    <3>3. QED
      BY <1>2, <1>5, <1>14, <3>1, <3>2, CountKeeps DEF Shared
  <2>3. QED
    BY <1>5, <1>9, <1>10, <1>14, <2>1, <2>2 DEF Orderly
<1>15. CASE v # None
  <2>1. merges' = merges + 1 /\ Complete
    BY <1>4, <1>15
  <2>2. ASSUME merges = 0
        PROVE  Counted = ChunksOf(meta)
    <3>1. Cardinality(Counted) \in Nat /\ Cardinality(Counted) <= Chunks(meta)
      <4>1. Counted \subseteq ChunksOf(meta)
        BY DEF Counted
      <4>2. QED
        BY <1>3, <4>1, HowMany, FS_Subset, CountedSize
    <3>2. chunksReceived = Chunks(meta)
      BY <2>1 DEF Complete
    <3>3. QED
      BY <1>3, <1>13, <2>2, <3>1, <3>2, CountedSize
  <2>3. ASSUME NEW n \in Index
        PROVE  ~Open(n)
    <3>1. CASE merges = 0
      BY <1>3, <2>2, <3>1, OpenInFile DEF Counted
    <3>2. CASE merges # 0
      BY <3>2 DEF Orderly, MergesOK
    <3>3. QED
      BY <3>1, <3>2
  <2>4. ASSUME merges = 0
        PROVE  (\A k \in Job : Merging(k)' => k = j) /\ MergeOK(j)'
    <3>1. \A k \in Job : Merging(k)' => k = j
      BY <1>5, <2>4 DEF Merging, Orderly, CountOK
    <3>2. \A n \in ChunksOf(meta)' : There(n)'
      <4>1. ChunksOf(meta)' = ChunksOf(meta)
        BY <1>2 DEF ChunksOf, Chunks, Shared
      <4>2. QED
        BY <1>2, <2>2, <2>4, <4>1 DEF Counted, There, Shared
    <3>3. MergeOK(j)'
      BY <1>5, <1>6, <1>15, <3>1, <3>2 DEF MergeOK
    <3>4. QED
      BY <3>1, <3>3
  <2>5. MergesOK'
    <3>1. \A n \in Index : ~Open(n)'
      BY <1>9, <2>3
    <3>2. merges' = 1 => merges = 0
      BY <1>12, <2>1
    <3>3. status' # "missing"
      BY <1>2 DEF Up
    <3>4. QED
      BY <2>4, <3>1, <3>2, <3>3 DEF MergesOK
  <2>6. CountOK'
    BY <1>12, <2>1 DEF CountOK
  <2>7. QED
    BY <1>5, <1>9, <1>10, <1>11, <1>15, <2>5, <2>6 DEF Orderly
<1>16. QED
  BY <1>14, <1>15

LEMMA SaveKeeps ==
  ASSUME TypeOK, Orderly, NEW j \in Job, Save(j)
  PROVE  Orderly'
<1> USE DEF disk, cluster, history, globals, OnlyJobs, SameDisk, SameGlobals
<1>1. CASE Test(j)
  BY <1>1, TestKeeps
<1>2. CASE SaveCut(j)
  <2>1. status' = "cut" /\ UNCHANGED <<globals, job, disk, mail, cluster, history>>
    BY <1>2 DEF SaveCut, End
  <2>2. QED
    BY <2>1, EndKeeps
<1>3. CASE \/ SaveCreate(j) \/ SaveCopy(j) \/ LoadBytes(j) \/ AddBytes(j)
           \/ LoadCount(j) \/ AddCount(j)
  <2>1. PICK g, i, x : g = job[j] /\ i = g.msg.i /\ x = <<folder_name, meta, i>>
    OBVIOUS
  <2>2. /\ Up /\ g # None /\ g.at \in EarlyPc /\ g.at \in SavePc
        /\ UNCHANGED <<status, Shared, mail, merges>>
    BY <1>3, <2>1
    DEF SaveCreate, SaveCopy, LoadBytes, AddBytes, LoadCount, AddCount, Load, At,
        EarlyPc, SavePc, Shared
  <2>3. /\ meta \in File /\ chunksReceived \in Nat /\ g \in Goroutine /\ i \in Index
        /\ g.msg.file = meta /\ g.msg.data = meta
        /\ g.at # "create" => g.folder = folder_name
    BY <2>1, <2>2, SavingFacts
  <2>4. /\ chunksReceived <= Cardinality(Counted)
        /\ g.at = "copy" => saved[x] # None
        /\ g.at \notin {"create", "copy"} => saved[x] = meta
    BY <2>1, <2>2, EarlyFacts DEF There
  <2>5. x \in DOMAIN saved /\ folder_name \in Folder
    BY <2>1, <2>3 DEF TypeOK
  <2>6. \A n \in Index : n # i => <<folder_name, meta, n>> # x
    BY <2>1
  <2>7. CASE SaveCreate(j)
    <3>1. PICK v : v = [g EXCEPT !.at = "copy", !.folder = folder_name]
      OBVIOUS
    <3>2. /\ job' = [job EXCEPT ![j] = v] /\ g.at = "create"
          /\ saved' = [saved EXCEPT ![x] = "torn"] /\ chunksReceived' = chunksReceived
      BY <2>1, <2>3, <2>7, <3>1 DEF SaveCreate, At
    <3>3. /\ v.at = "copy" /\ v.folder = folder_name /\ v.msg = g.msg /\ v # None
          /\ v.at \in SavePc \ {"create"}
      <4>1. v \in Goroutine
        BY <2>3, <2>5, <3>1 DEF Goroutine, Pc, SavePc
      <4>2. QED
        BY <2>3, <3>1, <4>1, NoneAssumption DEF Goroutine, SavePc
    <3>4. saved'[x] # None
      BY <2>5, <3>2, NoneAssumption DEF Data
    <3>5. \A n \in Index : n # i =>
            saved'[<<folder_name, meta, n>>] = saved[<<folder_name, meta, n>>]
      BY <2>6, <3>2
    <3>6. QED
      BY <2>1, <2>2, <3>2, <3>3, <3>4, <3>5, SaveStep
  <2>8. CASE SaveCopy(j)
    <3>1. PICK v : v = [g EXCEPT !.at = "loadBytes"]
      OBVIOUS
    <3>2. g.at = "copy" /\ ChunkFile(j) = x
      BY <2>1, <2>3, <2>8 DEF SaveCopy, At, ChunkFile
    <3>3. /\ job' = [job EXCEPT ![j] = v]
          /\ saved' = [saved EXCEPT ![x] = meta] /\ chunksReceived' = chunksReceived
      BY <2>1, <2>3, <2>4, <2>8, <3>1, <3>2 DEF SaveCopy, Goto
    <3>4. /\ v.at = "loadBytes" /\ v.folder = folder_name /\ v.msg = g.msg /\ v # None
          /\ v.at \in SavePc \ {"create"}
      <4>1. v \in Goroutine
        BY <2>3, <3>1 DEF Goroutine, Pc, SavePc
      <4>2. QED
        BY <2>3, <3>1, <3>2, <4>1, NoneAssumption DEF Goroutine, SavePc
    <3>5. saved'[x] = meta
      BY <2>5, <3>3
    <3>6. \A n \in Index : n # i =>
            saved'[<<folder_name, meta, n>>] = saved[<<folder_name, meta, n>>]
      BY <2>6, <3>3
    <3>7. QED
      BY <2>1, <2>2, <3>3, <3>4, <3>5, <3>6, SaveStep
  <2>9. CASE LoadBytes(j) \/ LoadCount(j)
    <3>1. PICK v : \/ v = [g EXCEPT !.at = "addBytes", !.loaded = receivedBytes]
                      /\ LoadBytes(j)
                   \/ v = [g EXCEPT !.at = "addCount", !.loaded = chunksReceived]
                      /\ LoadCount(j)
      BY <2>9
    <3>2. /\ job' = [job EXCEPT ![j] = v] /\ g.at \in {"loadBytes", "loadCount"}
          /\ UNCHANGED <<saved, chunksReceived>>
      BY <2>1, <3>1 DEF LoadBytes, LoadCount, Load, At
    <3>3. /\ v.at \in {"addBytes", "addCount"} /\ v.msg = g.msg
          /\ v.folder = folder_name /\ v # None
          /\ v.at = "addCount" => v.loaded = chunksReceived
      <4>1. v \in Goroutine
        BY <2>3, <3>1 DEF TypeOK, Goroutine, Pc, SavePc
      <4>2. QED
        BY <2>3, <3>1, <3>2, <4>1, NoneAssumption DEF Goroutine
    <3>4. v.at \in SavePc \ {"create"} /\ v.at # "copy"
      BY <3>3 DEF SavePc
    <3>5. saved'[x] = meta
      BY <2>4, <3>2
    <3>6. QED
      BY <2>1, <2>2, <2>3, <2>4, <3>2, <3>3, <3>4, <3>5, SaveStep
  <2>10. CASE AddBytes(j) \/ AddCount(j)
    <3>1. PICK v : \/ v = [g EXCEPT !.at = "loadCount"] /\ AddBytes(j)
                   \/ v = [g EXCEPT !.at = "test"] /\ AddCount(j)
      BY <2>10
    <3>2. /\ job' = [job EXCEPT ![j] = v] /\ g.at \in {"addBytes", "addCount"}
          /\ saved' = saved
      BY <2>1, <3>1 DEF AddBytes, AddCount, Goto, At
    <3>3. /\ v.at \in {"loadCount", "test"} /\ v.msg = g.msg
          /\ v.folder = folder_name /\ v # None
      <4>1. v \in Goroutine
        BY <2>3, <3>1 DEF Goroutine, Pc, SavePc
      <4>2. QED
        BY <2>3, <3>1, <3>2, <4>1, NoneAssumption DEF Goroutine
    <3>4. v.at \in SavePc \ {"create"} /\ v.at # "copy" /\ v.at # "addCount"
      BY <3>3 DEF SavePc
    <3>5. \/ chunksReceived' = chunksReceived
          \/ /\ g.at = "addCount" /\ v.at = "test"
             /\ chunksReceived' = g.loaded + 1
      BY <2>1, <2>3, <3>1 DEF AddBytes, AddCount, At, Goroutine
    <3>6. saved'[x] = meta
      BY <2>4, <3>2
    <3>7. QED
      BY <2>1, <2>2, <3>2, <3>3, <3>4, <3>5, <3>6, SaveStep
  <2>11. QED
    BY <1>3, <2>7, <2>8, <2>9, <2>10
<1>4. QED
  BY <1>1, <1>2, <1>3 DEF Save

-----------------------------------------------------------------------------
(* The chunks are merged. *)

LEMMA MergeFacts ==
  ASSUME TypeOK, Orderly, NEW j \in Job, job[j] # None, job[j].at \in MergePc
  PROVE  /\ merges # 0 /\ \A n \in Index : ~Open(n)
         /\ merges = 1 => MergeOK(j)
<1>1. merges # 0
  BY DEF Orderly, CountOK
<1>2. QED
  BY <1>1 DEF Orderly, MergesOK, Merging

LEMMA MergeStep ==
  ASSUME TypeOK, Orderly, NEW j \in Job, Up, job[j] # None, job[j].at \in MergePc,
         NEW v, v # None => v.at \in MergePc /\ v.msg = job[j].msg,
         job' = [job EXCEPT ![j] = v], UNCHANGED <<status, Shared, mail, merges>>,
         merges = 1 /\ v # None =>
           /\ v.at # "mergeCreate" /\ v.folder = folder_name /\ v.file = meta
           /\ merged'[<<folder_name, meta>>] # None
           /\ \A i \in ChunksOf(meta) : i >= v.i =>
                saved'[<<folder_name, meta, i>>] = meta
  PROVE  Orderly'
<1>1. job'[j] = v /\ \A k \in Job : k # j => job'[k] = job[k]
  BY DEF TypeOK
<1>2. InRead
  BY SavingFacts
<1>3. merges # 0 /\ (\A n \in Index : ~Open(n)) /\ (merges = 1 => MergeOK(j))
  BY MergeFacts
<1>4. MergePc \cap (UploadPc \cup SavePc \cup {"retrieve", "ask"}) = {}
      /\ MergePc \cap EarlyPc = {}
  BY DEF MergePc, UploadPc, SavePc, EarlyPc
<1>5. \A n : Fewer(n)
  BY <1>1, <1>4, JobFewer
<1>6. \A n \in Index : Once(n)' /\ (Open(n)' => Open(n))
  BY <1>5, FewerOnce DEF Orderly
<1>7. /\ \A f \in File : StoredOK(f)'
      /\ \A m \in mail' : MailOK(m)'
      /\ \A k \in Job : k # j /\ job'[k] # None => JobOK(k)'
  BY <1>1, <1>2, OthersOK
<1>8. v # None => JobOK(j)'
  <2>1. PICK m : m = job[j].msg
    OBVIOUS
  <2>2. ChunkOK(m)'
    BY <2>1 DEF Orderly, JobOK, ChunkOK, Reading, Shared
  <2>3. QED
    BY <1>1, <1>4, <2>1, <2>2 DEF JobOK, ChunkOK, Reading
<1>9. CountOK'
  BY <1>3 DEF CountOK
<1>10. MergesOK'
  <2>1. ASSUME merges = 1, NEW k \in Job, Merging(k)'
        PROVE  MergeOK(k)'
    <3>1. \A l \in Job : l # j => ~Merging(l)'
      BY <1>1, <1>3, <2>1 DEF Merging, MergeOK
    <3>2. k = j /\ v # None
      BY <1>1, <2>1, <3>1 DEF Merging
    <3>3. ChunksOf(meta)' = ChunksOf(meta)
      BY DEF ChunksOf, Chunks, Shared
    <3>4. \A i \in ChunksOf(meta)' : i >= v.i => There(i)'
      BY <2>1, <3>2, <3>3 DEF There, Shared
    <3>5. QED
      BY <1>1, <2>1, <3>1, <3>2, <3>4 DEF MergeOK, Shared
  <2>2. status' # "missing" /\ \A n \in Index : ~Open(n)'
    BY <1>3, <1>6 DEF Up
  <2>3. QED
    BY <2>1, <2>2 DEF MergesOK
<1>11. QED
  BY <1>1, <1>6, <1>7, <1>8, <1>9, <1>10 DEF Orderly

LEMMA MergeKeeps ==
  ASSUME TypeOK, Orderly, NEW j \in Job, Merge(j)
  PROVE  Orderly'
<1> USE DEF disk, cluster, history, globals, OnlyJobs, SameDisk, SameGlobals
<1>1. PICK g, x : g = job[j] /\ x = <<folder_name, meta>>
  OBVIOUS
<1>2. Up /\ g # None /\ g.at \in MergePc
  BY <1>1
  DEF Merge, MergeCreate, MergeOpen, MergeWrite, MergeEnd, MergeFails, At, MergePc
<1>3. /\ meta \in File /\ g \in Goroutine /\ GoroutineOK(g) /\ file_path.file = meta
      /\ folder_name \in Folder
  BY <1>1, <1>2, SavingFacts, JobFacts DEF TypeOK
<1>4. /\ merges # 0 /\ (merges = 1 => MergeOK(j))
      /\ g.i \in Nat /\ merges \in Nat
  BY <1>1, <1>2, <1>3, MergeFacts, IndexType, FS_CardinalityType DEF TypeOK, Goroutine
<1>5. /\ x \in DOMAIN merged /\ merged[x] \in {None} \cup SUBSET (Index \X Data)
      /\ {} # None
  BY <1>1, <1>3, NoneAssumption DEF TypeOK
<1>6. ASSUME merges = 1, g.at # "mergeCreate"
      PROVE  /\ g.folder = folder_name /\ g.file = meta /\ merged[x] # None
             /\ \A i \in ChunksOf(meta) : i >= g.i =>
                  saved[<<folder_name, meta, i>>] = meta
  BY <1>1, <1>4, <1>6 DEF MergeOK, There
<1>7. CASE MergeCreate(j)
  <2>1. PICK v : v = [g EXCEPT !.at = "mergeOpen", !.folder = folder_name,
                               !.file = file_path.file]
    OBVIOUS
  <2>2. /\ job' = [job EXCEPT ![j] = v] /\ g.at = "mergeCreate"
        /\ merged' = [merged EXCEPT ![x] = {}]
        /\ UNCHANGED <<status, Shared, mail, merges, saved>>
    BY <1>1, <1>3, <1>7, <2>1 DEF MergeCreate, At, Shared
  <2>3. /\ v.at = "mergeOpen" /\ v.folder = folder_name /\ v.file = meta
        /\ v.msg = g.msg /\ v.at \in MergePc
    BY <1>3, <2>1 DEF Goroutine, MergePc
  <2>4. merged'[x] # None
    BY <1>5, <2>2
  <2>5. merges = 1 =>
          \A i \in ChunksOf(meta) : saved'[<<folder_name, meta, i>>] = meta
    BY <1>1, <1>4, <2>2 DEF MergeOK, There
  <2>6. QED
    BY <1>1, <1>2, <2>2, <2>3, <2>4, <2>5, MergeStep
<1>8. CASE MergeOpen(j)
  <2>1. PICK v : v = [g EXCEPT !.at = "mergeWrite", !.data = saved[NextChunk(j)]]
    OBVIOUS
  <2>2. /\ job' = [job EXCEPT ![j] = v] /\ g.at = "mergeOpen"
        /\ UNCHANGED <<status, Shared, mail, merges, saved, merged>>
    BY <1>1, <1>8, <2>1 DEF MergeOpen, At, Shared
  <2>3. /\ v.at = "mergeWrite" /\ v.folder = g.folder /\ v.file = g.file
        /\ v.msg = g.msg /\ v.i = g.i /\ v.at \in MergePc
    BY <1>3, <2>1 DEF Goroutine, MergePc
  <2>4. QED
    BY <1>1, <1>2, <1>6, <2>2, <2>3, MergeStep
<1>9. CASE MergeWrite(j)
  <2>1. PICK v, y, c : /\ v = [g EXCEPT !.at = "mergeOpen", !.i = @ + 1]
                       /\ y = <<g.folder, g.file>> /\ c = <<folder_name, g.file, g.i>>
    OBVIOUS
  <2>2. /\ job' = [job EXCEPT ![j] = v] /\ g.at = "mergeWrite"
        /\ UNCHANGED <<status, Shared, mail, merges>>
        /\ saved' = [saved EXCEPT ![c] = None]
        /\ merged' = IF merged[y] = None THEN merged
                     ELSE [merged EXCEPT ![y] = @ \cup {<<g.i, g.data>>}]
    BY <1>1, <1>9, <2>1 DEF MergeWrite, At, Shared, NextChunk
  <2>3. /\ v.at = "mergeOpen" /\ v.folder = g.folder /\ v.file = g.file
        /\ v.msg = g.msg /\ v.i = g.i + 1 /\ v.at \in MergePc
    BY <1>3, <2>1 DEF Goroutine, MergePc
  <2>4. g.i \in Index /\ g.data \in Data
    BY <1>3, <2>2 DEF GoroutineOK
  <2>5. ASSUME merges = 1
        PROVE  merged'[x] # None
    <3>1. y = x /\ merged[x] # None /\ merged[x] \in SUBSET (Index \X Data)
      BY <1>1, <1>5, <1>6, <2>1, <2>2, <2>5
    <3>2. merged'[x] = merged[x] \cup {<<g.i, g.data>>}
      BY <1>5, <2>2, <3>1
    <3>3. merged'[x] \in SUBSET (Index \X Data)
      BY <2>4, <3>1, <3>2
    <3>4. QED
      BY <3>3, NoneAssumption
  <2>6. ASSUME merges = 1, NEW i \in ChunksOf(meta), i >= v.i
        PROVE  saved'[<<folder_name, meta, i>>] = meta
    <3>1. i \in Nat /\ i >= g.i /\ i # g.i
      <4>1. i \in Nat
        BY <1>3, <2>6, IndexType
      <4>2. QED
        BY <1>4, <2>3, <2>6, <4>1
    <3>2. saved[<<folder_name, meta, i>>] = meta
      BY <1>6, <2>2, <2>6, <3>1
    <3>3. <<folder_name, meta, i>> # c
      BY <2>1, <3>1
    <3>4. i \in Index
      BY <1>3, <2>6, IndexType
    <3>5. <<folder_name, meta, i>> \in DOMAIN saved
      BY <1>3, <3>4 DEF TypeOK
    <3>6. QED
      BY <2>2, <3>2, <3>3, <3>5
  <2>7. QED
    BY <1>1, <1>2, <1>6, <2>2, <2>3, <2>5, <2>6, MergeStep
<1>10. CASE MergeEnd(j)
  <2>1. /\ job' = [job EXCEPT ![j] = None]
        /\ UNCHANGED <<status, Shared, mail, merges>>
    BY <1>10 DEF MergeEnd, Return, Shared
  <2>2. QED
    BY <1>1, <1>2, <2>1, MergeStep
<1>11. CASE MergeFails(j)
  <2>1. /\ g.at = "mergeOpen" /\ status' = "missing"
        /\ UNCHANGED <<globals, job, disk, mail, cluster, history>>
    BY <1>1, <1>11 DEF MergeFails, At, End
  <2>2. ASSUME merges = 1
        PROVE  FALSE
    <3>1. CASE MoreToMerge(j)
      <4>1. g.i \in ChunksOf(meta) /\ NextChunk(j) = <<folder_name, meta, g.i>>
        BY <1>1, <1>3, <1>4, <1>6, <2>1, <2>2, <3>1, NumberOfChunks
        DEF MoreToMerge, ChunksOf, NextChunk
      <4>2. saved[NextChunk(j)] = meta
        BY <1>4, <1>6, <2>1, <2>2, <4>1
      <4>3. g.i \in Index
        BY <1>3, <4>1, IndexType
      <4>4. NextChunk(j) \in DOMAIN saved /\ meta # None
        BY <1>3, <4>1, <4>3, ClientAssumption DEF TypeOK
      <4>5. QED
        BY <1>11, <3>1, <4>2, <4>4 DEF MergeFails
    <3>2. CASE ~MoreToMerge(j)
      BY <1>1, <1>6, <1>11, <2>1, <2>2, <3>2 DEF MergeFails
    <3>3. QED
      BY <3>1, <3>2
  <2>3. merges > 1
    BY <1>4, <2>2
  <2>4. QED
    BY <2>1, <2>3, EndKeeps
<1>12. QED
  BY <1>7, <1>8, <1>9, <1>10, <1>11 DEF Merge

-----------------------------------------------------------------------------
(* All steps. *)

LEMMA NextInv == ClientInv /\ [Next]_vars => ClientInv'
<1> SUFFICES ASSUME ClientInv, [Next]_vars, ~crossed'
             PROVE  Orderly'
  BY NextType DEF ClientInv
<1>1. ~crossed
  <2>1. CASE Command
    BY <2>1 DEF Command, Write, Read, Delete, ListFolder, Typed
  <2>2. CASE ~Command
    BY <2>2 DEF Next, Serve, Upload, UploadOpen, UploadOpenFails, UploadSend,
       UploadFails, UploadEnd, Retrieve, RetrieveStart, Ask, AskFails, AskNoReplica,
       AskEnd, Save, SaveCreate, SaveCopy, SaveCut, LoadBytes, AddBytes, LoadCount,
       AddCount, Load, Test, Merge, MergeCreate, MergeOpen, MergeWrite, MergeEnd,
       MergeFails, Receive, Lose, OnlyJobs, history, vars
  <2>3. QED
    BY <2>1, <2>2
<1>2. TypeOK /\ Orderly
  BY <1>1 DEF ClientInv
<1>3. CASE UNCHANGED vars
  <2>1. status' = "missing" => merges > 1
    BY <1>2, <1>3 DEF vars, Orderly, MergesOK
  <2>2. QED
    BY <1>2, <1>3, <2>1, EndKeeps DEF vars
<1>4. CASE Next
  BY <1>2, <1>4, CommandKeeps, ReceiveKeeps, UploadKeeps, RetrieveKeeps, SaveKeeps,
     MergeKeeps, LoseKeeps DEF Next, Serve
<1>5. QED
  BY <1>3, <1>4

LEMMA InitInv == Init => ClientInv
<1> SUFFICES ASSUME Init PROVE ClientInv
  OBVIOUS
<1>1. mail = {} /\ status = "up" /\ merges = 0 /\ \A j \in Job : job[j] = None
  BY DEF Init
<1>2. ASSUME NEW f \in File
      PROVE  StoredOK(f)
  <2>1. stored[f] = {} /\ 0 \in 0 .. Chunks(f)
    BY NumberOfChunks DEF Init
  <2>2. stored[f] = (0 .. 0 - 1) \X {f}
    BY <2>1
  <2>3. QED
    BY <2>1, <2>2 DEF StoredOK
<1>3. \A i : Once(i)
  BY <1>1 DEF Once, Asking, Saving, Coming
<1>4. CountOK /\ MergesOK
  BY <1>1 DEF CountOK, MergesOK
<1>5. QED
  BY <1>1, <1>2, <1>3, <1>4, InitType DEF ClientInv, Orderly

LEMMA AlwaysOrderly == Spec => []ClientInv
BY InitInv, NextInv, PTL DEF Spec

\* While each command is carried out before the next is typed, what the storage
\* nodes have of a file is its own data, in order and without a gap, whatever fails
\* (client.go:109-206, sendFileDataToStorageNodes).
THEOREM UploadedInOrder == Spec => []StoredInOrder
<1>1. ClientInv => StoredInOrder
  BY DEF ClientInv, Orderly, StoredOK, StoredInOrder
<1>2. QED
  BY <1>1, AlwaysOrderly, PTL

\* The first goroutine that finds the counters complete merges chunks that are all
\* on disk, whole, where mergeChunks looks for them: increments of chunksReceived
\* that get lost make it too low, never too high (client.go:245-315).
THEOREM MergedWhole == Spec => []MergesWhole
<1>1. ASSUME ClientInv, ~crossed, NEW j \in Job, At(j, "mergeCreate"), merges = 1,
             NEW i \in ChunksOf(meta)
      PROVE  saved[<<folder_name, file_path.file, i>>] = meta
  <2>1. TypeOK /\ Orderly /\ job[j] # None /\ job[j].at = "mergeCreate"
    BY <1>1 DEF ClientInv, At
  <2>2. job[j].at \in MergePc
    BY <2>1 DEF MergePc
  <2>3. MergeOK(j) /\ file_path.file = meta
    BY <1>1, <2>1, <2>2, MergeFacts, SavingFacts
  <2>4. QED
    BY <1>1, <2>1, <2>3 DEF MergeOK, There
<1>2. ClientInv => MergesWhole
  BY <1>1 DEF MergesWhole
<1>3. QED
  BY <1>2, AlwaysOrderly, PTL

\* So mergeChunks misses a file, and the client ends, only if a second goroutine has
\* found the counters complete as well (client.go:408-479).
THEOREM MissingSecondTime == Spec => []MissingOnlyTwice
<1>1. ClientInv => MissingOnlyTwice
  BY DEF ClientInv, Orderly, MergesOK, MissingOnlyTwice
<1>2. QED
  BY <1>1, AlwaysOrderly, PTL

=============================================================================
