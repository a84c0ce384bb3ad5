------------------------------- MODULE Client -------------------------------
(***************************************************************************)
(* hdfs/client/client.go: commands set global variables and send a request *)
(* to the controller; goroutines serve what comes back, the locations of   *)
(* an upload or of a read, or one chunk of a file being read, and use the  *)
(* same variables, without a lock.  The goroutine that finds all chunks    *)
(* counted merges them.                                                    *)
(*                                                                         *)
(* The controller and the storage nodes are what the client sees of them.  *)
(* A chunk's content is the file whose data it is.                         *)
(***************************************************************************)
EXTENDS Integers, FiniteSets, Functions

CONSTANTS
  File,        \* file names, without extension
  Size,        \* size of each file
  ChunkSize,   \* size of each chunk but the last
  Folder,      \* folder names
  Root,        \* the folder used before any is named
  Job,         \* bound: slots for connections served at the same time
  MaxCommands, \* bound: commands typed
  Crossing,    \* bound: and if one does not wait for those before it
  None

ASSUME ClientAssumption ==
  /\ IsFiniteSet(File)
  /\ Size \in [File -> Nat]
  /\ ChunkSize \in Nat \ {0}
  /\ Root \in Folder
  /\ Job \subseteq Nat
  /\ MaxCommands \in Nat
  /\ Crossing \in Nat
  /\ None \notin File \cup Folder

\* math.Ceil of the quotient.
Chunks(f) == (Size[f] + ChunkSize - 1) \div ChunkSize
ChunksOf(f) == 0 .. Chunks(f) - 1
Index == UNION {ChunksOf(f) : f \in File}

\* The bytes io.CopyN gets for chunk i of f: fewer than ChunkSize at the end.
Bytes(f, i) == LET left == Size[f] - i * ChunkSize
               IN IF left > ChunkSize THEN ChunkSize ELSE IF left > 0 THEN left ELSE 0

VARIABLES
  status,          \* "up", or why the process ended
  file_path,       \* the file last named, and whether by a path to it (write)
  folder_name,
  meta,            \* the file that totalNumberOfChunks, fileCheckSum and
                   \* fileSize are of
  chunksReceived,
  receivedBytes,
  job,             \* goroutines that serve connections
  saved,           \* chunk files: <<folder, file, number>> -> whose data
  merged,          \* merged files: <<folder, file>> -> the chunks written
  mail,            \* answers on their way to the client
  names,           \* controller: file -> its folder
  stored,          \* storage nodes: file -> <<number, whose data>>
  commands,        \* history: commands typed so far
  crossed,         \* history: one was typed while another was carried out
  merges,          \* history: mergeChunks calls since the last read started
  faults           \* history: what went wrong around the client

globals == <<file_path, folder_name, meta, chunksReceived, receivedBytes>>
disk    == <<saved, merged>>
cluster == <<names, stored>>
history == <<commands, crossed, merges, faults>>
vars    == <<status, globals, job, disk, mail, cluster, history>>

Data == File \cup {"torn"}

Message == [type : {"write"}, file : File, no : Nat] \cup
           [type : {"read"}, file : File, no : Nat, folder : Folder,
            have : SUBSET Index] \cup
           [type : {"chunk"}, file : File, no : Nat, i : Index, data : File]

UploadPc == {"open", "send"}
SavePc   == {"create", "copy", "loadBytes", "addBytes", "loadCount", "addCount",
             "test"}
MergePc  == {"mergeCreate", "mergeOpen", "mergeWrite"}
Pc       == UploadPc \cup {"retrieve", "ask"} \cup SavePc \cup MergePc

\* A goroutine: the file it has open, the folder it saves to or merges in, its
\* loop counter, the chunks it has yet to ask for, what it has loaded.
Goroutine == [at : Pc, msg : Message, file : File \cup {None},
              folder : Folder \cup {None}, i : 0 .. Cardinality(Index),
              left : SUBSET Index, loaded : Nat, data : Data \cup {None}]

ASSUME NoneAssumption ==
  None \notin Goroutine \cup Data /\ \A S \in SUBSET (Index \X Data) : S # None

\* What a goroutine serves, and what it has at hand, is what it needs where it is.
GoroutineOK(g) ==
  /\ g \in Goroutine
  /\ g.at \in UploadPc <=> g.msg.type = "write"
  /\ g.at \in {"retrieve", "ask"} <=> g.msg.type = "read"
  /\ g.at = "send" => g.file \in File
  /\ g.at \in (SavePc \cup MergePc) \ {"create"} => g.folder \in Folder
  /\ g.at = "mergeWrite" => g.i \in Index /\ g.data \in Data

TypeOK ==
  /\ status \in {"up", "missing", "noReplica", "cut"}
  /\ file_path \in [file : File \cup {None}, local : BOOLEAN]
  /\ file_path.local => file_path.file \in File
  /\ folder_name \in Folder
  /\ meta \in File \cup {None}
  /\ chunksReceived \in Nat /\ receivedBytes \in Nat
  /\ job \in [Job -> Goroutine \cup {None}]
  /\ \A j \in Job : job[j] # None => GoroutineOK(job[j])
  /\ saved \in [Folder \X File \X Index -> Data \cup {None}]
  /\ merged \in [Folder \X File -> {None} \cup SUBSET (Index \X Data)]
  /\ \A m \in mail : m \in Message
  /\ names \in [File -> Folder \cup {None}]
  /\ stored \in [File -> SUBSET (Index \X File)]
  /\ commands \in Nat
  /\ crossed \in BOOLEAN
  /\ merges \in Nat
  /\ faults \subseteq {"down", "silent", "race"}

-----------------------------------------------------------------------------
Up == status = "up"
At(j, l) == Up /\ job[j] # None /\ job[j].at = l
Goto(j, l) == job' = [job EXCEPT ![j].at = l]
Return(j) == job' = [job EXCEPT ![j] = None]
End(cause) == status' = cause
Fault(kind) == faults' = faults \cup {kind}

Idle == mail = {} /\ \A j \in Job : job[j] = None

\* What steps that leave the disk, or the globals, alone have in common.
OnlyJobs    == UNCHANGED <<status, mail, cluster, commands, crossed>>
SameDisk    == UNCHANGED <<disk, merges>>
SameGlobals == UNCHANGED globals

-----------------------------------------------------------------------------
(* getUserInput, with what the controller makes of the request. *)

Typed ==
  /\ Up
  /\ commands < IF Idle /\ ~crossed THEN MaxCommands ELSE Crossing
  /\ commands' = commands + 1
  /\ crossed' = (crossed \/ ~Idle)

\* /write: the controller refuses a name it has.
Write(f, folder) ==
  /\ Typed
  /\ file_path' = [file |-> f, local |-> TRUE]
  /\ folder_name' = folder
  /\ IF names[f] = None
     THEN /\ names' = [names EXCEPT ![f] = folder]
          /\ mail' = mail \cup {[type |-> "write", file |-> f, no |-> commands]}
     ELSE UNCHANGED <<names, mail>>
  /\ UNCHANGED <<status, meta, chunksReceived, receivedBytes, job, disk, stored,
                 merges, faults>>

\* /read: with the locations of the chunks that nodes have reported.
Read(f) ==
  /\ Typed
  /\ file_path' = [file |-> f, local |-> FALSE]
  /\ \E C \in SUBSET {i \in Index : \E g \in File : <<i, g>> \in stored[f]} :
       mail' = IF names[f] = None THEN mail
               ELSE mail \cup {[type |-> "read", file |-> f, no |-> commands,
                                folder |-> names[f], have |-> C]}
  /\ UNCHANGED <<status, folder_name, meta, chunksReceived, receivedBytes, job,
                 disk, cluster, merges, faults>>

Delete(f) ==
  /\ Typed
  /\ file_path' = [file |-> f, local |-> FALSE]
  /\ names' = [names EXCEPT ![f] = None]
  /\ stored' = [stored EXCEPT ![f] = {}]
  /\ UNCHANGED <<status, folder_name, meta, chunksReceived, receivedBytes, job,
                 disk, mail, merges, faults>>

\* /ls: the folder it names becomes the folder files are saved in.
ListFolder(folder) ==
  /\ Typed
  /\ folder_name' = folder
  /\ UNCHANGED <<status, file_path, meta, chunksReceived, receivedBytes, job,
                 disk, mail, cluster, merges, faults>>

\* handleClientRequest, a goroutine for each connection.
First == [write |-> "open", read |-> "retrieve", chunk |-> "create"]

Receive(j, m) ==
  /\ Up
  /\ m \in mail
  /\ job[j] = None /\ \A i \in Job : i < j => job[i] # None
  /\ mail' = mail \ {m}
  /\ job' = [job EXCEPT ![j] = [at |-> First[m.type], msg |-> m, file |-> None,
                                folder |-> None, i |-> 0, left |-> {},
                                loaded |-> 0, data |-> None]]
  /\ UNCHANGED <<status, globals, disk, cluster, history>>

-----------------------------------------------------------------------------
(* Upload: sendFileDataToStorageNodes. *)

\* The file is the one that file_path names by now; log.Fatalln without one.
UploadOpen(j) ==
  /\ At(j, "open")
  /\ file_path.local
  /\ job' = [job EXCEPT ![j].at = "send", ![j].file = file_path.file]
  /\ SameGlobals /\ SameDisk /\ OnlyJobs /\ UNCHANGED faults

UploadOpenFails(j) ==
  /\ At(j, "open")
  /\ ~file_path.local
  /\ End("missing")
  /\ UNCHANGED <<globals, job, disk, mail, cluster, history>>

MoreToSend(j) == job[j].i < Chunks(job[j].msg.file)

\* io.EOF ends the loop after the chunk that came short.
UploadSend(j) ==
  LET f == job[j].msg.file g == job[j].file i == job[j].i
  IN /\ At(j, "send") /\ MoreToSend(j)
     /\ stored' = [stored EXCEPT ![f] = @ \cup {<<i, g>>}]
     /\ IF Bytes(g, i) < ChunkSize THEN Return(j)
        ELSE job' = [job EXCEPT ![j].i = i + 1]
     /\ SameGlobals /\ SameDisk
     /\ UNCHANGED <<status, mail, names, commands, crossed, faults>>

UploadSkips(j) ==  \* mutant: the loop goes on with the next chunk
  /\ At(j, "send") /\ MoreToSend(j)
  /\ Fault("down")
  /\ job' = [job EXCEPT ![j].i = @ + 1]
  /\ SameGlobals /\ SameDisk /\ OnlyJobs

\* The chunk's first node cannot be dialled.
UploadFails(j) ==
  /\ At(j, "send") /\ MoreToSend(j)
  /\ Fault("down")
  /\ Return(j)
  /\ SameGlobals /\ SameDisk /\ OnlyJobs

UploadEnd(j) ==
  /\ At(j, "send") /\ ~MoreToSend(j)
  /\ Return(j)
  /\ SameGlobals /\ SameDisk /\ OnlyJobs /\ UNCHANGED faults

-----------------------------------------------------------------------------
(* Read: retrieveChunkDataFromStorageNodes. *)

LocatedLast(m) == m.have \cup {Chunks(m.file)}  \* mutant: one too many

\* The locations of the chunks that have nodes.
Located(m) == m.have

RetrieveStart(j) ==
  /\ At(j, "retrieve")
  /\ meta' = job[j].msg.file
  /\ folder_name' = job[j].msg.folder
  /\ receivedBytes' = 0
  /\ chunksReceived' = 0
  /\ job' = [job EXCEPT ![j].at = "ask", ![j].left = Located(job[j].msg)]
  /\ merges' = 0
  /\ UNCHANGED <<file_path, disk, faults>>
  /\ OnlyJobs

\* A node is asked for a chunk, and sends it in time, or never.
Ask(j, i) ==
  LET m == job[j].msg
  IN /\ At(j, "ask") /\ i \in job[j].left
     /\ job' = [job EXCEPT ![j].left = @ \ {i}]
     /\ \E g \in {h \in File : <<i, h>> \in stored[m.file]} :
          mail' = mail \cup {[type |-> "chunk", file |-> m.file, no |-> m.no,
                              i |-> i, data |-> g]}
     /\ SameGlobals /\ SameDisk
     /\ UNCHANGED <<status, cluster, commands, crossed, faults>>

\* Replicas[0] cannot be dialled.
AskFails(j) ==
  /\ At(j, "ask") /\ job[j].left # {}
  /\ Fault("down")
  /\ Return(j)
  /\ SameGlobals /\ SameDisk /\ OnlyJobs

\* A chunk nobody has reported is a location without replicas: the controller
\* fills in the others first.
AskNoReplica(j) ==
  /\ At(j, "ask") /\ job[j].left = {}
  /\ Cardinality(job[j].msg.have) < Chunks(job[j].msg.file)
  /\ End("noReplica")
  /\ UNCHANGED <<globals, job, disk, mail, cluster, history>>

AskEnd(j) ==
  /\ At(j, "ask") /\ job[j].left = {}
  /\ Cardinality(job[j].msg.have) >= Chunks(job[j].msg.file)
  /\ Return(j)
  /\ SameGlobals /\ SameDisk /\ OnlyJobs /\ UNCHANGED faults

-----------------------------------------------------------------------------
(* A chunk arrives: saveChunkInfoToDisk, then the test. *)

ChunkFile(j) == <<job[j].folder, job[j].msg.file, job[j].msg.i>>

SaveCreateEarly(j) ==  \* mutant: counts the chunk before it is there
  /\ At(j, "create")
  /\ saved' = [saved EXCEPT ![<<folder_name, job[j].msg.file, job[j].msg.i>>] = "torn"]
  /\ job' = [job EXCEPT ![j].at = "loadBytes", ![j].folder = folder_name]
  /\ SameGlobals /\ OnlyJobs /\ UNCHANGED <<merged, merges, faults>>

SaveCreate(j) ==
  /\ At(j, "create")
  /\ saved' = [saved EXCEPT ![<<folder_name, job[j].msg.file, job[j].msg.i>>] = "torn"]
  /\ job' = [job EXCEPT ![j].at = "copy", ![j].folder = folder_name]
  /\ SameGlobals /\ OnlyJobs /\ UNCHANGED <<merged, merges, faults>>

\* The name may have been removed meanwhile by a merge.
SaveCopy(j) ==
  /\ At(j, "copy")
  /\ saved' = IF saved[ChunkFile(j)] = None THEN saved
              ELSE [saved EXCEPT ![ChunkFile(j)] = job[j].msg.data]
  /\ Goto(j, "loadBytes")
  /\ SameGlobals /\ OnlyJobs /\ UNCHANGED <<merged, merges, faults>>

\* The node is gone in the middle of the chunk: HandleError.
SaveCut(j) ==
  /\ At(j, "copy")
  /\ End("cut")
  /\ UNCHANGED <<globals, job, disk, mail, cluster, history>>

\* receivedBytes += and chunksReceived++ are loads and stores of two variables
\* that other goroutines load and store.
Load(j, value, next) ==
  /\ job' = [job EXCEPT ![j].at = next, ![j].loaded = value]
  /\ SameGlobals /\ SameDisk /\ OnlyJobs /\ UNCHANGED faults

LoadBytes(j) == At(j, "loadBytes") /\ Load(j, receivedBytes, "addBytes")
LoadCount(j) == At(j, "loadCount") /\ Load(j, chunksReceived, "addCount")

\* Another goroutine has stored in between: what it added is lost.
Raced(j, value) == IF job[j].loaded # value THEN Fault("race") ELSE UNCHANGED faults

AddBytes(j) ==
  /\ At(j, "addBytes")
  /\ receivedBytes' = job[j].loaded + Bytes(job[j].msg.data, job[j].msg.i)
  /\ Raced(j, receivedBytes)
  /\ Goto(j, "loadCount")
  /\ UNCHANGED <<file_path, folder_name, meta, chunksReceived>>
  /\ SameDisk /\ OnlyJobs

AddCountNone(j) ==  \* mutant: bytes only
  /\ At(j, "addCount")
  /\ Goto(j, "test")
  /\ SameGlobals /\ SameDisk /\ OnlyJobs /\ UNCHANGED faults

AddCount(j) ==
  /\ At(j, "addCount")
  /\ chunksReceived' = job[j].loaded + 1
  /\ Raced(j, chunksReceived)
  /\ Goto(j, "test")
  /\ UNCHANGED <<file_path, folder_name, meta, receivedBytes>>
  /\ SameDisk /\ OnlyJobs

Complete == chunksReceived = Chunks(meta) /\ receivedBytes = Size[meta]

Test(j) ==
  /\ At(j, "test")
  /\ IF meta # None /\ Complete
     THEN Goto(j, "mergeCreate") /\ merges' = merges + 1
     ELSE Return(j) /\ UNCHANGED merges
  /\ SameGlobals /\ OnlyJobs /\ UNCHANGED <<disk, faults>>

-----------------------------------------------------------------------------
(* mergeChunks, which looks at the globals again at every turn. *)

MergeCreate(j) ==
  /\ At(j, "mergeCreate")
  /\ merged' = [merged EXCEPT ![<<folder_name, file_path.file>>] = {}]
  /\ job' = [job EXCEPT ![j].at = "mergeOpen", ![j].folder = folder_name,
                        ![j].file = file_path.file]
  /\ SameGlobals /\ OnlyJobs /\ UNCHANGED <<saved, merges, faults>>

NextChunk(j) == <<folder_name, job[j].file, job[j].i>>

MoreToMergeLast(j) == job[j].i <= Chunks(meta)  \* mutant: one too many
MoreToMerge(j) == job[j].i < Chunks(meta)

MergeOpen(j) ==
  /\ At(j, "mergeOpen") /\ MoreToMerge(j)
  /\ NextChunk(j) \in DOMAIN saved /\ saved[NextChunk(j)] # None
  /\ job' = [job EXCEPT ![j].at = "mergeWrite", ![j].data = saved[NextChunk(j)]]
  /\ SameGlobals /\ SameDisk /\ OnlyJobs /\ UNCHANGED faults

\* Into the merged file, if it still has its name; then the chunk is removed.
MergeWrite(j) ==
  LET x == <<job[j].folder, job[j].file>>
  IN /\ At(j, "mergeWrite")
     /\ merged' = IF merged[x] = None THEN merged
                  ELSE [merged EXCEPT ![x] = @ \cup {<<job[j].i, job[j].data>>}]
     /\ saved' = [saved EXCEPT ![NextChunk(j)] = None]
     /\ job' = [job EXCEPT ![j].at = "mergeOpen", ![j].i = @ + 1]
     /\ SameGlobals /\ OnlyJobs /\ UNCHANGED <<merges, faults>>

WholeFile(f) == ChunksOf(f) \X {f}

\* ValidateFile with fileCheckSum; a file it finds corrupted is removed.
MergeEnd(j) ==
  LET x == <<job[j].folder, job[j].file>>
  IN /\ At(j, "mergeOpen") /\ ~MoreToMerge(j)
     /\ merged[x] # None
     /\ merged' = IF merged[x] = WholeFile(meta) THEN merged
                  ELSE [merged EXCEPT ![x] = None]
     /\ Return(j)
     /\ SameGlobals /\ OnlyJobs /\ UNCHANGED <<saved, merges, faults>>

\* HandleError: a chunk file, or in the end the merged file, is not there.
MergeFails(j) ==
  /\ At(j, "mergeOpen")
  /\ IF MoreToMerge(j)
     THEN NextChunk(j) \notin DOMAIN saved \/ saved[NextChunk(j)] = None
     ELSE merged[<<job[j].folder, job[j].file>>] = None
  /\ End("missing")
  /\ UNCHANGED <<globals, job, disk, mail, cluster, history>>

-----------------------------------------------------------------------------
\* A node or the controller never answers.
Lose(m) ==
  /\ Up
  /\ m \in mail
  /\ mail' = mail \ {m}
  /\ Fault("silent")
  /\ UNCHANGED <<status, globals, job, disk, cluster, commands, crossed, merges>>

Init ==
  /\ status = "up"
  /\ file_path = [file |-> None, local |-> FALSE]
  /\ folder_name = Root
  /\ meta = None
  /\ chunksReceived = 0
  /\ receivedBytes = 0
  /\ job = [j \in Job |-> None]
  /\ saved = [x \in Folder \X File \X Index |-> None]
  /\ merged = [x \in Folder \X File |-> None]
  /\ mail = {}
  /\ names = [f \in File |-> None]
  /\ stored = [f \in File |-> {}]
  /\ commands = 0
  /\ crossed = FALSE
  /\ merges = 0
  /\ faults = {}

Command == \/ \E f \in File : \/ Read(f) \/ Delete(f)
                              \/ \E folder \in Folder : Write(f, folder)
           \/ \E folder \in Folder : ListFolder(folder)

Upload(j)   == \/ UploadOpen(j) \/ UploadOpenFails(j) \/ UploadSend(j)
               \/ UploadFails(j) \/ UploadEnd(j)
Retrieve(j) == \/ RetrieveStart(j) \/ AskFails(j) \/ AskNoReplica(j) \/ AskEnd(j)
               \/ \E i \in Index : Ask(j, i)
Save(j)     == \/ SaveCreate(j) \/ SaveCopy(j) \/ SaveCut(j) \/ LoadBytes(j)
               \/ AddBytes(j) \/ LoadCount(j) \/ AddCount(j) \/ Test(j)
Merge(j)    == \/ MergeCreate(j) \/ MergeOpen(j) \/ MergeWrite(j)
               \/ MergeEnd(j) \/ MergeFails(j)

Serve(j) == Upload(j) \/ Retrieve(j) \/ Save(j) \/ Merge(j)

Next == \/ Command
        \/ \E j \in Job : Serve(j) \/ \E m \in mail : Receive(j, m)
        \/ \E m \in mail : Lose(m)

Spec == Init /\ [][Next]_vars

\* Goroutines run, and connections are accepted.
FairSpec == /\ Spec
            /\ \A j \in Job : WF_vars(Serve(j))
            /\ WF_vars(\E j \in Job, m \in mail : Receive(j, m))
-----------------------------------------------------------------------------
(* Properties, while each command is carried out before the next is typed. *)

\* What storage nodes have of a file is its own data, without a gap before the
\* last chunk: a first node that is down ends the upload.
StoredInOrder ==
  ~crossed => \A f \in File : \E n \in 0 .. Chunks(f) :
                stored[f] = (0 .. n - 1) \X {f}

\* Chunks are merged only once all of them are on disk, whole, in the folder and
\* under the name that mergeChunks looks for: a count may get lost, but none is
\* ever too high.
MergesWhole ==
  ~crossed => \A j \in Job : At(j, "mergeCreate") /\ merges = 1 =>
                \A i \in ChunksOf(meta) :
                  saved[<<folder_name, file_path.file, i>>] = meta

\* The client ends for want of a chunk file only if two goroutines have both seen
\* the counters complete.
MissingOnlyTwice == ~crossed /\ status = "missing" => merges > 1

\* A file read whose chunks have all been reported ...
ReadOf(f, folder) ==
  \E m \in mail : /\ m.type = "read" /\ m.file = f /\ m.folder = folder
                  /\ m.have = ChunksOf(f) /\ m.have # {}

\* ... is merged whole, unless a node fails, a count is lost, or the chunks are
\* merged twice.
Retrieved ==
  \A f \in File, folder \in Folder :
    ReadOf(f, folder) ~> \/ merged[<<folder, f>>] = WholeFile(f)
                         \/ ~Up \/ crossed \/ faults # {} \/ merges > 1

=============================================================================
