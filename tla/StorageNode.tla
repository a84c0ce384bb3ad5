---------------------------- MODULE StorageNode ----------------------------
(***************************************************************************)
(* hdfs/nodes/storagenode.go on every storage node, with the messages they *)
(* exchange.  A goroutine serves each connection; between two of its steps *)
(* another one, the heartbeat loop or the end of the process can come in.  *)
(* The client and the controller are what the nodes see of them: uploads,  *)
(* reads, deletes, orders to fetch a chunk, and the controller's list of   *)
(* who has reported a chunk.                                               *)
(*                                                                         *)
(* A chunk has one content.  A data file holds all of it ("whole") or not  *)
(* ("torn": not yet written, cut off, or damaged on disk).                 *)
(***************************************************************************)
EXTENDS Integers, Sequences, FiniteSets, Functions

CONSTANTS
  Node,        \* addresses of storage nodes
  Chunk,       \* chunk file names
  Job,         \* bound: slots for connections served at the same time
  Word,        \* receivedChunks counts modulo Word (2^64 in the code)
  Limit,       \* bound: how often each thing outside the nodes happens,
  Total,       \* ... and how many of them altogether
  Overlap,     \* may a request for a chunk come while another is served?
  Prompt,      \* is a repair over within the five seconds it is given?
  Client, Controller, None

Outside == {"write", "delete", "read", "order", "kill", "damage", "cut",
            "offline"}

ASSUME NodeAssumption ==
  /\ Job \subseteq Nat
  /\ Word \in Nat \ {0}
  /\ Limit \in [Outside -> Nat]
  /\ Total \in Nat
  /\ Overlap \in BOOLEAN /\ Prompt \in BOOLEAN
  /\ IsFiniteSet(Node)
  /\ Client \notin Node /\ Controller \notin Node /\ None \notin Node
  /\ Client # Controller

VARIABLES
  status,    \* node -> "up", or why its process ended
  meta,      \* node -> chunk -> what its ChunkMetaData file holds
  data,      \* node -> chunk -> what its ChunkData file holds
  received,  \* node -> receivedChunks
  job,       \* the goroutines that serve connections
  beat,      \* node -> the heartbeat it is gathering
  mail,      \* messages sent and not yet taken up by a goroutine
  located,   \* chunk -> nodes fileChunkMap has for it (controller)
  answered,  \* history: what clients were sent, per chunk
  used,      \* history: how often each thing of Outside has happened
  ended,     \* history: nodes whose process has ended before
  doomed,    \* history: chunk -> nodes its last request named, if that was a delete
             \*   and no node that was up could not be dialled
  crossed,   \* history: chunks a request came for while another was served
  storing,   \* history: <<chunk, node>> named by an upload or an order
  deleting   \* history: <<chunk, node>> named by a delete

files    == <<meta, data>>
history  == <<used, ended, doomed, crossed, storing, deleting>>
vars     == <<status, files, received, job, beat, mail, located, answered,
              history>>

-----------------------------------------------------------------------------
(* Types. *)

\* No file, a file without its line yet, a line without a checksum, a line
\* with the checksum of the content, and a line with the tail of a longer one.
MetaFile == {"none", "empty", "blank", "sum", "garbled"}
DataFile == {"none", "torn", "whole"}
Line     == {"blank", "sum"}

Type == {"write", "delete", "read", "replica", "lookup"}

Message == [type : Type, chunk : Chunk, from : Node \cup {Client, Controller},
            to : Node \cup {Controller}, replicas : Seq(Node),
            data : {"torn", "whole"}, sum : BOOLEAN]

WritePc  == {"createMeta", "writeMeta", "createData", "copy", "passOn", "count"}
DeletePc == {"removeMeta", "removeData", "passDelete", "uncount"}
ReadPc   == {"load", "validate", "sleep", "reply", "send", "asked"}
BusyPc   == WritePc \cup DeletePc \cup ReadPc \cup {"fetch"}

\* A goroutine: where it is, on which node, the message it serves (which it and
\* the goroutine it starts to ask for replicas both change), originalAddr, what
\* it read from disk, its files that still have their names.
Goroutine == [at : BusyPc, node : Node, msg : Message,
              reader : Node \cup {Client, Controller}, loaded : DataFile,
              sum : BOOLEAN, asking : BOOLEAN, open : SUBSET {"meta", "data"}]

Beat == [todo : SUBSET Chunk, files : SUBSET Chunk]

ASSUME NoneAssumption == None \notin Goroutine

\* Only nodes ask the controller, and it reads no chunks.
MessageOK(m) ==
  /\ m \in Message
  /\ m.type = "lookup" <=> m.to = Controller
  /\ m.type = "lookup" => m.from \in Node
  /\ m.type = "read" => m.from # Controller

GoroutineOK(g) ==
  /\ g \in Goroutine
  /\ g.at \in ReadPc => g.reader # Controller /\ g.msg.from # Controller
  /\ g.at = "send" => g.msg.type \in {"write", "replica"}
  /\ g.at \in {"validate", "reply", "send"} => g.loaded # "none"
  /\ g.asking => g.at \in ReadPc

TypeOK ==
  /\ status \in [Node -> {"up", "killed", "fileMissing", "noReplica", "garbled"}]
  /\ meta \in [Node -> [Chunk -> MetaFile]]
  /\ data \in [Node -> [Chunk -> DataFile]]
  /\ received \in [Node -> 0 .. Word - 1]
  /\ job \in [Job -> Goroutine \cup {None}]
  /\ \A j \in Job : job[j] # None => GoroutineOK(job[j])
  /\ beat \in [Node -> Beat \cup {None}]
  /\ \A m \in mail : MessageOK(m)
  /\ located \in [Chunk -> SUBSET Node]
  /\ answered \subseteq Chunk \X {"torn", "whole"}
  /\ used \in [Outside -> Nat]
  /\ ended \subseteq Node
  /\ doomed \in [Chunk -> SUBSET Node]
  /\ crossed \subseteq Chunk
  /\ storing \subseteq Chunk \X Node
  /\ deleting \subseteq Chunk \X Node

-----------------------------------------------------------------------------
(* Goroutines, messages, the end of a process. *)

Up(n) == status[n] = "up"
At(j, l) == job[j] # None /\ job[j].at = l

\* The goroutines at work on node n's files of chunk c.
On(n, c) == {j \in Job : job[j] # None /\ job[j].node = n /\ job[j].msg.chunk = c}

\* Nothing is served or under way for c.
Quiet(c) == /\ \A n \in Node : On(n, c) = {}
            /\ \A m \in mail : m.chunk # c

\* Something outside the nodes happens, while the bounds let it.
Use(kind) ==
  /\ used[kind] < Limit[kind]
  /\ SumFunction(used) < Total
  /\ used' = [used EXCEPT ![kind] = @ + 1]

\* What the repair round of j has set off for its chunk is over.
Settled(j) ==
  /\ \A m \in mail : m.chunk # job[j].msg.chunk
  /\ \A n \in Node : \A i \in On(n, job[j].msg.chunk) :
       At(i, "sleep") /\ ~job[i].asking

\* The orders in which a map's keys may come.
Orders(S) == {s \in [1 .. Cardinality(S) -> S] :
                \A i, k \in DOMAIN s : i # k => s[i] # s[k]}

Entries(s) == {s[i] : i \in DOMAIN s}

Request(type, c, from, to, replicas) ==
  [type |-> type, chunk |-> c, from |-> from, to |-> to, replicas |-> replicas,
   data |-> "torn", sum |-> FALSE]

FirstStep == [write |-> "createMeta", delete |-> "removeMeta", read |-> "load",
              replica |-> "fetch"]

Goto(j, l) == job' = [job EXCEPT ![j].at = l]

\* The goroutine returns; one that it started to ask the controller goes on.
Finished(j) == IF job[j].asking THEN [job[j] EXCEPT !.at = "asked"] ELSE None
Finish(j) == job' = [job EXCEPT ![j] = Finished(j)]

\* A process ends: its goroutines with it, and the connections to it.
Exit(n, cause) ==
  /\ status' = [status EXCEPT ![n] = cause]
  /\ job' = [j \in Job |-> IF job[j] # None /\ job[j].node = n THEN None
                           ELSE job[j]]
  /\ beat' = [beat EXCEPT ![n] = None]
  /\ mail' = {m \in mail : m.to # n}
  /\ ended' = ended \cup {n}

\* log.Fatalln or a panic in the goroutine j.
Fatal(j, cause) ==
  /\ Exit(job[j].node, cause)
  /\ UNCHANGED <<received, located, answered, used, doomed, crossed,
                 storing, deleting>>

\* Names lose their files: the descriptors of others are left without.
Unlinked(n, c, kind) ==
  [j \in Job |-> IF j \in On(n, c) THEN [job[j] EXCEPT !.open = @ \ {kind}]
                 ELSE job[j]]

\* A goroutine for each connection.  (Slots only name them: the first free one.)
Receive(j, m) ==
  /\ m \in mail
  /\ m.to \in Node /\ Up(m.to)
  /\ job[j] = None /\ \A i \in Job : i < j => job[i] # None
  /\ job' = [job EXCEPT ![j] =
               [at |-> FirstStep[m.type], node |-> m.to, msg |-> m,
                reader |-> m.from, loaded |-> "none", sum |-> FALSE,
                asking |-> FALSE, open |-> {}]]
  /\ mail' = mail \ {m}
  /\ UNCHANGED <<status, files, received, beat, located, answered, history>>

\* What a step of a goroutine that only changes files and itself leaves alone.
Local == UNCHANGED <<status, received, beat, mail, located, answered, history>>

-----------------------------------------------------------------------------
(* Storing a chunk: saveChunkInfoToDisk. *)

\* os.Create truncates a file that is there.
CreateMeta(j) ==
  LET n == job[j].node c == job[j].msg.chunk
  IN /\ At(j, "createMeta")
     /\ meta' = [meta EXCEPT ![n][c] = "empty"]
     /\ job' = [job EXCEPT ![j].at = "writeMeta", ![j].open = {"meta"}]
     /\ UNCHANGED data
     /\ Local

\* What a line for message m makes of a file that held old.  A line that another
\* goroutine wrote since the file was created is overwritten from its start: what
\* it is longer by, for its checksum or for its size, stays.
Written(old, m) ==
  LET line == IF m.sum THEN "sum" ELSE "blank"
  IN {x \in {line, "garbled"} :
        /\ x = "garbled" => old \notin {"none", "empty"}
                            /\ ~(m.sum /\ m.data = "whole")
        /\ x = "blank" => old \notin {"sum", "garbled"}}

WriteMeta(j) ==
  LET n == job[j].node c == job[j].msg.chunk
  IN /\ At(j, "writeMeta")
     /\ \E x \in Written(meta[n][c], job[j].msg) :
          meta' = IF "meta" \in job[j].open
                  THEN [meta EXCEPT ![n][c] = x] ELSE meta
     /\ Goto(j, "createData")
     /\ UNCHANGED data
     /\ Local

CreateData(j) ==
  LET n == job[j].node c == job[j].msg.chunk
  IN /\ At(j, "createData")
     /\ data' = [data EXCEPT ![n][c] = "torn"]
     /\ job' = [job EXCEPT ![j].at = "copy", ![j].open = {"data"}]
     /\ UNCHANGED meta
     /\ Local

\* io.CopyN from the connection, its error ignored.
Copy(j) ==
  LET n == job[j].node c == job[j].msg.chunk
  IN /\ At(j, "copy")
     /\ data' = IF "data" \in job[j].open
                THEN [data EXCEPT ![n][c] = job[j].msg.data] ELSE data
     /\ Goto(j, "passOn")
     /\ UNCHANGED meta
     /\ Local

\* The sender is gone before it has sent all of the data.
CopyCut(j) ==
  /\ At(j, "copy")
  /\ \/ job[j].msg.from = Client /\ Use("cut")
     \/ job[j].msg.from \in ended /\ UNCHANGED used
  /\ Goto(j, "passOn")
  /\ UNCHANGED <<status, files, received, beat, mail, located, answered, ended,
                 doomed, crossed, storing, deleting>>

\* What getChunkInfoFromDisk makes of files that may be gone meanwhile.
ReadData(n, c) == IF data[n][c] = "whole" THEN "whole" ELSE "torn"
ReadSum(n, c)  == meta[n][c] = "sum"

Upload(j) ==
  LET n == job[j].node m == job[j].msg
  IN [type |-> "write", chunk |-> m.chunk, from |-> n, to |-> Head(m.replicas),
      replicas |-> <<>>, data |-> ReadData(n, m.chunk),
      sum |-> ReadSum(n, m.chunk)]

\* Mutant: the chunk stays on the first node.
PassOnNone(j) ==
  /\ At(j, "passOn")
  /\ Goto(j, "count")
  /\ UNCHANGED <<status, files, received, beat, mail, located, answered, history>>

\* The chunk, read from disk again for each replica, goes to the next one; the
\* first that is not up, or cannot be dialled (DialFails), ends it.
PassOn(j) ==
  LET rest == job[j].msg.replicas
  IN /\ At(j, "passOn")
     /\ IF rest # <<>> /\ Up(Head(rest))
        THEN /\ mail' = mail \cup {Upload(j)}
             /\ job' = [job EXCEPT ![j].msg.replicas = Tail(rest)]
        ELSE /\ Goto(j, "count")
             /\ UNCHANGED mail
     /\ UNCHANGED <<status, files, received, beat, located, answered, history>>

\* Mutant: the chunk is not counted.
CountNone(j) ==
  /\ At(j, "count")
  /\ Finish(j)
  /\ UNCHANGED <<status, files, received, beat, mail, located, answered, history>>

Count(j) ==
  /\ At(j, "count")
  /\ received' = [received EXCEPT ![job[j].node] = (@ + 1) % Word]
  /\ Finish(j)
  /\ UNCHANGED <<status, files, beat, mail, located, answered, history>>

-----------------------------------------------------------------------------
(* Deleting a chunk: deleteChunkInfoFromDisk. *)

RemoveMeta(j) ==
  LET n == job[j].node c == job[j].msg.chunk
  IN /\ At(j, "removeMeta")
     /\ meta[n][c] # "none"
     /\ meta' = [meta EXCEPT ![n][c] = "none"]
     /\ job' = [Unlinked(n, c, "meta") EXCEPT ![j].at = "removeData"]
     /\ UNCHANGED data
     /\ Local

\* Mutant: the data file is forgotten.
RemoveDataKept(j) ==
  /\ At(j, "removeData")
  /\ Goto(j, "passDelete")
  /\ UNCHANGED files
  /\ Local

RemoveData(j) ==
  LET n == job[j].node c == job[j].msg.chunk
  IN /\ At(j, "removeData")
     /\ data[n][c] # "none"
     /\ data' = [data EXCEPT ![n][c] = "none"]
     /\ job' = [Unlinked(n, c, "data") EXCEPT ![j].at = "passDelete"]
     /\ UNCHANGED meta
     /\ Local

\* os.Remove fails.
RemoveFails(j) ==
  LET n == job[j].node c == job[j].msg.chunk
  IN /\ \/ At(j, "removeMeta") /\ meta[n][c] = "none"
        \/ At(j, "removeData") /\ data[n][c] = "none"
     /\ Fatal(j, "fileMissing")
     /\ UNCHANGED files

\* Mutant: the delete is not passed on.
PassDeleteNone(j) ==
  /\ At(j, "passDelete")
  /\ Goto(j, "uncount")
  /\ UNCHANGED <<status, files, received, beat, mail, located, answered, history>>

PassDelete(j) ==
  LET n == job[j].node m == job[j].msg rest == m.replicas
  IN /\ At(j, "passDelete")
     /\ IF rest # <<>> /\ Up(Head(rest))
        THEN /\ mail' = mail \cup
                  {Request("delete", m.chunk, n, Head(rest), <<>>)}
             /\ job' = [job EXCEPT ![j].msg.replicas = Tail(rest)]
        ELSE /\ Goto(j, "uncount")
             /\ UNCHANGED mail
     /\ UNCHANGED <<status, files, received, beat, located, answered, history>>

\* Mutant: a counter without a width.
UncountSigned(j) ==
  /\ At(j, "uncount")
  /\ received' = [received EXCEPT ![job[j].node] = @ - 1]
  /\ Finish(j)
  /\ UNCHANGED <<status, files, beat, mail, located, answered, history>>

Uncount(j) ==
  /\ At(j, "uncount")
  /\ received' = [received EXCEPT ![job[j].node] = (@ - 1) % Word]
  /\ Finish(j)
  /\ UNCHANGED <<status, files, beat, mail, located, answered, history>>

-----------------------------------------------------------------------------
(* Reading a chunk: getChunkInfoAndSendToClient, handleCorruptedChunk. *)

\* Mutant: originalAddr is read after the sleep.
LoadSender(j) ==
  LET n == job[j].node c == job[j].msg.chunk
  IN /\ \/ At(j, "load")
        \/ At(j, "sleep") /\ (Prompt => Settled(j))
     /\ job' = [job EXCEPT ![j].at = "validate", ![j].sum = ReadSum(n, c),
                           ![j].loaded = ReadData(n, c),
                           ![j].reader = job[j].msg.from]
     /\ UNCHANGED files
     /\ Local

\* getChunkInfoFromDisk, at first and after each sleep of the repair loop.
Load(j) ==
  LET n == job[j].node c == job[j].msg.chunk
  IN /\ \/ At(j, "load")
        \/ At(j, "sleep") /\ (Prompt => Settled(j))
     /\ job' = [job EXCEPT ![j].at = "validate", ![j].sum = ReadSum(n, c),
                           ![j].loaded = ReadData(n, c)]
     /\ UNCHANGED files
     /\ Local

\* Mutant: a chunk is valid if it has a checksum.
ValidUnread(j) == job[j].sum

\* ValidateFile reads the data file once more.
Valid(j) == /\ data[job[j].node][job[j].msg.chunk] = "whole"
            /\ job[j].sum

Validated(j) ==
  /\ At(j, "validate")
  /\ Valid(j)
  /\ Goto(j, "reply")
  /\ UNCHANGED files
  /\ Local

\* Mutants: the corrupted chunk loses its metadata, or its data, first.
CorruptedUnlisted(j) ==
  LET n == job[j].node c == job[j].msg.chunk
  IN /\ At(j, "validate")
     /\ data[n][c] # "none"
     /\ ~Valid(j)
     /\ job' = [job EXCEPT ![j].at = "sleep", ![j].asking = TRUE,
                           ![j].reader = job[j].msg.from]
     /\ meta' = [meta EXCEPT ![n][c] = "none"]
     /\ UNCHANGED data
     /\ Local

CorruptedRemoved(j) ==
  LET n == job[j].node c == job[j].msg.chunk
  IN /\ At(j, "validate")
     /\ data[n][c] # "none"
     /\ ~Valid(j)
     /\ job' = [job EXCEPT ![j].at = "sleep", ![j].asking = TRUE,
                           ![j].reader = job[j].msg.from]
     /\ data' = [data EXCEPT ![n][c] = "none"]
     /\ UNCHANGED meta
     /\ Local

\* Another round: originalAddr is the sender the message has by now.
Corrupted(j) ==
  LET n == job[j].node c == job[j].msg.chunk
  IN /\ At(j, "validate")
     /\ data[n][c] # "none"
     /\ ~Valid(j)
     /\ job' = [job EXCEPT ![j].at = "sleep", ![j].asking = TRUE,
                           ![j].reader = job[j].msg.from]
     /\ UNCHANGED files
     /\ Local

\* log.Fatalln of ValidateFile when the file cannot be opened.
ValidateFails(j) ==
  /\ At(j, "validate")
  /\ data[job[j].node][job[j].msg.chunk] = "none"
  /\ Fatal(j, "fileMissing")
  /\ UNCHANGED files

\* requestReplicaInfoFromController writes into the message that the goroutine
\* which started it goes on using.
Ask(j) ==
  LET n == job[j].node m == job[j].msg
  IN /\ job[j] # None /\ job[j].asking
     /\ job' = [job EXCEPT ![j] =
                  IF @.at = "asked" THEN None
                  ELSE [@ EXCEPT !.asking = FALSE, !.msg.from = n,
                                 !.msg.type = "replica"]]
     /\ mail' = mail \cup {Request("lookup", m.chunk, n, Controller, <<>>)}
     /\ UNCHANGED <<status, files, received, beat, located, answered, history>>

\* The controller cannot be dialled.
AskFails(j) ==
  /\ job[j] # None /\ job[j].asking
  /\ Use("offline")
  /\ job' = [job EXCEPT ![j] = IF @.at = "asked" THEN None
                               ELSE [@ EXCEPT !.asking = FALSE]]
  /\ UNCHANGED <<status, files, received, beat, mail, located, answered, ended,
                 doomed, crossed, storing, deleting>>

\* sendChunkDataToClient dials, and makes the message a write ...
Reply(j) ==
  /\ At(j, "reply")
  /\ IF job[j].reader \in Node /\ ~Up(job[j].reader) THEN Finish(j)
     ELSE job' = [job EXCEPT ![j].at = "send", ![j].msg.type = "write",
                             ![j].msg.from = job[j].node]
  /\ UNCHANGED files
  /\ Local

\* ... and sends it as it is by then, with what was read before.
Send(j) ==
  LET m == job[j].msg
  IN /\ At(j, "send")
     /\ IF job[j].reader = Client
        THEN /\ answered' = answered \cup {<<m.chunk, job[j].loaded>>}
             /\ UNCHANGED mail
        ELSE /\ mail' = mail \cup
                  {[m EXCEPT !.to = job[j].reader, !.data = job[j].loaded,
                             !.sum = job[j].sum]}
             /\ UNCHANGED answered
     /\ Finish(j)
     /\ UNCHANGED <<status, files, received, beat, located, history>>

-----------------------------------------------------------------------------
(* Fetching a chunk: requestDataFromReplicationNode. *)

Fetch(j) ==
  LET m == job[j].msg
  IN /\ At(j, "fetch")
     /\ m.replicas # <<>>
     /\ mail' = IF Up(Head(m.replicas))
                THEN mail \cup {Request("read", m.chunk, job[j].node,
                                        Head(m.replicas), Tail(m.replicas))}
                ELSE mail
     /\ Finish(j)
     /\ UNCHANGED <<status, files, received, beat, located, answered, history>>

\* Replicas[0] of an empty list.
FetchFails(j) ==
  /\ At(j, "fetch")
  /\ job[j].msg.replicas = <<>>
  /\ Fatal(j, "noReplica")
  /\ UNCHANGED files

-----------------------------------------------------------------------------
(* Heartbeats: sendHeartBeatToController. *)

\* os.ReadDir of ChunkMetaData.  (Bound: a heartbeat that has nothing to add to
\* what the controller knows is left out.)
BeatList(n) ==
  /\ Up(n)
  /\ beat[n] = None
  /\ \E c \in Chunk : meta[n][c] # "none" /\ n \notin located[c]
  /\ beat' = [beat EXCEPT ![n] =
                [todo |-> {c \in Chunk : meta[n][c] # "none"}, files |-> {}]]
  /\ UNCHANGED <<status, files, received, job, mail, located, answered, history>>

BeatRead(n, c) ==
  /\ beat[n] # None /\ c \in beat[n].todo
  /\ meta[n][c] \notin {"none", "garbled"}
  /\ beat' = [beat EXCEPT ![n] =
                [todo |-> @.todo \ {c},
                 files |-> IF meta[n][c] \in Line THEN @.files \cup {c}
                           ELSE @.files]]
  /\ UNCHANGED <<status, files, received, job, mail, located, answered, history>>

\* os.Open of a file that a delete has removed since the directory was read, or
\* content[1] of a tail.
BeatFails(n, c) ==
  /\ beat[n] # None /\ c \in beat[n].todo
  /\ \/ meta[n][c] = "none" /\ Exit(n, "fileMissing")
     \/ meta[n][c] = "garbled" /\ Exit(n, "garbled")
  /\ UNCHANGED <<files, received, located, answered, used, doomed, crossed,
                 storing, deleting>>

BeatSend(n) ==
  /\ beat[n] # None /\ beat[n].todo = {}
  /\ beat' = [beat EXCEPT ![n] = None]
  /\ located' = [c \in Chunk |-> IF c \in beat[n].files THEN located[c] \cup {n}
                                 ELSE located[c]]
  /\ UNCHANGED <<status, files, received, job, mail, answered, history>>

-----------------------------------------------------------------------------
(* The controller and the clients, as far as the nodes see them. *)

\* Mutant: the node that asks may be named itself.
LookupAll(m) ==
  /\ m \in mail /\ m.to = Controller
  /\ \E s \in Orders(located[m.chunk]) :
       mail' = (mail \ {m}) \cup
                 IF Up(m.from)
                 THEN {Request("replica", m.chunk, Controller, m.from, s)}
                 ELSE {}
  /\ UNCHANGED <<status, files, received, job, beat, located, answered, history>>

\* sendReplicasToStorageNode sends the message back to the node that asked.
Lookup(m) ==
  /\ m \in mail /\ m.to = Controller
  /\ \E s \in Orders(located[m.chunk] \ {m.from}) :
       mail' = (mail \ {m}) \cup
                 IF Up(m.from)
                 THEN {Request("replica", m.chunk, Controller, m.from, s)}
                 ELSE {}
  /\ UNCHANGED <<status, files, received, job, beat, located, answered, history>>

\* A request for c, which may come while another one is served.
New(kind, c) ==
  /\ Use(kind)
  /\ Overlap \/ Quiet(c)
  /\ crossed' = IF Quiet(c) THEN crossed ELSE crossed \cup {c}

\* A client uploads a chunk to the first node it was named, if that is up.
ClientWrite(c, s) ==
  /\ New("write", c)
  /\ Up(Head(s))
  /\ mail' = mail \cup {[Request("write", c, Client, Head(s), Tail(s))
                           EXCEPT !.data = "whole", !.sum = TRUE]}
  /\ doomed' = [doomed EXCEPT ![c] = {}]
  /\ storing' = storing \cup ({c} \X Entries(s))
  /\ UNCHANGED <<status, files, received, job, beat, located, answered, ended, deleting>>

\* The controller deletes a chunk from the nodes that reported it: a message to
\* the first, for the others too.
ControllerDelete(c, s) ==
  /\ New("delete", c)
  /\ s \in Orders(located[c]) /\ s # <<>>
  /\ mail' = IF Up(Head(s))
             THEN mail \cup {Request("delete", c, Controller, Head(s), Tail(s))}
             ELSE mail
  /\ located' = [located EXCEPT ![c] = {}]
  /\ doomed' = [doomed EXCEPT ![c] = Entries(s)]
  /\ deleting' = deleting \cup ({c} \X Entries(s))
  /\ UNCHANGED <<status, files, received, job, beat, answered, ended, storing>>

\* A dead node's replacement is told to fetch the chunk.
ControllerOrder(c, n, s) ==
  /\ New("order", c)
  /\ s \in Orders(located[c] \ {n})
  /\ Up(n)
  /\ mail' = mail \cup {Request("replica", c, Controller, n, s)}
  /\ doomed' = [doomed EXCEPT ![c] = {}]
  /\ storing' = storing \cup {<<c, n>>}
  /\ UNCHANGED <<status, files, received, job, beat, located, answered, ended,
                 deleting>>

\* A client asks a node the controller named for the chunk.
ClientRead(c, n) ==
  /\ New("read", c)
  /\ n \in located[c]
  /\ Up(n)
  /\ mail' = mail \cup {Request("read", c, Client, n, <<>>)}
  /\ doomed' = [doomed EXCEPT ![c] = {}]
  /\ UNCHANGED <<status, files, received, job, beat, located, answered, ended,
                 storing, deleting>>

-----------------------------------------------------------------------------
(* Faults. *)

Kill(n) ==
  /\ Use("kill")
  /\ Up(n)
  /\ Exit(n, "killed")
  /\ UNCHANGED <<files, received, located, answered, doomed, crossed, storing,
                 deleting>>

\* receivedChunks starts at 0; the files are as they were left.
Restart(n) ==
  /\ ~Up(n)
  /\ status' = [status EXCEPT ![n] = "up"]
  /\ received' = [received EXCEPT ![n] = 0]
  /\ UNCHANGED <<files, job, beat, mail, located, answered, history>>

\* The other process is up and cannot be dialled: the rest of the replicas are not
\* sent to, the chunk is not fetched, the reader has no answer.
DialFails(j) ==
  /\ \/ At(j, "passOn") /\ job[j].msg.replicas # <<>> /\ Goto(j, "count")
     \/ At(j, "passDelete") /\ job[j].msg.replicas # <<>> /\ Goto(j, "uncount")
     \/ At(j, "fetch") /\ job[j].msg.replicas # <<>> /\ Finish(j)
     \/ At(j, "reply") /\ Finish(j)
  /\ Use("offline")
  /\ doomed' = IF At(j, "passDelete") THEN [doomed EXCEPT ![job[j].msg.chunk] = {}]
               ELSE doomed
  /\ UNCHANGED <<status, files, received, beat, mail, located, answered, ended,
                 crossed, storing, deleting>>

\* A data file goes bad on disk.
Damage(n, c) ==
  /\ Use("damage")
  /\ data[n][c] = "whole"
  /\ data' = [data EXCEPT ![n][c] = "torn"]
  /\ UNCHANGED <<status, meta, received, job, beat, mail, located, answered,
                 ended, doomed, crossed, storing, deleting>>

-----------------------------------------------------------------------------
Init ==
  /\ status = [n \in Node |-> "up"]
  /\ meta = [n \in Node |-> [c \in Chunk |-> "none"]]
  /\ data = [n \in Node |-> [c \in Chunk |-> "none"]]
  /\ received = [n \in Node |-> 0]
  /\ job = [j \in Job |-> None]
  /\ beat = [n \in Node |-> None]
  /\ mail = {}
  /\ located = [c \in Chunk |-> {}]
  /\ answered = {}
  /\ used = [k \in Outside |-> 0]
  /\ ended = {}
  /\ doomed = [c \in Chunk |-> {}]
  /\ crossed = {}
  /\ storing = {}
  /\ deleting = {}

Save(j)   == CreateMeta(j) \/ WriteMeta(j) \/ CreateData(j) \/ Copy(j)
             \/ PassOn(j) \/ Count(j)
Remove(j) == RemoveMeta(j) \/ RemoveData(j) \/ RemoveFails(j) \/ PassDelete(j)
             \/ Uncount(j)
Serve(j)  == Load(j) \/ Validated(j) \/ Corrupted(j) \/ ValidateFails(j)
             \/ Reply(j) \/ Send(j) \/ Fetch(j) \/ FetchFails(j)

Heartbeat(n) == \/ BeatList(n) \/ BeatSend(n)
                \/ \E c \in Chunk : BeatRead(n, c) \/ BeatFails(n, c)

Requests(c) ==
  \/ \E S \in (SUBSET Node) \ {{}} : \E s \in Orders(S) : ClientWrite(c, s)
  \/ \E s \in Orders(located[c]) : ControllerDelete(c, s)
  \/ \E n \in Node : \/ ClientRead(c, n)
                     \/ \E s \in Orders(located[c] \ {n}) : ControllerOrder(c, n, s)

Faults == \/ \E n \in Node : Kill(n) \/ Restart(n) \/ \E c \in Chunk : Damage(n, c)
          \/ \E j \in Job : CopyCut(j) \/ AskFails(j) \/ DialFails(j)

Next == \/ \E j \in Job : \/ Save(j) \/ Remove(j) \/ Serve(j) \/ Ask(j)
                          \/ \E m \in mail : Receive(j, m)
        \/ \E n \in Node : Heartbeat(n)
        \/ \E m \in mail : Lookup(m)
        \/ \E c \in Chunk : Requests(c)
        \/ Faults

Spec == Init /\ [][Next]_vars

\* Goroutines run, and a connection that was made is accepted.  (Strong fairness
\* makes up for the bound on slots: the code starts a goroutine for each one.)
Fairness ==
  /\ \A j \in Job : WF_vars(Save(j) \/ Remove(j) \/ Serve(j)) /\ WF_vars(Ask(j))
  /\ \A n \in Node, t \in Type :
       SF_vars(\E j \in Job : \E m \in mail :
                 m.to = n /\ m.type = t /\ Receive(j, m))
  /\ \A n \in Node : WF_vars(\E m \in mail : m.from = n /\ Lookup(m))

FairSpec == Spec /\ Fairness
-----------------------------------------------------------------------------
(* Safety. *)

\* What the nodes keep is what ChunkStore promises: a chunk appears only on nodes
\* that an upload or an order named, and leaves only a node that a delete named;
\* no writing again, reading, repairing, or ending of a process adds or loses one.
Kept == [n \in Node |-> {c \in Chunk : meta[n][c] # "none"}]

Store == INSTANCE ChunkStore WITH dir <- Kept

ImplementsChunkStore == Store!Spec

\* The two files of a chunk go together, once nothing is at work on it, on a node
\* whose process never ended, if requests for the chunk did not cross; and the
\* metadata file has a line (which two repairs at once may have made of theirs).
FilesAgree ==
  \A n \in Node \ ended, c \in Chunk \ crossed :
    On(n, c) = {} => IF meta[n][c] = "none" THEN data[n][c] = "none"
                     ELSE meta[n][c] # "empty" /\ data[n][c] # "none"

\* A delete that has been served has reached every node it was meant for, until
\* there is another request for the chunk, unless a process ended, one of the nodes
\* could not be dialled or requests for the chunk crossed.
DeleteReaches ==
  \A c \in Chunk \ crossed :
    Quiet(c) /\ ended = {} => \A n \in doomed[c] : meta[n][c] = "none"

\* A node that never ended and is idle has counted at least the chunks it keeps, and
\* at most what was uploaded: its counter has not gone below zero, and so wrapped
\* around, unless more is uploaded than it can count, or a chunk may have been
\* repaired or copied (which is counted as one more chunk).
CountsChunks ==
  crossed = {} /\ used["read"] + used["order"] = 0 /\ used["write"] < Word =>
    \A n \in Node \ ended :
      (\A j \in Job : job[j] = None \/ job[j].node # n) =>
        received[n] \in Cardinality(Kept[n]) .. used["write"]

\* While nothing is deleted, requests do not cross and repairs are over in time,
\* a missing file is never what ends a process first, damaged and repaired as the
\* chunks may be.  (A process that ended before may have left one file of two.)
FilesStay ==
  [][Prompt /\ crossed' = {} /\ used["delete"] = 0 /\ ended = {} =>
       \A n \in Node : status'[n] # "fileMissing"]_vars

\* What a client is sent is the chunk, if repairs are over when the node looks at
\* the chunk again and requests for it do not cross.  (Otherwise the file that
\* ValidateFile finds valid may be newer than the data read before it.)
ServedWhole ==
  Prompt => \A c \in Chunk \ crossed : <<c, "torn">> \notin answered

-----------------------------------------------------------------------------
(* Liveness. *)

Whole(n, c) == meta[n][c] = "sum" /\ data[n][c] = "whole"

\* A process ended, a node could not be dialled, or a chunk was damaged.
Faulty == ended # {} \/ used["offline"] > 0 \/ used["damage"] > 0

\* A chunk that a client uploads to a node gets to every node it is to be on.
Replicates ==
  \A n \in Node, c \in Chunk :
    <<c, n>> \in storing ~> Whole(n, c) \/ Faulty

\* A damaged chunk that a node is asked for is repaired, whichever of the other nodes
\* the controller names first, if the chunk is whole on all of them and stays so, and
\* no process ends.  (The node asks again and again, but never more than the first.)
Repaired ==
  \A n \in Node, c \in Chunk : \A k \in 0 .. Limit["damage"] :
    LET others == located[c] \ {n}
    IN (/\ data[n][c] = "torn"
        /\ \E j \in On(n, c) : At(j, "sleep")
        /\ others # {} /\ \A m \in others : Whole(m, c)
        /\ used["damage"] = k) ~>
         Whole(n, c) \/ ended # {} \/ used["damage"] # k

\* A client asks a node for c, and is sent it, damaged or not, or cannot be: a
\* process ended, a node could not be dialled, no whole copy is known.
Asked(c) == \E m \in mail : m.chunk = c /\ m.type = "read" /\ m.from = Client

AnsweredOrLost(c) ==
  \/ \E d \in DataFile : <<c, d>> \in answered
  \/ ended # {} \/ used["offline"] > 0
  \/ ~\E n \in located[c] : Whole(n, c)

\* A client that asks a node for a chunk is sent it, damaged or not, if a repair is
\* over when the node looks again, and the chunk is not damaged a second time: then
\* the first round of handleCorruptedChunk is enough.
ReadAnswered ==
  Prompt => \A c \in Chunk : Asked(c) ~> AnsweredOrLost(c) \/ used["damage"] > 1

=============================================================================
