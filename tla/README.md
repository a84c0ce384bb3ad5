# Verification of HDFS-in-Golang

TLA+ models of the distributed file system in this repository, the TLC
configurations that check them on small instances, and theorems that TLAPS
proves for every size. Line numbers refer to the Go sources under `src/hdfs`.

## 1. The system

| Component | Source | State it keeps | Operations | Modelled in |
|---|---|---|---|---|
| Bloom filter | `filters/bloom_filter.go` | bit array | `Put`, `Get` | `BloomFilter` |
| Controller, requests on files | `controller/controller.go` 62-212, 579-716 | `fileMap`, `bf`; `FileMetaData/<name>`, `ChunkStorageNodeMetadata/<name>` | write, read, delete | `Controller` |
| Controller, heartbeats | 338-425 | `fileChunkMap`, `activeNodesMap` | `saveStorageNodeInfo` | `Controller`, `NodesLock` |
| Controller, dead nodes | 214-336 | the locals of each `handleDeadNodes` goroutine | `monitorNodes`, `replaceFailedNode` | `Controller`, `NodesLock` |
| Controller, restart | 735-811 | all of the above, rebuilt | `loadData` | `Controller` |
| Controller, queries | 451-577 | a read lock on `activeNodesMap` | `/list`, `/ls`, replica look-up | `NodesLock`, `StorageNode` |
| Storage node, storing | `nodes/storagenode.go` 30-202 | `ChunkMetaData/`, `ChunkData/`, `receivedChunks` | write, delete, both passed on to replicas; heartbeat | `StorageNode` |
| Storage node, reading | 304-429 | the message it shares with a goroutine | read with validation, repair, Replica | `StorageNode` |
| Client, write | `client/client.go` 62-168 | `file_path`, `chunksSent`, `sentBytes` | cut into chunks, upload | `Client` |
| Client, read | 207-314, 407-478 | `folder_name`, `chunksReceived`, `receivedBytes`, chunk files | collect, merge, validate | `Client` |
| Framing | `messages/message_handler.go` | a TCP stream | `Send`, `Receive` | `MessageFraming` |
| Message types | `proto/metadata.proto` | - | - | the `Message` records |
| Checksum helper | `messages/helper.go` | - | `ValidateFile` | in `StorageNode`, `Client` |

How they interact. A client opens a connection to the controller for one
request and is answered on a *new* connection that the controller dials; the
same holds between clients and storage nodes. Every listener starts one
goroutine per connection. A storage node sends the whole list of its chunks
every five seconds; that heartbeat is the only way the controller learns where
chunks are. The controller never takes a node off a chunk because a heartbeat
no longer lists it: only a delete of the file and the replacement of a dead node
do. A node silent for more than ten seconds leaves `activeNodesMap`, and a new
goroutine orders a new replica of each chunk its last heartbeat listed.

What makes each component correct, and what is hard about it:

- *Requests on files.* A name is taken once; a client that was given locations
  can rely on the name and its metadata until it is deleted, across crashes of
  the controller. Hard: look-up and registration are separate critical
  sections; memory, filter and two directories change one after the other and
  the process can end between any two of them, by itself too (every error is
  fatal).
- *Heartbeats.* Locations follow what nodes store, and every located chunk has
  the table file a delete requires. Hard: heartbeats overlap with deletes of the
  same files and with the replacement of the same node.
- *Dead nodes.* The loss of a node is noticed for every chunk it was located
  for; a new replica goes to a node that does not have the chunk and is fetched
  from nodes that do. Hard: replacements run concurrently with heartbeats,
  deletes and each other on shared inner maps, without locks.
- *Restart.* Every metadata file can be loaded; nothing that was granted is
  forgotten.
- *Storage node.* A chunk reported is a chunk stored; a delete reaches every
  replica; a corrupt chunk is repaired from a valid one. Hard: two files per
  chunk, a pipeline that stops at the first failure, mutual repair.
- *Client.* The file is merged exactly when all of its chunks are there. Hard:
  one goroutine per chunk, unprotected counters, globals shared by commands.

`PROJECT.json` lists these as hazards, each at its line, with the properties
that cover it, or the reason why none does.

## 2. The modules

```
Namespace   (abstract: names)       ChunkStore  (abstract: chunks on nodes)
     ^ implemented by                  ^ used by          ^ implemented by
     +----------- Controller ----------+                  |
                  EXTENDS BloomFilter                 StorageNode
NodesLock   (the lock Controller takes as one step, waited for)
Client      (the user's end: commands, goroutines, merge)
MessageFraming  (a message on a connection, which the others take as one value)
```

`Controller` and `StorageNode` are composed through `ChunkStore`: it is all the
controller can tell of the storage nodes, namely that a chunk appears on a node
only if an upload or an order named that node and leaves only if a delete did.
`Controller` uses its actions as the environment (`Chunks == INSTANCE
ChunkStore`), and `StorageNode` is shown to implement it (`ImplementsChunkStore`),
so what holds of the controller in that environment holds with these nodes.
`Namespace` says what the controller promises in turn to those who know it only
by its answers. Each `MC...` module only names the values of the constants.

The proofs are in modules of their own, each of which EXTENDS what it is about:

```
ControllerProofs <- ControllerSerialProofs     one request on a name at a time; Namespace
                 <- ControllerRepairProofs     replacement of dead nodes
StorageNodeProofs <- StorageFilesProofs        types, ChunkStore; the files of a chunk, the counter
NodesLockProofs, ClientProofs, MessageFramingProofs
```

## 3. The controller model

`Controller.tla` EXTENDS `BloomFilter.tla` and has one action per step between two
points where another goroutine, or the end of the process, can come in: a lock
given up, a change on disk, a dial. Code that runs under one lock is one action.

| Variable | In the code |
|---|---|
| `fileMap`, `bits` | `fileMap` (35), the `TRUE` indices of `bf` (37) |
| `listed`, `locs` | the chunk keys of `fileChunkMap` and the addresses under each (31) |
| `active`, `reported` | the keys of `activeNodesMap`, `StorageNodeInfo.files` (27, 45) |
| `pc`, `msg`, `found`, `linked` | the goroutine of a connection: position, message, `found`, whether its open file still has its name |
| `repair` | the goroutines of `handleDeadNodes` with the locals of `replaceFailedNode` |
| `metaDisk`, `tableDisk` | `FileMetaData/`, `ChunkStorageNodeMetadata/` |
| `dir`, `storing`, `deleting`, `orders` | chunk directories of the nodes; requests clients and nodes were told to carry out |
| `status`, `granted` | why the process ended; history: names whose writer was answered |

Requests (`Serve`): `BloomGet` and the look-up, then

- write (`Write`): `SaveName`, `CreateMeta`, `WriteMeta`, `BloomPut`, `Place`;
- delete (`Delete`): `SendDeletes`, `RemoveTable`, `DropTable`, `RemoveMeta`,
  `DropName`. The error of each `os.Remove` is looked at after the map was
  changed, hence the `...Fails` actions;
- read (`Read`): `ReadInfo`, `ReadChunks`;
- heartbeat (`Beat`): `Register`, `SaveTable`, `Activate`.

Dead nodes: `Monitor` takes a set of silent nodes off `active` and starts a
replacement; `Prune` is `replaceFailedNode` up to its loop, `PickMore` and
`PickLast` one draw each. The inner map of a chunk is shared: `AllChunkNodes`
follows `locs` while the entry is in `fileChunkMap`, and is the goroutine's own
copy (`held`) once a delete has dropped it.

Whatever ends the process is an action: the fatal errors, the index and nil
panics (`PlaceNoNode`, `SendDeletesNoReplica`, `ReadInfoGone`,
`ReadChunksOverrun`, `PickNoTarget`, `PickNoNode`), `MapRace` for the unlocked
accesses the Go runtime may detect, and `Kill` at any time (`handleClientRequest`
also treats a broken connection as fatal). `Restart` is `loadData`.

A metadata file is the line written last and a length. `os.Create` truncates
and writes go to offset 0 of the writer's own descriptor, so a line written
over a longer one leaves a tail; `Garbled` is a file with one. `linked` tells a
descriptor whose file was removed in between: its line goes nowhere.

Abstracted: file contents, checksums and free space; wording of replies; time
(`Monitor` may find any active node silent); the order in which a map is walked.
Names are those that survive the text format of the metadata files (no comma,
colon, leading dot or outer space). File-system writes are atomic per call; the
loop that writes all table files under one lock is one step, so a crash falls
before or after it. A delete sends its requests in one step too, to any subset of
the chunks, which covers a crash in the middle of them.

The storage nodes are here only as far as the controller can tell: `StoreChunk`,
`DeleteChunk` and `CopyChunk` are the steps of `ChunkStore`. Each may happen at any
time after it was asked for, again and again (a repair writes a chunk that was
there before), or never (a lost request, a node that is down). A node deletes
the metadata file of a chunk first and creates it first, and heartbeats list
these files: a chunk is in `dir` while the file exists. A heartbeat lists any
subset of them: `os.Create` empties the file of a chunk that is written again,
by an upload or a repair, and a file without its line adds nothing to the list.

`moved`, a field of a repair, is history: the nodes that heartbeats added to the
shared map of its chunk, and other repairs took off it, since the repair read its
sources there. It is what `OrdersSound` needs to say which surprises the loop may
meet.

### The constant Overlap

The code lets two clients write one name at the same time, and the look-up does
not exclude it. With `Overlap = TRUE` the model does the same. With
`Overlap = FALSE` requests on one name, and heartbeats of one node, are served
one after the other (requests on different names still overlap): what a single
user at a time sees. Properties that are true only then say so, and the run
`restart_garbled` shows what the overlap breaks.

## 4. The other models

### StorageNode

Every node's two directories, its counter, and one goroutine (`job`) for each
connection it serves; `mail` is what is on its way between nodes, the controller
and a client. Each `os.Create`, write, `os.Remove` and dial is a step.

| Code | Actions |
|---|---|
| `saveChunkInfoToDisk` 168-177 | `CreateMeta`, `WriteMeta`, `CreateData`, `Copy` (`CopyCut` when the sender ends), `PassOn` once for each replica, `Count` |
| `deleteChunkInfoFromDisk` 193-202 | `RemoveMeta`, `RemoveData` (`RemoveFails`), `PassDelete`, `Uncount` |
| `getChunkInfoAndSendToClient` 382-395 | `Load`, `Validated` / `Corrupted` / `ValidateFails`, `Reply`, `Send` |
| `handleCorruptedChunk` 360-379 | `Corrupted` starts `requestReplicaInfoFromController` (`Ask`, `AskFails`) and sleeps; `Load` again |
| `requestDataFromReplicationNode` 398-429 | `Fetch`, `FetchFails` |
| `sendHeartBeatToController` 259-293 | `BeatList`, `BeatRead`, `BeatFails`, `BeatSend` |
| controller 452-494, 588-616 | `Lookup`, `ControllerDelete`, `ControllerOrder` |
| client 109-165, 208-242 | `ClientWrite`, `ClientRead` |

The message is a field of the goroutine, because `requestReplicaInfoFromController`
changes it (313-316) under the goroutine that started it: after a first round
without success the node takes itself for the sender (362), and the client is
never answered. `open` tells which of the goroutine's files still have a name.
A data file is `whole` or `torn`; `ValidateFile` reads it anew, so what is sent
may be older than what was validated. `Word` makes the uint64 counter wrap.

A metadata file has no line yet (`empty`), a line without a checksum (`blank`) or with
it (`sum`), or the tail of a longer line (`garbled`): two goroutines that write the
file of one chunk may write lines of different length, and `readFile` panics on what is
left (226). `DialFails` is a dial that fails although the other process is up; it ends
`PassOn`, `PassDelete`, `Fetch` and `Reply` the way a process that is down does, and
`AskFails` does so for the dial to the controller.

`doomed` is history: the nodes that the last request for a chunk named, if that
was a delete and no dial on its way failed without reason; `crossed` has the chunks
for which a request came while another was under way. `MessageOK` and `GoroutineOK`, parts of `TypeOK`, say what a message and
a goroutine have at hand where they are.

What the model shows to be otherwise than one might hope, and where the
properties say so:

- Without `Prompt`, `ServedWhole` is false (a repair that ends between line 370 and
  line 373 has the torn data sent), and so it is for a chunk whose requests cross.
- In a second round of the repair loop the node takes itself for the reader: it sends
  the chunk to itself and the client waits for ever. `ReadAnswered` leaves this out
  by name: the chunk is damaged a second time, or a process or a dial fails.
- A node that is down keeps those after it in a list from an upload or a delete, though
  they are up. `Replicates` and `DeleteReaches` leave this out by name.
- A delete reaches the nodes it named, not all that have the chunk: a heartbeat
  sent before, or the list a repair took along, can bring a node back that the
  delete did not name. `DeleteReaches` is about `doomed`.
- A process that ended between the two files of a chunk leaves one of them; the
  next read of it ends the process again (`getChunkInfoFromDisk` is fatal). So
  `FilesStay` is about what ends a process *first*, a step and not a state.
- A repair, and a copy ordered of a node that has the chunk already, is counted as
  one more chunk: `CountsChunks` is about chunks that are only uploaded and deleted.
  A node that restarts counts from 0, so its next delete wraps the counter around:
  the property is about nodes that never ended.
- A chunk damaged while it is passed on spreads torn.
- A delete that comes between `ReadDir` and `Open` of a heartbeat ends the node.

### NodesLock

`activeNodesMapMutex` with the rules of `sync.RWMutex` (`RLock`, `RUnlock`, `Lock`,
`Locked`, `Unlock`, external): a writer that waits keeps new readers out, and
lets those that wait in when it unlocks. Whoever takes it is here: `LogNodes` for
every message (625-627), `Place`, the node list (`ListStart`, `ListSend`, `ListEnd`,
and `ListFails`, the return at 526 with the lock held: `leaked`), `Activate` of a
heartbeat, `MonitorNodes`. After `/ls` the handler does not return (705-707): it
comes to `LogNodes` again with the empty message of the closed connection.

### Client

The globals of `client.go` and one goroutine per connection. `Upload` is
`sendFileDataToStorageNodes`, `Retrieve` is `retrieveChunkDataFromStorageNodes`,
`Save` is `saveChunkInfoToDisk` with `receivedBytes +=` and `chunksReceived++` as a
load and a store each (`LoadBytes`, `AddBytes`, `LoadCount`, `AddCount`) and the test
of line 295, `Merge` is `mergeChunks`, which reads `folder_name` and
`totalNumberOfChunks` again at each turn. Commands set the globals (`Write`, `Read`,
`Delete`, `ListFolder`). The controller and the nodes are what the client sees of
them: names, what was uploaded, answers that come or do not. The assignments at
the start of `retrieveChunkDataFromStorageNodes` are one step. The content of a
chunk is the file whose data it is.

`GoroutineOK`, a part of `TypeOK`, says what each goroutine has at hand: an upload
its file, a merge its folder and the index of a chunk.

What a lost count does: the file is never merged, and nothing says so; `Retrieved`
leaves it out by name (`faults`). Two
goroutines that both see the counters complete merge twice, and the client ends
for want of a chunk file: `MissingOnlyTwice` says that this is the only way, while
commands wait for each other. When they do not, an upload takes the file that
`file_path` names by then, and no promise holds (`crossed`).

### MessageFraming

One connection, byte by byte: `SendPrefix`, `SendPayload`, `SendData`, `Close`; `Break`
loses what was not yet delivered. A `Read` returns any number of bytes that are
there (`Readable`). `ReadPrefix` is one `Read`, `ReadPayload` one turn of the loop,
`CopyData` one `Read` of `io.CopyN`. The receiver is a client or a storage node (`role`):
when the data end early, the client's `HandleError` ends it (client.go 258-259), while
the node ignores the error and goes on with what it has (storagenode.go 58). At the end of the stream the loop of lines 45-49
turns for ever: a step that changes nothing (`Starved`). A byte has `Radix` values
and a prefix `PrefixLength` bytes, 256 and 8 in the code; `Weight` is what each byte
counts, and a length is below the weight of the byte after the last, 2^64.

## 5. What TLC checks

Every property has a mutant in `PROJECT.json`: a plausible change of one mapped
definition that makes TLC find the property violated in the same run.

| Run | Instance | Properties | Shows |
|---|---|---|---|
| `controller_overlap` | 1 name, 1 node, 2 connections, 1 replacement, lines of 2 lengths, `Overlap` | `TypeOK`, `LocatedIsOnDisk`, `BloomCoversNames`, `RegisteredIsOnDisk`, `LocationWatched` | the filter and the files keep up with the maps through any interleaving of requests, heartbeats, a replacement, crash and restart; only heartbeats let a location fall out of watch |
| `controller_serial` | 1 name, 1 node, 2 connections, FileInfos of 1 and 2 chunks | `GrantedIsIntact`, `WriteOnce`, `MemoryMatchesDisk`, `SerialInv`, `ImplementsNamespace` | a granted file survives crashes until deleted and is granted once; the controller implements `Namespace` |
| `controller_failover` | 3 nodes, 2 replicas, 1 connection, 1 replacement, writes only | `DrawingCanEnd`, `SourcesHold`, `OrdersSound` | a new replica is ordered of a node not known to have the chunk, from others that do have it; the loop that draws it can end but in two cases |
| `controller_repairs` | 2 nodes, 2 replicas, 1 connection, 2 replacements, writes only | `OrdersSound`, `LocationWatched` | two repairs of one chunk disturb each other only as the properties say |
| `storage_upload` | 2 nodes, 1 chunk, 2 goroutines, any 3 of: upload, delete, order, cut connection, failed dial, crash | `TypeOK`, `FilesAgree`, `DeleteReaches`, `CountsChunks`, `ImplementsChunkStore` | the two files of a chunk agree, a delete reaches all, the counter stays between the chunks kept and the uploads; nodes implement `ChunkStore` |
| `chunk_repair` | 2 nodes, 1 chunk, 2 goroutines, an upload, a read, two damages, a failed dial | `ServedWhole`, `FilesStay`, `Replicates`, `Repaired`, `ReadAnswered` | uploads arrive everywhere; a damaged chunk is repaired and the reader sent a whole one, also when both copies are damaged in turn |
| `nodes_lock` | 2 nodes, 2 connections, the monitor | `TypeOK`, `ListConsistent`, `LeakFreezes`, `Served`, `DeadNoticed` | all are served and dead nodes taken out, until a `/list` cannot reach its client: then nothing is, ever |
| `client` | 2 files of 2 chunks and 1 chunk, 2 folders, 3 goroutines, 3 commands or 2 that cross | `TypeOK`, `StoredInOrder`, `MergesWhole`, `MissingOnlyTwice`, `Retrieved` | uploads have no gaps; only whole files are merged; what arrives is merged unless a count is lost |
| `framing` | 3 bytes of 2 values, messages of 1 to 7 bytes, data of 0 to 2, a client or a node receiving | `TypeOK`, `Framed`, `CopiedWhole`, `ReceiveEnds` | messages come whole or not at all, and data too, but for a node whose connection breaks; `Receive` ends unless the connection breaks within a message |

Three more runs look for a behaviour that a document of the repository excludes, and
find it. `PROJECT.json` quotes the documents, and names the lines of the code.

| Run | Instance | Property | The counterexample |
|---|---|---|---|
| `restart_garbled` | 1 name, 2 connections, `Overlap` | `RestartPossible` | two overlapping writes of one name leave a metadata file that stops every later start |
| `delete_unreported` | 1 name, 1 connection | `DeleteSurvives` | a delete before the first heartbeat ends the controller |
| `failure_of_one_in_three` | 3 nodes, 3 replicas | `FailureSurvives` | one death among three nodes ends the controller |

### Refinements

`ImplementsNamespace` maps `file` to `fileMap`, or to what `loadData` would make of
the disk while the process is down, and `told` to the FileInfo a read has looked up.
It holds with `Overlap = FALSE`; `restart_garbled` shows why not without.
`ImplementsChunkStore` maps `dir` to the chunks with a metadata file (`Kept`); it holds
with everything overlapping, crashes and repairs. `storing` and `deleting` are
history: what nodes were told. Both refinements are proved as well (section 6).

### Bounds, and why they are enough

Controller. Two connections give every pair of requests and
heartbeats; no step of the code looks at more than one other goroutine's effect
at a time. Names share only the filter, whose no-false-negative theorem is
proved for all names, so one name suffices; a deleted name whose bits remain
gives the false positives. `Word`, `NumBits` and the sums are chosen so that both
the uint32 sum and the reduction to the filter's length wrap. Two `FileInfo`s of
different line length are the least that garble a file, of different chunk
counts the least that overrun a read. `MaxReplicas` is 3 in the code; 2 of 3 nodes
gives the loop that draws more than once and a node left over, 3 of 3
nodes gives the early exit. `MaxOrders = 1` keeps the
requests on their way apart: each is checked when it is sent. The third node of
`controller_failover` is what makes an order with a source that is not its target
possible: the failed node, the one that still has the chunk, and a new one. With
two replacements, three nodes and requests at the same time are too many states for
a routine run; `controller_repairs` has the two replacements with two nodes, and one
connection serves the heartbeats there. Deletes are left out of both for the same
reason, and `controller_overlap` has them with a replacement. The disjunct of
`SourcesHold` for a source that was told to delete the chunk is therefore used only
by the theorem, which has no such bound.

Storage nodes. Two nodes are the least with a replica, and with mutual repair;
chunks share nothing but the counter. `Limit` says how often each thing from outside
happens, `Total` how many altogether: three bring together, say, an upload, a
delete that crosses it and a crash. `Overlap = FALSE` in `chunk_repair` lets a
request for a chunk come when nothing is under way for it. `chunk_repair` takes five:
an upload, a read, two damages (both copies, or one twice) and a failed dial. Two
slots serve a read and the fetch it leads to; slots only name goroutines. A
heartbeat that adds nothing to what the controller knows is left out. Three nodes
are beyond a routine run of `chunk_repair`, so a first replica that is torn while the
next one is whole is not in it. `Repaired` would not hold there for a reason outside
the model: `Lookup` may name the torn replica first in every round, as the random
order of a Go map may, and no fairness of the code rules that out. The property
therefore asks that the other copies the controller knows of be whole.

Others. Two connections and the monitor give a reader, a waiting writer and a
kept-out reader at once. Three client goroutines are two that race on the
counters and the one that asks; a file of two chunks, the last short, and one
whose only chunk is full give both ends of the upload loop. `Crossing` bounds the
commands when one does not wait for those before it. Seven sizes are all that
three binary digits hold, so every short read of the prefix gives some other number.

Nodes, connections and replacements are symmetric where a run declares so; no
run with symmetry checks liveness. Deadlock is checked in the runs of the
controller; elsewhere the bounded number of requests, or the end of a process,
stops the system.

### Fairness

- `StorageNode`: weak fairness of every goroutine and of the controller's
  look-up (the scheduler runs them); strong fairness of `Receive` per node and
  kind of message, because the bounded slots may be taken and given up, where the code starts a goroutine at once.
  None for heartbeats, requests or faults.
- `NodesLock`: weak fairness of goroutines that hold the lock or ask for a
  read lock; strong fairness of `TakeWrite`, since `sync.RWMutex` takes its inner
  mutex, which hands itself to a goroutine that has waited a millisecond.
- `Client`: weak fairness of goroutines and of the listener. None for commands,
  answers or failures.
- `MessageFraming`: weak fairness of both ends; none for `Break`.

The conclusions of the liveness properties name what may prevent them: a process
that ended, damage, a failed dial, a lost count. `Prompt` (a repair round
is over when its five seconds are) is a constant of the instance, stated where a
property needs it.

## 6. What is proved

Everything below holds for any number of files, chunks, nodes, connections,
replacements and faults: the bounds of the instances (`Limit`, `MaxCommands`,
`MaxOrders` ...) are constants of any size. The assumptions are those of the modules:
constants of the right kind (a positive number of bits, hash functions and
replicas; finitely many nodes; finitely many files; a chunk size above 0; a byte
of at least two values, and lengths that fit the prefix), and that `None` is not
one of the things it stands beside.

| Module | Theorem | Statement |
|---|---|---|
| `ControllerProofs` | `NoFalseNegative` | what was put into the filter is found, whatever else is put |
| | `TypeCorrect` | `Spec => []TypeOK` |
| | `FilterCorrect`, `MetadataDurable`, `TableDurable` | `Spec => []` of `BloomCoversNames`, `RegisteredIsOnDisk`, `LocatedIsOnDisk` |
| `ControllerSerialProofs` | `SerialCorrect` | `~Overlap` implies `Spec => []SerialInv` |
| | `GrantsDurable`, `WrittenOnce`, `MemoryDurable`, `Restartable` | under `~Overlap`, `Spec => []` of `GrantedIsIntact`, `WriteOnce`, `MemoryMatchesDisk`, `RestartPossible` |
| | `NamespaceImplemented` | under `~Overlap`, `Spec => ImplementsNamespace` |
| `ControllerRepairProofs` | `DrawingEnds` | `Spec => []DrawingCanEnd` |
| | `OrdersCorrect` | `Spec => OrdersSound`, an action property |
| | `SourcesCorrect` | `Spec => []SourcesHold` |
| | `LocationsWatched` | `Spec => LocationWatched`, an action property |
| `NodesLockProofs` | `TypeCorrect`, `LockCorrect`, `ListsConsistent` | `Spec => []` of `TypeOK`, `LockInv`, `ListConsistent` |
| `StorageNodeProofs` | `TypeCorrect` | `Spec => []TypeOK` |
| | `ChunkStoreImplemented` | `Spec => ImplementsChunkStore` |
| `StorageFilesProofs` | `FilesCorrect`, `DeletesReach`, `ServedCorrect` | `Spec => []` of `FilesAgree`, `DeleteReaches`, `ServedWhole` |
| | `FilesKept` | `Spec => FilesStay`, an action property |
| | `CountsCorrect` | `Spec => []CountsChunks` |
| `ClientProofs` | `TypeCorrect` | `Spec => []TypeOK` |
| | `UploadedInOrder`, `MergedWhole`, `MissingSecondTime` | `Spec => []` of `StoredInOrder`, `MergesWhole`, `MissingOnlyTwice` |
| `MessageFramingProofs` | `NumberComesBack` | `Uint(PutUint(n)) = n` for every `n` below `Weight[PrefixLength]` |
| | `TypeCorrect`, `MessagesFramed`, `DataCopied` | `Spec => []` of `TypeOK`, `Framed`, `CopiedWhole` |

`ControllerProofs`. `TypeOK` is inductive as it stands because it ties the type of a
connection's message to its position (`MessageOK`); the proof has one lemma per
group of actions. The three invariants of every behaviour are inductive together
with it: each names the request that may be between the two things it relates
(`Busy`), and the steps are grouped into those of one connection (`BloomConnection`,
`DiskConnection`, `TableConnection`, which use that other connections stay where
they are, `OthersStay`), those that end the process, the restart, and those that
leave all of it alone (`BackgroundObserved`).

`ControllerSerialProofs`. None of `GrantedIsIntact`, `WriteOnce` and
`MemoryMatchesDisk` is inductive: that a write of a granted name is refused needs the
name to be in `fileMap` and in the filter, which after a crash needs the file to be
whole, which needs the earlier write to have been alone on it. `SerialInv` says
all of that: requests on one name are `Alone`, no file is garbled (`Whole`), the
entry of a name no request is changing is what the file says (`Loaded`), a granted
file is intact, and `Progress` gives the entry, file and descriptor at each step of
a request. A step changes only its own name (`Footprint`), so `LocalSuffices`
reduces each to what it does to that name (`Local`). `NamespaceImplemented` takes from it,
for each step, which action of `Namespace` it is: the name is taken in `SaveName`, granted in `Place`,
released in `RemoveMeta`, and lost in `DropName`, or in a crash before it is granted. `Overlap` cannot
be dropped: `restart_garbled` refutes the refinement's consequence.

`ControllerRepairProofs` has no hypothesis: any number of repairs, requests on one name,
deletes and heartbeats of one node may overlap. `TableInv` says that a chunk not in
`fileChunkMap` has no nodes there and that a repair shares the nodes of its chunk only
while it is in it. `DrawingEnds` is about finite sets: what was drawn contains the
sources and, unless these were too many to begin with, stays short of `MAX_REPLICAS`
(`DrawInv`), so that where enough nodes are active there is a set of draws that fills
it up exactly (`FillUp`, `WayOut`). The two cases the property leaves out are real and cannot be
proved away: a failed node that is heard of again while its chunks are being replaced
may leave a loop that no draw ends, since every draw of it is passed over (line 242)
while it still counts as active (line 250). `OrdersInv` says of each repair that its
sources and the nodes its chunk has now differ only by nodes in `moved`
(`RepairSound`); what another repair prunes, or a heartbeat adds, goes there in the same
step, so a draw that the map does not have is no source unless it moved. `HoldInv`
says that every node located, listed in a heartbeat, among the sources of a repair
or of an order has the chunk on disk or was told to delete it. `LocationsWatched` is
about steps: each is shown to keep a watched location watched, to hand the watch on
(a heartbeat that registered a chunk to its list, the list to the repair that
`Monitor` starts, the repair to `Prune`, which takes the location away), or to be the
`Activate` of a heartbeat without the chunk (`WatchKept`).

`NodesLockProofs`. `LockInv` says where each goroutine is that holds the lock or
waits for it; `ListConsistent` is one of its parts. What follows from a leaked lock is a
liveness property (`LeakFreezes`) and left to TLC.

`StorageNodeProofs`. Every chunk list under way, in a message, a goroutine or a
pipeline's rest, names only nodes in `storing` (or `deleting`, for a delete): `NamedInv`.
With it each `CreateMeta` and `RemoveMeta`, and each end of a process with its
restart, is a step of `ChunkStore`, and every other step leaves `Kept` alone.

`StorageFilesProofs`. `ChunksInv` is, for each chunk whose requests did not cross:
all that is under way for it comes of one kind of request (`OneKind`); files that do
not agree are being worked on, by a goroutine whose position says how (`FilesOK`);
a node that a delete named has lost the chunk, or a message or a goroutine still
has it on its list (`DeleteOK`, `Pending`); and a goroutine that looks at the chunk
for a client is alone with it, but for those asleep (`ServedOK`, `Alone`). A step is
about one chunk and leaves the others' invariants alone (`Elsewhere`), so each
lemma is about the chunk of the goroutine that moves. TLC checked all of it
first; it refuted an earlier `DeleteReaches` and an earlier `FilesStay` (section 4).

`FilesKept` needs two more invariants. While nothing is deleted (`HeldInv`), whatever
names a node as a place to read a chunk from, a list in a message, the controller's
locations, a heartbeat being gathered, names one that has its metadata file
(`Holders`), and that file stays. So heartbeats and deletes end nothing; what is left
is a goroutine that validates a chunk while another one on the node is between its
two files. While repairs are over in time (`TurnInv`), whatever goes on for a chunk is
one of three (`InTurn`): uploads being stored (`Writing`), a single request under way
(`Requested`), or a single goroutine that reads or asks (`Looked`), everyone else
asleep in the repair loop (`Rests`). So one that validates is with nobody who stores.

`CountsCorrect` counts. A chunk is `Owed` by a node's counter from the step that counts
it to the step that takes it off, and `Due` as long as a message or a goroutine is to
bring it to the node; the counter is at least the number of the chunks owed, and with
those due at most the number of uploads (`CountOK`). Each step moves one chunk of one
node from one to the other, because a request gets to each node at most once: the
lists under way for a chunk are `Apart` and name no node twice (`Once`). That the
chunk a delete takes off is owed keeps the counter from wrapping below zero.

`MessageFramingProofs`. `StreamInv` says that what was read and what is still on the
wire are, in order, a beginning of what was written (`WireOK`, `BuffersOK`), where
`Stream` is the whole of what a sender writes, and how far the receiver is
(`ReceiverOK`), which at the end of a stream depends on its `role`. The length is the one sent because its digits give it back
(`NumberComesBack`): by induction on the number of digits, the first `i` of them are
the remainder by `Weight[i]` (`OneMoreDigit`, `UintSteps`). The induction is about a set
of numbers and its least member (`Smallest`, from the well-foundedness of the natural
numbers), and so are the lemmas that unfold the recursive functions (`Recursion`).

`ClientProofs`. `ClientInv` is `TypeOK` and, until commands cross, `Orderly`. An upload
and the start of a read are all there is of their command (`SoleMail`, `SoleJob`), so
the globals are about their file. While a file is read, each chunk is at most
one of: to be asked for, on its way, being saved (`Once`); it is `Open` while it is. A
chunk is `Counted` when it is on disk, whole, and no longer open, and before the
first merge neither `chunksReceived` nor what a goroutine has loaded of it exceeds
the number of those (`CountOK`): a store of an old count plus one is still at most
that, as the goroutine's own chunk is counted by its step. So a count that is
complete means that all chunks are counted and none is open, which is what the
first merge relies on to its end (`MergeOK`). A second merge is not excluded, which
is why `MergesWhole` and `MissingOnlyTwice` say `merges`.

Only model-checked:

- Liveness (`Served`, `DeadNoticed`, `LeakFreezes`, `Replicates`, `Repaired`,
  `ReadAnswered`, `Retrieved`, `ReceiveEnds`): fairness is out of the prover's reach.
- The three violations, which are counterexamples.

## 7. Not modelled

- Splitting of typed command lines, and the start and stop scripts: no state
  beyond the globals a command sets, which `Client` has.
- The protobuf wire format: `MessageFraming` assumes that a message of misaligned
  bytes is refused or taken for another one.
- The murmur3 and SHA-256 functions: two constant functions, and contents that
  are told apart.
- Loss of files that were written but not synced: what an operating-system
  crash leaves of them is outside the code.
- Time: a node may fall silent, and a repair be late, whenever the model lets it.
- A storage node's `receivedBytes` and free space, a client's `sentBytes` and
  `chunksSent`: written, and shown or never read.
- An empty file: it has no chunks, so no chunk's arrival ever starts its merge.
