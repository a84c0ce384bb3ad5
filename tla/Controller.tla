----------------------------- MODULE Controller -----------------------------
(***************************************************************************)
(* hdfs/controller/controller.go as one process: the goroutine that serves *)
(* each connection, the monitor and the goroutines it starts to replace    *)
(* dead nodes.  They interleave at every point where the code gives up a   *)
(* lock, touches the disk or dials.  What the clients and the storage      *)
(* nodes contribute is kept to what the controller can observe: requests   *)
(* in any order, chunks that appear in and disappear from node             *)
(* directories, heartbeats that list a directory, nodes that fall silent.  *)
(*                                                                         *)
(* Names are file names that survive the text format of the metadata files *)
(* (no comma, colon, leading dot or outer space).                          *)
(***************************************************************************)
EXTENDS BloomFilter, FiniteSets

CONSTANTS
  Node,         \* addresses of storage nodes
  Conn,         \* bound: connections served at the same time
  Repairer,     \* bound: handleDeadNodes goroutines at the same time
  MaxOrders,    \* bound: Replica requests on their way at the same time
  Info,         \* values of FileInfo
  Total,        \* totalNumberOfChunks of a FileInfo
  LineLength,   \* length of the line saveFileMetadata writes for a FileInfo
  MaxReplicas,  \* messages.MAX_REPLICAS
  Kinds,        \* client requests in this instance: subset of ClientKind
  Overlap,      \* may requests on one name, heartbeats of one node, overlap?
  None

ClientKind == {"write", "read", "delete"}

ASSUME ControllerAssumption ==
  /\ Total \in [Info -> Nat]
  /\ LineLength \in [Info -> Nat \ {0}]
  /\ MaxReplicas \in Nat \ {0}
  /\ MaxOrders \in Nat
  /\ Kinds \subseteq ClientKind
  /\ Overlap \in BOOLEAN
  /\ None \notin Node \cup Info \cup Name
  /\ IsFiniteSet(Node)

\* A chunk: the name of its file and its number in it.
ChunkId == Name \X UNION {0 .. Total[i] - 1 : i \in Info}
ChunksOf(f, i) == {f} \X (0 .. Total[i] - 1)

VARIABLES
  status,    \* "up", or why the process ended
  fileMap,   \* name -> FileInfo, None where the map has no entry
  bits,      \* bf
  listed,    \* the chunk keys of fileChunkMap
  locs,      \* the node addresses fileChunkMap holds for a chunk
  active,    \* the keys of activeNodesMap
  reported,  \* StorageNodeInfo.files of an active node
  pc,        \* where the goroutine of a connection is in handleClientRequest
  msg,       \* the message it serves
  found,     \* connections whose bf.Get said yes, until the look-up
  linked,    \* connections whose open metadata file still has its name, until
             \* the line is written
  repair,    \* the handleDeadNodes goroutines
  metaDisk,  \* FileMetaData/<name>
  tableDisk, \* names with a file in ChunkStorageNodeMetadata
  dir,       \* ChunkMetaData of each storage node
  storing,   \* <<chunk, node>>: chunk writes that nodes were named for
  deleting,  \* <<chunk, node>>: chunk deletions requested of storage nodes
  orders,    \* Replica requests sent to storage nodes
  granted    \* history: names whose writer was given locations, not deleted

names    == <<fileMap, bits>>
table    == <<listed, locs>>
nodes    == <<active, reported>>
serving  == <<pc, msg, found, linked>>
disk     == <<metaDisk, tableDisk>>
cluster  == <<dir, storing, deleting, orders>>
vars     == <<status, names, table, nodes, serving, repair, disk, cluster,
              granted>>

-----------------------------------------------------------------------------
(* Types. *)

WritePc  == {"saveName", "createMeta", "writeMeta", "bloomPut", "place"}
ClientPc == WritePc \cup
            {"filter", "lookup", "sendDeletes", "removeTable", "dropTable",
             "failTable", "removeMeta", "dropName", "failName", "readInfo",
             "readChunks"}
BeatPc   == {"register", "saveTable", "activate"}

FileMetadata == [kind : ClientKind, name : Name, info : Info \cup {None}]
Heartbeat    == [node : Node, files : SUBSET ChunkId]

\* The content of a metadata file: the line written last and the file's
\* length, which exceeds that line's when a longer one was overwritten.
MetaFile  == {d \in [exists : BOOLEAN, head : Info \cup {None}, size : Nat] :
                d.head # None => d.exists}
NoFile    == [exists |-> FALSE, head |-> None, size |-> 0]
EmptyFile == [exists |-> TRUE, head |-> None, size |-> 0]
Intact(f) == metaDisk[f].head # None
             /\ metaDisk[f].size = LineLength[metaDisk[f].head]
Garbled(f) == metaDisk[f].head # None
              /\ metaDisk[f].size # LineLength[metaDisk[f].head]

\* One handleDeadNodes goroutine: the chunks it has left, and the locals of
\* replaceFailedNode.  allChunkNodes aliases the entry of fileChunkMap while
\* that entry is attached; after a delete the goroutine holds the only copy.
\* History: moved has the nodes that heartbeats added to that entry, and other
\* repairs took off it, since the goroutine read the sources from it.
Repair == {r \in [todo : SUBSET (Node \X ChunkId), failed : Node \cup {None},
                   chunk : ChunkId \cup {None}, sources : SUBSET Node,
                   working : SUBSET Node, target : Node \cup {None},
                   attached : BOOLEAN, held : SUBSET Node,
                   moved : SUBSET Node] :
             r.chunk # None => r.failed # None}
Resting == [todo |-> {}, failed |-> None, chunk |-> None, sources |-> {},
            working |-> {}, target |-> None, attached |-> FALSE, held |-> {},
            moved |-> {}]
Order == [chunk : ChunkId, failed : Node, target : Node, sources : SUBSET Node]

Cause == {"killed", "noNodes", "noReplica", "tableMissing", "nameMissing",
          "nilInfo", "overrun", "noTarget", "mapRace", "garbled"}

\* The message of a connection at l; one that writes, or has read, the FileInfo
\* has one.
MessageOK(l, m) ==
  /\ l \in BeatPc => m \in Heartbeat
  /\ l \in ClientPc =>
       /\ m \in FileMetadata
       /\ m.kind = "write" \/ l \in WritePc \cup {"readChunks"} => m.info \in Info

TypeOK ==
  /\ status \in Cause \cup {"up"}
  /\ fileMap \in [Name -> Info \cup {None}]
  /\ bits \subseteq Bit
  /\ listed \subseteq ChunkId
  /\ locs \in [ChunkId -> SUBSET Node]
  /\ active \subseteq Node
  /\ reported \in [Node -> SUBSET ChunkId]
  /\ pc \in [Conn -> ClientPc \cup BeatPc \cup {"idle"}]
  /\ msg \in [Conn -> FileMetadata \cup Heartbeat \cup {None}]
  /\ \A h \in Conn : MessageOK(pc[h], msg[h])
  /\ found \subseteq Conn
  /\ linked \subseteq Conn
  /\ repair \in [Repairer -> Repair]
  /\ metaDisk \in [Name -> MetaFile]
  /\ tableDisk \subseteq Name
  /\ dir \in [Node -> SUBSET ChunkId]
  /\ storing \subseteq ChunkId \X Node
  /\ deleting \subseteq ChunkId \X Node
  /\ orders \subseteq Order
  /\ granted \subseteq Name

-----------------------------------------------------------------------------
(* Connections. *)

Goto(h, l) == pc' = [pc EXCEPT ![h] = l]

Done(h) == /\ Goto(h, "idle")
           /\ msg' = [msg EXCEPT ![h] = None]
           /\ found' = found \ {h}
           /\ linked' = linked \ {h}

\* The connections that serve a client request on a name.
Concerning(f) == {h \in Conn : pc[h] \in ClientPc /\ msg[h].name = f}

\* Some request on f is at one of these steps.
Busy(steps, f) == \E h \in Conn : pc[h] \in steps /\ msg[h].name = f

\* What the process leaves when it ends: the disk and the other machines.
Exit(cause) ==
  /\ status' = cause
  /\ fileMap' = [f \in Name |-> None]
  /\ bits' = {}
  /\ listed' = {}
  /\ locs' = [c \in ChunkId |-> {}]
  /\ active' = {}
  /\ reported' = [n \in Node |-> {}]
  /\ pc' = [h \in Conn |-> "idle"]
  /\ msg' = [h \in Conn |-> None]
  /\ found' = {}
  /\ linked' = {}
  /\ repair' = [g \in Repairer |-> Resting]

\* A client's request reaches a goroutine (the client sends TotalChunks and
\* the rest of the FileInfo with a write only).
ClientRequest(h, kind, f, i) ==
  /\ status = "up"
  /\ pc[h] = "idle"
  /\ kind \in Kinds
  /\ (i # None) <=> (kind = "write")
  /\ Overlap \/ Concerning(f) = {}
  /\ Goto(h, "filter")
  /\ msg' = [msg EXCEPT ![h] = [kind |-> kind, name |-> f, info |-> i]]
  /\ UNCHANGED <<status, names, table, nodes, found, linked, repair, disk,
                 cluster, granted>>

\* A storage node's heartbeat, with the chunks of its directory whose metadata
\* file had its line when it was read: one that is being written, for the first
\* time or again, adds none.
SendHeartbeat(h, n) ==
  /\ status = "up"
  /\ pc[h] = "idle"
  /\ Overlap \/ \A k \in Conn : pc[k] \in BeatPc => msg[k].node # n
  /\ Goto(h, "register")
  /\ \E S \in SUBSET dir[n] :
       msg' = [msg EXCEPT ![h] = [node |-> n, files |-> S]]
  /\ UNCHANGED <<status, names, table, nodes, found, linked, repair, disk,
                 cluster, granted>>

\* bf.Get, then the look-up in fileMap under its own lock.
BloomGet(h) ==
  /\ pc[h] = "filter"
  /\ found' = IF Get(bits, msg[h].name) THEN found \cup {h} ELSE found
  /\ Goto(h, "lookup")
  /\ UNCHANGED <<status, names, table, nodes, msg, linked, repair, disk,
                 cluster, granted>>

Present(h) == h \in found /\ fileMap[msg[h].name] # None

\* "with similar name already present", or "not found".
Refuse(h) ==
  /\ pc[h] = "lookup"
  /\ (msg[h].kind = "write") <=> Present(h)
  /\ Done(h)
  /\ UNCHANGED <<status, names, table, nodes, repair, disk, cluster, granted>>

FirstStep == [write |-> "saveName", delete |-> "sendDeletes",
              read |-> "readInfo"]

Admit(h) ==
  /\ pc[h] = "lookup"
  /\ (msg[h].kind # "write") <=> Present(h)
  /\ Goto(h, FirstStep[msg[h].kind])
  /\ found' = found \ {h}
  /\ UNCHANGED <<status, names, table, nodes, msg, linked, repair, disk,
                 cluster, granted>>

-----------------------------------------------------------------------------
(* Write: saveFileMetadata, bf.Put, sendStorageNodesToClient. *)

SaveName(h) ==
  /\ pc[h] = "saveName"
  /\ fileMap' = [fileMap EXCEPT ![msg[h].name] = msg[h].info]
  /\ Goto(h, "createMeta")
  /\ UNCHANGED <<status, bits, table, nodes, msg, found, linked, repair,
                 disk, cluster, granted>>

\* os.Create truncates a file that is there: another writer's open
\* descriptor then names the same, now empty, file.
CreateMeta(h) ==
  /\ pc[h] = "createMeta"
  /\ metaDisk' = [metaDisk EXCEPT ![msg[h].name] = EmptyFile]
  /\ linked' = linked \cup {h}
  /\ Goto(h, "writeMeta")
  /\ UNCHANGED <<status, names, table, nodes, msg, found, repair, tableDisk,
                 cluster, granted>>

\* The line goes to offset 0 of the descriptor; what a longer line left
\* beyond it stays.
WriteMeta(h) ==
  LET f == msg[h].name
      length == LineLength[msg[h].info]
      size == metaDisk[f].size
  IN /\ pc[h] = "writeMeta"
     /\ metaDisk' = IF h \in linked
                    THEN [metaDisk EXCEPT ![f] =
                            [exists |-> TRUE, head |-> msg[h].info,
                             size |-> IF size > length THEN size ELSE length]]
                    ELSE metaDisk
     /\ linked' = linked \ {h}
     /\ Goto(h, "bloomPut")
     /\ UNCHANGED <<status, names, table, nodes, msg, found, repair,
                    tableDisk, cluster, granted>>

BloomPut(h) ==
  /\ pc[h] = "bloomPut"
  /\ bits' = Put(bits, msg[h].name)
  /\ Goto(h, "place")
  /\ UNCHANGED <<status, fileMap, table, nodes, msg, found, linked, repair,
                 disk, cluster, granted>>

\* getStorageNodes: draw until MAX_REPLICAS distinct nodes are drawn, or stop
\* after the first draw when fewer than that are active.
Drawn(S) == Cardinality(S) = IF Cardinality(active) < MaxReplicas THEN 1
                             ELSE MaxReplicas

\* The locations reach the client, who then writes the chunks; or its dial-up
\* fails and the handler returns without a word.
Place(h) ==
  LET f == msg[h].name
      i == msg[h].info
  IN /\ pc[h] = "place"
     /\ \E S \in SUBSET active :
          /\ Drawn(S)
          /\ \/ /\ storing' = storing \cup (ChunksOf(f, i) \X S)
                /\ granted' = granted \cup {f}
             \/ UNCHANGED <<storing, granted>>
     /\ Done(h)
     /\ UNCHANGED <<status, names, table, nodes, repair, disk, dir, deleting,
                    orders>>

\* rand.Intn(0): no storage node is active.
PlaceNoNode(h) ==
  /\ pc[h] = "place"
  /\ active = {}
  /\ Exit("noNodes")
  /\ UNCHANGED <<disk, cluster, granted>>

-----------------------------------------------------------------------------
(* Delete: deleteFromStorageNodes, then deleteChunkFileInfoFromDisk. *)

Listed(f) == {c \in listed : c[1] = f}

\* One request per chunk, to one of its nodes, which passes it on to the
\* others; a node that cannot be dialled is skipped.
SendDeletes(h) ==
  LET f == msg[h].name
  IN /\ pc[h] = "sendDeletes"
     /\ \A c \in Listed(f) : locs[c] # {}
     /\ \E C \in SUBSET Listed(f) :
          deleting' = deleting \cup UNION {{c} \X locs[c] : c \in C}
     /\ Goto(h, "removeTable")
     /\ UNCHANGED <<status, names, table, nodes, msg, found, linked, repair,
                    disk, dir, storing, orders, granted>>

\* replicas[0] of a chunk that has no node left.
SendDeletesNoReplica(h) ==
  LET f == msg[h].name
  IN /\ pc[h] = "sendDeletes"
     /\ \E c \in Listed(f) : locs[c] = {}
     /\ \E C \in SUBSET Listed(f) :
          deleting' = deleting \cup UNION {{c} \X locs[c] : c \in C}
     /\ Exit("noReplica")
     /\ UNCHANGED <<disk, dir, storing, orders, granted>>

\* os.Remove of the chunk table's file; its error is looked at after the
\* entry has left the map.
RemoveTable(h) ==
  /\ pc[h] = "removeTable"
  /\ tableDisk' = tableDisk \ {msg[h].name}
  /\ Goto(h, IF msg[h].name \in tableDisk THEN "dropTable" ELSE "failTable")
  /\ UNCHANGED <<status, names, table, nodes, msg, found, linked, repair,
                 metaDisk, cluster, granted>>

\* Mutant: the entry stays in fileChunkMap.
RemainingAll(f) == listed

Remaining(f) == listed \ Listed(f)

\* delete(fileChunkMap, name): a repair that holds an inner map of the name
\* keeps it as it was.
DropTable(h) ==
  LET f == msg[h].name
  IN /\ pc[h] = "dropTable"
     /\ listed' = Remaining(f)
     /\ locs' = [c \in ChunkId |-> IF c[1] = f THEN {} ELSE locs[c]]
     /\ repair' = [g \in Repairer |->
                     IF repair[g].attached /\ repair[g].chunk \in Listed(f)
                     THEN [repair[g] EXCEPT !.attached = FALSE,
                                            !.held = locs[repair[g].chunk]]
                     ELSE repair[g]]
     /\ Goto(h, "removeMeta")
     /\ UNCHANGED <<status, names, nodes, msg, found, linked, disk, cluster,
                    granted>>

DropTableFails(h) ==
  /\ pc[h] = "failTable"
  /\ Exit("tableMissing")
  /\ UNCHANGED <<disk, cluster, granted>>

\* Writers that have the file open go on writing to a file without a name.
RemoveMeta(h) ==
  LET f == msg[h].name
  IN /\ pc[h] = "removeMeta"
     /\ metaDisk' = [metaDisk EXCEPT ![f] = NoFile]
     /\ linked' = linked \ Concerning(f)
     /\ granted' = granted \ {f}
     /\ Goto(h, IF metaDisk[f].exists THEN "dropName" ELSE "failName")
     /\ UNCHANGED <<status, names, table, nodes, msg, found, repair,
                    tableDisk, cluster>>

\* Mutant: the entry stays in fileMap.
DropNameKept(h) ==
  /\ pc[h] = "dropName"
  /\ Done(h)
  /\ UNCHANGED <<status, names, table, nodes, repair, disk, cluster, granted>>

DropName(h) ==
  /\ pc[h] = "dropName"
  /\ fileMap' = [fileMap EXCEPT ![msg[h].name] = None]
  /\ Done(h)
  /\ UNCHANGED <<status, bits, table, nodes, repair, disk, cluster, granted>>

DropNameFails(h) ==
  /\ pc[h] = "failName"
  /\ Exit("nameMissing")
  /\ UNCHANGED <<disk, cluster, granted>>

-----------------------------------------------------------------------------
(* Read: getFileMetadata, getStorageNodesForClient. *)

\* The reply is filled in from the entry, which sets its TotalChunks.
ReadInfo(h) ==
  LET i == fileMap[msg[h].name]
  IN /\ pc[h] = "readInfo"
     /\ i # None
     /\ msg' = [msg EXCEPT ![h].info = i]
     /\ Goto(h, "readChunks")
     /\ UNCHANGED <<status, names, table, nodes, found, linked, repair, disk,
                    cluster, granted>>

\* fileMap[filename].fileSize of an entry that went away since the look-up.
ReadInfoGone(h) ==
  /\ pc[h] = "readInfo"
  /\ fileMap[msg[h].name] = None
  /\ Exit("nilInfo")
  /\ UNCHANGED <<disk, cluster, granted>>

ReadChunks(h) ==
  /\ pc[h] = "readChunks"
  /\ Cardinality(Listed(msg[h].name)) <= Total[msg[h].info]
  /\ Done(h)
  /\ UNCHANGED <<status, names, table, nodes, repair, disk, cluster, granted>>

\* locations[i] beyond TotalChunks.
ReadChunksOverrun(h) ==
  /\ pc[h] = "readChunks"
  /\ Cardinality(Listed(msg[h].name)) > Total[msg[h].info]
  /\ Exit("overrun")
  /\ UNCHANGED <<disk, cluster, granted>>

-----------------------------------------------------------------------------
(* Heartbeats: saveStorageNodeInfo. *)

\* The repair r after node n was added to its chunk, or taken off it.
Moved(r, n) == [r EXCEPT !.moved = @ \cup {n}]

\* getAndSaveChunkInfoToMemory adds the node to every chunk it lists.  It
\* never takes a node off a chunk.
Register(h) ==
  LET m == msg[h]
  IN /\ pc[h] = "register"
     /\ listed' = listed \cup m.files
     /\ locs' = [c \in ChunkId |-> IF c \in m.files
                                   THEN locs[c] \cup {m.node} ELSE locs[c]]
     /\ repair' = [g \in Repairer |->
                     IF /\ repair[g].attached /\ repair[g].chunk \in m.files
                        /\ m.node \notin locs[repair[g].chunk]
                     THEN Moved(repair[g], m.node) ELSE repair[g]]
     /\ Goto(h, "saveTable")
     /\ UNCHANGED <<status, names, nodes, msg, found, linked, disk, cluster,
                    granted>>

\* saveChunkFileInfoToDisk writes one file per name in fileChunkMap; the read
\* lock it holds keeps the map as it is meanwhile.
SaveTable(h) ==
  /\ pc[h] = "saveTable"
  /\ tableDisk' = tableDisk \cup {c[1] : c \in listed}
  /\ Goto(h, "activate")
  /\ UNCHANGED <<status, names, table, nodes, msg, found, linked, repair,
                 metaDisk, cluster, granted>>

\* Mutant: a node that is already active keeps its first list of chunks.
ReportedOnce(m) == IF m.node \in active THEN reported[m.node] ELSE m.files

Reported(m) == m.files

Activate(h) ==
  LET m == msg[h]
  IN /\ pc[h] = "activate"
     /\ active' = active \cup {m.node}
     /\ reported' = [reported EXCEPT ![m.node] = Reported(m)]
     /\ Done(h)
     /\ UNCHANGED <<status, names, table, repair, disk, cluster, granted>>

-----------------------------------------------------------------------------
(* Dead nodes: monitorNodes, handleDeadNodes, replaceFailedNode. *)

\* The nodes of S have been silent for more than two heartbeat periods.  Time
\* is not modelled: any active node may have been.
Monitor(g, S) ==
  /\ status = "up"
  /\ repair[g] = Resting
  /\ S # {} /\ S \subseteq active
  /\ active' = active \ S
  /\ reported' = [n \in Node |-> IF n \in S THEN {} ELSE reported[n]]
  /\ repair' = [repair EXCEPT ![g] =
                  [Resting EXCEPT !.todo = UNION {{n} \X reported[n] : n \in S}]]
  /\ UNCHANGED <<status, names, table, serving, disk, cluster, granted>>

\* The next chunk: all of one node's chunks before those of another.
NextChunk(r) == {t \in r.todo : r.failed = t[1]
                            \/ \A u \in r.todo : u[1] # r.failed}

\* replaceFailedNode up to the drawing loop.  The failed node is deleted from
\* the inner map without a lock; a chunk that is gone gives a nil map.
Prune(g, t) ==
  LET r == repair[g]
      c == t[2]
      rest == locs[c] \ {t[1]}
  IN /\ r.chunk = None
     /\ t \in NextChunk(r)
     /\ locs' = [locs EXCEPT ![c] = rest]
     /\ repair' = [k \in Repairer |->
          IF k = g
          THEN [todo |-> r.todo \ {t}, failed |-> t[1], chunk |-> c,
                sources |-> rest, working |-> rest, target |-> None,
                attached |-> c \in listed, held |-> {}, moved |-> {}]
          ELSE IF repair[k].attached /\ repair[k].chunk = c /\ t[1] \in locs[c]
          THEN Moved(repair[k], t[1]) ELSE repair[k]]
     /\ UNCHANGED <<status, names, listed, nodes, serving, disk, cluster,
                    granted>>

\* allChunkNodes, which heartbeats and other repairs go on changing.
AllChunkNodes(r) == IF r.attached THEN locs[r.chunk] ELSE r.held

\* What one draw makes of workingChunkNodes and newReplicationNodeLoc; a draw
\* of the failed node is drawn again.
Working(r, n) == r.working \cup {n}
NewTargetAny(r, n) == n  \* mutant: no look at who has the chunk
NewTarget(r, n) == IF n \in AllChunkNodes(r) THEN r.target ELSE n
EnoughBeyond(S) == Cardinality(S) > MaxReplicas  \* mutant: a stricter test
                   \/ Cardinality(active) < MaxReplicas
Enough(S) == Cardinality(S) = MaxReplicas \/ Cardinality(active) < MaxReplicas

Draw(g, n) == /\ repair[g].chunk # None
              /\ n \in active \ {repair[g].failed}

\* The loop goes on.
PickMore(g, n) ==
  LET r == repair[g]
  IN /\ Draw(g, n)
     /\ ~Enough(Working(r, n))
     /\ repair' = [repair EXCEPT ![g].working = Working(r, n),
                                 ![g].target = NewTarget(r, n)]
     /\ UNCHANGED <<status, names, table, nodes, serving, disk, cluster,
                    granted>>

\* Mutant: the replicas are listed after the loop, new node included.
ReplicaOrderAll(r, n) == [chunk |-> r.chunk, failed |-> r.failed,
                          target |-> NewTarget(r, n), sources |-> Working(r, n)]

ReplicaOrder(r, n) == [chunk |-> r.chunk, failed |-> r.failed,
                       target |-> NewTarget(r, n), sources |-> r.sources]

\* The loop ends and the new node is told to fetch the chunk from the nodes
\* that had it, unless it cannot be dialled.
PickLast(g, n) ==
  LET r == repair[g]
      o == ReplicaOrder(r, n)
  IN /\ Draw(g, n)
     /\ Enough(Working(r, n))
     /\ o.target # None
     /\ \/ orders' = orders
        \/ orders' = orders \cup {o} /\ Cardinality(orders) < MaxOrders
     /\ repair' = [repair EXCEPT ![g] =
          IF r.todo = {} THEN Resting
          ELSE [Resting EXCEPT !.todo = r.todo, !.failed = r.failed]]
     /\ UNCHANGED <<status, names, table, nodes, serving, disk, dir, storing,
                    deleting, granted>>

\* addr[1] of strings.Split("", ":"): the loop ended without a new node.
PickNoTarget(g, n) ==
  LET r == repair[g]
  IN /\ Draw(g, n)
     /\ Enough(Working(r, n))
     /\ NewTarget(r, n) = None
     /\ Exit("noTarget")
     /\ UNCHANGED <<disk, cluster, granted>>

\* rand.Intn(0) in the drawing loop.
PickNoNode(g) ==
  /\ repair[g].chunk # None
  /\ active = {}
  /\ Exit("noNodes")
  /\ UNCHANGED <<disk, cluster, granted>>

\* Pruning deletes from an inner map, and drawing walks activeNodesMap and
\* looks into an inner map, without their locks.  The Go runtime ends the
\* process when it sees a map written while it is read or written.
PruneRaces(g, h) ==
  \E t \in NextChunk(repair[g]) :
    /\ repair[g].chunk = None
    /\ t[1] \in locs[t[2]]
    /\ \/ pc[h] = "register" /\ t[2] \in msg[h].files
       \/ pc[h] = "saveTable"
       \/ pc[h] \in {"sendDeletes", "readChunks"} /\ msg[h].name = t[2][1]

DrawRaces(g, h) ==
  /\ repair[g].chunk # None
  /\ \/ pc[h] = "activate"
     \/ pc[h] = "register" /\ repair[g].attached
                           /\ repair[g].chunk \in msg[h].files

RepairsRace(g, k) ==
  \E t \in NextChunk(repair[g]) :
    /\ repair[g].chunk = None
    /\ t[1] \in locs[t[2]]
    /\ \/ repair[k].attached /\ repair[k].chunk = t[2]
       \/ k # g /\ repair[k].chunk = None
                /\ \E u \in NextChunk(repair[k]) : u[2] = t[2]

\* The monitor deletes from activeNodesMap while a repair draws from it.
ExpiryRaces(g) == repair[g].chunk # None /\ active # {}

MapRace ==
  /\ \E g \in Repairer : \/ \E h \in Conn : PruneRaces(g, h) \/ DrawRaces(g, h)
                         \/ \E k \in Repairer : RepairsRace(g, k)
                         \/ ExpiryRaces(g)
  /\ Exit("mapRace")
  /\ UNCHANGED <<disk, cluster, granted>>

-----------------------------------------------------------------------------
(* The process ends, and starts again with loadData. *)

Kill == /\ status = "up"
        /\ Exit("killed")
        /\ UNCHANGED <<disk, cluster, granted>>

\* readFile puts every name it parses into fileMap and the filter; an empty
\* file has no line.
LoadedInfoNone(f) == None  \* mutant: the map starts empty
LoadedInfo(f) == IF Intact(f) THEN metaDisk[f].head ELSE None

LoadedBitsNone == {}       \* mutant: the filter starts empty
LoadedBits == UNION {GetBits(f) : f \in {e \in Name : Intact(e)}}

Restart ==
  /\ status # "up"
  /\ \A f \in Name : ~Garbled(f)
  /\ status' = "up"
  /\ fileMap' = [f \in Name |-> LoadedInfo(f)]
  /\ bits' = LoadedBits
  /\ UNCHANGED <<table, nodes, serving, repair, disk, cluster, granted>>

\* parseFile indexes the fields of the tail a longer line left behind.
RestartPanics ==
  /\ status # "up"
  /\ \E f \in Name : Garbled(f)
  /\ status' = "garbled"
  /\ UNCHANGED <<names, table, nodes, serving, repair, disk, cluster, granted>>

-----------------------------------------------------------------------------
(* What storage nodes do with what was asked of them (nodes/storagenode.go), *)
(* as far as a heartbeat shows it: what ChunkStore promises of them, which   *)
(* StorageNode implements.                                                   *)

Chunks == INSTANCE ChunkStore WITH Chunk <- ChunkId

StoreChunk(c, n) ==
  /\ Chunks!Store(c, n)
  /\ UNCHANGED <<status, names, table, nodes, serving, repair, disk, orders,
                 granted>>

DeleteChunk(c, n) ==
  /\ Chunks!Delete(c, n)
  /\ UNCHANGED <<status, names, table, nodes, serving, repair, disk, orders,
                 granted>>

\* The target has asked a source that has the chunk, which sends it.
CopyChunk(o) ==
  /\ o \in orders
  /\ \E n \in o.sources : o.chunk \in dir[n]
  /\ orders' = orders \ {o}
  /\ Chunks!TellStore({<<o.chunk, o.target>>})
  /\ UNCHANGED <<status, names, table, nodes, serving, repair, disk, granted>>

-----------------------------------------------------------------------------
Init ==
  /\ status = "up"
  /\ fileMap = [f \in Name |-> None]
  /\ bits = {}
  /\ listed = {}
  /\ locs = [c \in ChunkId |-> {}]
  /\ active = {}
  /\ reported = [n \in Node |-> {}]
  /\ pc = [h \in Conn |-> "idle"]
  /\ msg = [h \in Conn |-> None]
  /\ found = {}
  /\ linked = {}
  /\ repair = [g \in Repairer |-> Resting]
  /\ metaDisk = [f \in Name |-> NoFile]
  /\ tableDisk = {}
  /\ dir = [n \in Node |-> {}]
  /\ storing = {}
  /\ deleting = {}
  /\ orders = {}
  /\ granted = {}

Write(h) == \/ SaveName(h) \/ CreateMeta(h) \/ WriteMeta(h) \/ BloomPut(h)
            \/ Place(h) \/ PlaceNoNode(h)

Delete(h) == \/ SendDeletes(h) \/ SendDeletesNoReplica(h) \/ RemoveTable(h)
             \/ DropTable(h) \/ DropTableFails(h) \/ RemoveMeta(h)
             \/ DropName(h) \/ DropNameFails(h)

Read(h) == \/ ReadInfo(h) \/ ReadInfoGone(h)
           \/ ReadChunks(h) \/ ReadChunksOverrun(h)

Beat(h) == Register(h) \/ SaveTable(h) \/ Activate(h)

Request(h) ==
  \/ \E kind \in ClientKind, f \in Name, i \in Info \cup {None} :
       ClientRequest(h, kind, f, i)
  \/ \E n \in Node : SendHeartbeat(h, n)

Serve(h) == \/ BloomGet(h) \/ Refuse(h) \/ Admit(h)
            \/ Write(h) \/ Delete(h) \/ Read(h) \/ Beat(h)

Replace(g) ==
  \/ \E t \in repair[g].todo : Prune(g, t)
  \/ \E n \in Node : PickMore(g, n) \/ PickLast(g, n) \/ PickNoTarget(g, n)
  \/ PickNoNode(g)

Storage == \/ \E c \in ChunkId, n \in Node :
                StoreChunk(c, n) \/ DeleteChunk(c, n)
           \/ \E o \in orders : CopyChunk(o)

Next ==
  \/ \E h \in Conn : Request(h) \/ Serve(h)
  \/ \E g \in Repairer : Replace(g) \/ \E S \in SUBSET Node : Monitor(g, S)
  \/ MapRace \/ Kill \/ Restart \/ RestartPanics
  \/ Storage

Spec == Init /\ [][Next]_vars

-----------------------------------------------------------------------------
(* Properties of every behaviour, however requests and heartbeats overlap. *)

\* The steps of a write between fileMap and the filter.
Saving == {"createMeta", "writeMeta", "bloomPut"}

\* A name in fileMap is never missed by the filter, in particular not after a
\* restart, except while the request that saved it has yet to put it there:
\* bf.Get answering no for a registered name would lose the file to readers.
BloomCoversNames ==
  \A f \in Name : fileMap[f] # None => Get(bits, f) \/ Busy(Saving, f)

\* A name in fileMap has its metadata file, which a restart needs to know the
\* name, unless its writer is about to create the file or a delete that
\* removed it is about to remove the name.
RegisteredIsOnDisk ==
  \A f \in Name :
    fileMap[f] # None =>
      metaDisk[f].exists \/ Busy({"createMeta", "dropName"}, f)

\* A name with located chunks has the table file whose absence makes a delete
\* fatal, unless a heartbeat is about to write it or a delete that removed it
\* is about to drop the locations.
LocatedIsOnDisk ==
  \A c \in listed :
    \/ c[1] \in tableDisk
    \/ \E h \in Conn : pc[h] = "saveTable"
    \/ Busy({"dropTable"}, c[1])

-----------------------------------------------------------------------------
(* Properties when requests on one name do not overlap (Overlap = FALSE). *)

\* A name whose writer was told where to store its chunks keeps its metadata
\* file whole until it is deleted, whatever crashes in between.
GrantedIsIntact == \A f \in granted : Intact(f)

\* A write is let through to saveFileMetadata only when no earlier one of the
\* same name was granted, also before a crash, and not deleted since.
WriteOnce ==
  \A f \in granted : ~Busy(WritePc, f)

\* When nothing is in service on a name, what the controller answers about it
\* is what it would answer after a restart.
MemoryMatchesDisk ==
  \A f \in Name :
    status = "up" /\ Concerning(f) = {} =>
      fileMap[f] = IF Intact(f) THEN metaDisk[f].head ELSE None

\* The inductive invariant behind these three: what a name's entry and file
\* are at each step of the one request that may be in service on it.
Alone ==
  \A h, k \in Conn : pc[h] \in ClientPc /\ pc[k] \in ClientPc
                     /\ msg[h].name = msg[k].name => h = k

Stopped == status # "up" => /\ \A h \in Conn : pc[h] = "idle"
                            /\ \A f \in Name : fileMap[f] = None

Whole == \A f \in Name : ~Garbled(f)

Loaded ==
  \A f \in Name :
    status = "up" /\ ~Busy(WritePc \cup {"dropName", "failName"}, f) =>
      fileMap[f] = LoadedInfo(f)

DeletePc == {"sendDeletes", "removeTable", "dropTable", "failTable", "removeMeta"}

Progress(h, f, i) ==
  /\ pc[h] = "lookup" /\ fileMap[f] # None => h \in found
  /\ pc[h] = "saveName" => fileMap[f] = None
  /\ pc[h] \in {"saveName", "createMeta"} => ~Intact(f)
  /\ pc[h] = "writeMeta" => metaDisk[f] = EmptyFile /\ h \in linked
  /\ pc[h] \in {"bloomPut", "place"} => Intact(f) /\ metaDisk[f].head = i
  /\ pc[h] \in WritePc \ {"saveName"} => fileMap[f] = i
  /\ pc[h] \in WritePc => f \notin granted
  /\ pc[h] \in DeletePc \cup {"readInfo"} => fileMap[f] # None
  /\ pc[h] = "dropName" => metaDisk[f] = NoFile
  /\ pc[h] # "failName"

SerialInv ==
  /\ Alone /\ Stopped /\ Whole /\ Loaded /\ GrantedIsIntact
  /\ \A h \in Conn : pc[h] \in ClientPc => Progress(h, msg[h].name, msg[h].info)

\* What the names are taken for: the map's entry, or, while the process is
\* down, what a start will load.
Taken == [f \in Name |-> IF status = "up" THEN fileMap[f] ELSE LoadedInfo(f)]

\* The FileInfo a reader is being told.
Told == [h \in Conn |-> IF pc[h] = "readChunks" THEN msg[h].info ELSE None]

Names == INSTANCE Namespace WITH Reader <- Conn, file <- Taken, told <- Told

\* With its memory, filter, files, crashes and restarts the controller keeps the
\* promise Namespace states: a granted name stays taken, for the same FileInfo,
\* until it is deleted, and readers are told that FileInfo.
ImplementsNamespace == Names!Spec

-----------------------------------------------------------------------------
(* Properties of the replacement of dead nodes. *)

\* The death of node n will be noticed for chunk c: n is active and reported c,
\* or a heartbeat that located it is about to say so, or n is dead and its
\* replacement for c is due.
Watched(n, c) ==
  \/ n \in active /\ c \in reported[n]
  \/ \E h \in Conn : pc[h] \in {"saveTable", "activate"}
                    /\ msg[h].node = n /\ c \in msg[h].files
  \/ \E g \in Repairer : <<n, c>> \in repair[g].todo

\* Connection h takes in a heartbeat of node n that does not list chunk c.
Forgets(h, n, c) == /\ pc[h] = "activate" /\ pc'[h] = "idle"
                    /\ msg[h].node = n /\ c \notin msg[h].files

\* A location never starts unwatched and falls out of watch by one step only,
\* a heartbeat of its node that does not list the chunk: neither repairs, of
\* any number of nodes at once, nor deletes, nor heartbeats that overtake each
\* other leave a location behind that no later death takes away.
LocationWatched ==
  [][\A c \in ChunkId : \A n \in locs'[c] :
       ~Watched(n, c)' =>
         /\ n \in locs[c]
         /\ Watched(n, c) => \E h \in Conn : Forgets(h, n, c)]_vars

\* The order that repair r ends with is for a node that neither failed nor is
\* known to have the chunk, by the sources or by the map as it is now, and does
\* not list the failed node as a source.  A target that is known to have the
\* chunk is one that a heartbeat added, or another repair took off, since the
\* sources were read: the loop looks into a map that changes under it.
Sound(r, o) ==
  /\ o.chunk = r.chunk /\ o.failed = r.failed
  /\ o.failed \notin o.sources \cup {o.target}
  /\ o.target \in o.sources \cup AllChunkNodes(r) => o.target \in r.moved

\* "This is our new node": every order that is sent is sound for the repair
\* that ends with it, however repairs, heartbeats and deletes overlap.
OrdersSound ==
  [][\A o \in orders' \ orders :
       \E g \in Repairer : repair'[g].chunk = None /\ Sound(repair[g], o)]_vars

\* Some draws, of the nodes that are active now, end the drawing loop of repair
\* r, or no node is left to draw and the process ends.
CanEnd(r) ==
  \/ active = {}
  \/ \E T \in SUBSET (active \ {r.failed}) : T # {} /\ Enough(r.working \cup T)

\* The drawing loop of replaceFailedNode can always still end, but in two cases:
\* the chunk already had MAX_REPLICAS other nodes (a dead node that was replaced
\* and is back), and the loop, which stops at exactly that many, is beyond it;
\* or the failed node is active again, passed over by every draw, and the others
\* are too few.
DrawingCanEnd ==
  \A g \in Repairer :
    LET r == repair[g]
        others == active \ {r.failed}
    IN /\ r.chunk # None
       /\ Cardinality(r.sources) < MaxReplicas
       /\ r.failed \notin active \/ Cardinality(r.sources \cup others) >= MaxReplicas
       => CanEnd(r)

\* A node is told to fetch a chunk only from nodes that stored it, and that lack
\* it only if they were asked to delete it.
SourcesHold ==
  \A o \in orders : \A n \in o.sources :
    o.chunk \in dir[n] \/ <<o.chunk, n>> \in deleting

-----------------------------------------------------------------------------
(* What the documentation promises and the code does not keep. *)

\* loadData: "load data from the disk before startup if the controller fails".
\* Two overlapping writes of one name leave a metadata file it cannot load.
RestartPossible == \A f \in Name : ~Garbled(f)

\* A delete of a registered name ends in its removal and a success message; the
\* process does not end over a table file no heartbeat has written yet.
DeleteSurvives == status # "tableMissing"

\* "Detects node failures and maintains replication": replacing a dead node
\* does not end the process.
FailureSurvives == status # "noTarget"

=============================================================================
