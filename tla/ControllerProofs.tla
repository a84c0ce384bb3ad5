-------------------------- MODULE ControllerProofs --------------------------
(***************************************************************************)
(* Proofs about Controller, for every value of its constants.              *)
(***************************************************************************)
EXTENDS Controller, TLAPS

-----------------------------------------------------------------------------
(* The filter. *)

\* A position lies inside the bit array (getBits, bloom_filter.go:20-29).
LEMMA GetBitsType ==
  ASSUME NEW x \in Name
  PROVE  GetBits(x) \subseteq Bit
<1>1. ASSUME NEW k \in Int PROVE k % NumBits \in Bit
  BY FilterAssumption DEF Bit
<1>2. ASSUME NEW i \in 0 .. NumHashes - 1
      PROVE  (Sum1[x] + ((i * Sum2[x]) % Word)) % Word \in Int
  <2>1. /\ Sum1[x] \in Int /\ Sum2[x] \in Int /\ i \in Int
        /\ Word \in Nat \ {0}
    BY FilterAssumption
  <2>2. (i * Sum2[x]) \in Int
    BY <2>1
  <2>3. (i * Sum2[x]) % Word \in Int
    BY <2>1, <2>2
  <2>4. Sum1[x] + ((i * Sum2[x]) % Word) \in Int
    BY <2>1, <2>3
  <2>5. QED
    BY <2>1, <2>4
<1>3. QED
  BY <1>1, <1>2 DEF GetBits, Position

\* A filter never forgets: what was put is found, and stays found as other
\* names are put (Put and Get, bloom_filter.go:32-50).
THEOREM NoFalseNegative ==
  ASSUME NEW x, NEW B, NEW y
  PROVE  /\ Get(Put(B, x), x)
         /\ Get(B, x) => Get(Put(B, y), x)
BY DEF Get, Put

-----------------------------------------------------------------------------
(* Types. *)

\* The program starts with well-typed variables.
LEMMA InitType == Init => TypeOK
BY DEF Init, TypeOK, Resting, Repair, NoFile, MetaFile, ClientPc, BeatPc,
       WritePc, MessageOK

\* Ending the process leaves well-typed memory, whatever the cause.
LEMMA ExitType ==
  ASSUME TypeOK, NEW cause \in Cause, Exit(cause), UNCHANGED disk,
         UNCHANGED <<dir, storing, orders, granted>>,
         deleting' \subseteq ChunkId \X Node
  PROVE  TypeOK'
BY DEF TypeOK, Exit, disk, Resting, Repair, ClientPc, BeatPc, WritePc,
       MessageOK

\* The connection's own variables, when its request is finished.
LEMMA DoneType ==
  ASSUME TypeOK, NEW h \in Conn, Done(h)
  PROVE  /\ pc' \in [Conn -> ClientPc \cup BeatPc \cup {"idle"}]
         /\ msg' \in [Conn -> FileMetadata \cup Heartbeat \cup {None}]
         /\ \A k \in Conn : MessageOK(pc'[k], msg'[k])
         /\ found' \subseteq Conn
         /\ linked' \subseteq Conn
BY DEF TypeOK, Done, Goto, ClientPc, BeatPc, WritePc, MessageOK

\* The connection's own variables, when it goes on with the same message.
LEMMA GotoType ==
  ASSUME TypeOK, NEW h \in Conn, NEW l \in ClientPc \cup BeatPc, Goto(h, l),
         UNCHANGED msg, MessageOK(l, msg[h])
  PROVE  /\ pc' \in [Conn -> ClientPc \cup BeatPc \cup {"idle"}]
         /\ msg' \in [Conn -> FileMetadata \cup Heartbeat \cup {None}]
         /\ \A k \in Conn : MessageOK(pc'[k], msg'[k])
BY DEF TypeOK, Goto

\* The message served by a connection at one of the steps of a request is one
\* for the other steps of that request.
LEMMA StepMessage ==
  ASSUME TypeOK, NEW h \in Conn, pc[h] \in ClientPc,
         NEW l \in ClientPc \ {"readChunks"},
         l \in WritePc => pc[h] \in WritePc \/ msg[h].kind = "write"
  PROVE  MessageOK(l, msg[h])
BY DEF TypeOK, MessageOK, ClientPc, BeatPc, WritePc

\* A client request in service has its message.
LEMMA ServedMessage ==
  ASSUME TypeOK, NEW h \in Conn, pc[h] \in ClientPc
  PROVE  /\ msg[h] \in FileMetadata /\ msg[h].name \in Name
         /\ msg[h].kind \in ClientKind
         /\ pc[h] \in WritePc => msg[h].info \in Info
BY DEF TypeOK, MessageOK, FileMetadata

\* A new connection.
LEMMA RequestType ==
  ASSUME TypeOK, NEW h \in Conn, Request(h)
  PROVE  TypeOK'
<1> USE DEF names, table, nodes, disk, cluster
<1>1. ASSUME NEW kind \in ClientKind, NEW f \in Name, NEW i \in Info \cup {None},
             ClientRequest(h, kind, f, i)
      PROVE  TypeOK'
  <2>1. MessageOK("filter", [kind |-> kind, name |-> f, info |-> i])
    BY <1>1, ControllerAssumption
       DEF ClientRequest, MessageOK, FileMetadata, ClientPc, BeatPc, WritePc
  <2>2. [kind |-> kind, name |-> f, info |-> i] \in FileMetadata
    BY DEF FileMetadata
  <2>3. QED
    BY <1>1, <2>1, <2>2 DEF TypeOK, ClientRequest, Goto, ClientPc
<1>2. ASSUME NEW n \in Node, SendHeartbeat(h, n)
      PROVE  TypeOK'
  <2>1. PICK S \in SUBSET dir[n] :
          msg' = [msg EXCEPT ![h] = [node |-> n, files |-> S]]
    BY <1>2 DEF SendHeartbeat
  <2>2. [node |-> n, files |-> S] \in Heartbeat
    BY DEF Heartbeat, TypeOK
  <2>3. MessageOK("register", [node |-> n, files |-> S])
    BY <2>2 DEF MessageOK, ClientPc, WritePc
  <2>4. QED
    BY <1>2, <2>1, <2>2, <2>3 DEF TypeOK, SendHeartbeat, Goto, BeatPc
<1>3. QED
  BY <1>1, <1>2 DEF Request

\* The look-up that every client request starts with.
LEMMA LookupType ==
  ASSUME TypeOK, NEW h \in Conn, BloomGet(h) \/ Refuse(h) \/ Admit(h)
  PROVE  TypeOK'
<1> USE DEF names, table, nodes, disk, cluster
<1>1. CASE BloomGet(h)
  <2>1. MessageOK("lookup", msg[h])
    BY <1>1, StepMessage DEF BloomGet, ClientPc, WritePc
  <2>2. QED
    BY <1>1, <2>1, GotoType DEF TypeOK, BloomGet, ClientPc
<1>2. CASE Refuse(h)
  BY <1>2, DoneType DEF TypeOK, Refuse
<1>3. CASE Admit(h)
  <2>1. pc[h] \in ClientPc
    BY <1>3 DEF Admit, ClientPc
  <2>2. /\ FirstStep[msg[h].kind] \in ClientPc \ {"readChunks"}
        /\ FirstStep[msg[h].kind] \in WritePc => msg[h].kind = "write"
    BY <2>1, ServedMessage DEF FirstStep, ClientKind, ClientPc, WritePc
  <2>3. MessageOK(FirstStep[msg[h].kind], msg[h])
    BY <2>1, <2>2, StepMessage
  <2>4. QED
    BY <1>3, <2>2, <2>3, GotoType DEF TypeOK, Admit
<1>4. QED
  BY <1>1, <1>2, <1>3

\* The steps of a write.
LEMMA WriteType ==
  ASSUME TypeOK, NEW h \in Conn, Write(h)
  PROVE  TypeOK'
<1> USE DEF names, table, nodes, disk, cluster
<1>0. ASSUME pc[h] \in WritePc, NEW l \in WritePc, Goto(h, l), UNCHANGED msg
      PROVE  /\ pc' \in [Conn -> ClientPc \cup BeatPc \cup {"idle"}]
             /\ msg' \in [Conn -> FileMetadata \cup Heartbeat \cup {None}]
             /\ \A k \in Conn : MessageOK(pc'[k], msg'[k])
  BY <1>0, StepMessage, GotoType DEF ClientPc, WritePc
<1>1. ASSUME pc[h] \in WritePc
      PROVE  msg[h].name \in Name /\ msg[h].info \in Info
  BY <1>1, ServedMessage DEF ClientPc
<1>2. CASE SaveName(h)
  BY <1>0, <1>1, <1>2 DEF TypeOK, SaveName, WritePc
<1>3. CASE CreateMeta(h)
  <2>1. EmptyFile \in MetaFile
    BY DEF EmptyFile, MetaFile
  <2>2. QED
    BY <1>0, <1>1, <1>3, <2>1 DEF TypeOK, CreateMeta, WritePc
<1>4. CASE WriteMeta(h)
  <2>1. metaDisk' \in [Name -> MetaFile]
    BY <1>1, <1>4, ControllerAssumption DEF TypeOK, WriteMeta, MetaFile, WritePc
  <2>2. QED
    BY <1>0, <1>4, <2>1 DEF TypeOK, WriteMeta, WritePc
<1>5. CASE BloomPut(h)
  <2>1. Put(bits, msg[h].name) \subseteq Bit
    BY <1>1, <1>5, GetBitsType DEF TypeOK, BloomPut, Put, WritePc
  <2>2. QED
    BY <1>0, <1>5, <2>1 DEF TypeOK, BloomPut, WritePc
<1>6. CASE Place(h)
  <2>1. msg[h].name \in Name /\ msg[h].info \in Info
    BY <1>1, <1>6 DEF Place, WritePc
  <2>2. ChunksOf(msg[h].name, msg[h].info) \subseteq ChunkId
    BY <2>1 DEF ChunksOf, ChunkId
  <2>3. storing' \subseteq ChunkId \X Node /\ granted' \subseteq Name
    BY <1>6, <2>1, <2>2 DEF Place, TypeOK
  <2>4. QED
    BY <1>6, <2>3, DoneType DEF TypeOK, Place
<1>7. CASE PlaceNoNode(h)
  BY <1>7, ExitType DEF PlaceNoNode, Cause, TypeOK
<1>8. QED
  BY <1>2, <1>3, <1>4, <1>5, <1>6, <1>7 DEF Write

\* The steps of a delete.
LEMMA DeleteType ==
  ASSUME TypeOK, NEW h \in Conn, Delete(h)
  PROVE  TypeOK'
<1> USE DEF names, table, nodes, disk, cluster
<1>0. ASSUME pc[h] \in ClientPc, NEW l \in ClientPc \ (WritePc \cup {"readChunks"}),
             Goto(h, l), UNCHANGED msg
      PROVE  /\ pc' \in [Conn -> ClientPc \cup BeatPc \cup {"idle"}]
             /\ msg' \in [Conn -> FileMetadata \cup Heartbeat \cup {None}]
             /\ \A k \in Conn : MessageOK(pc'[k], msg'[k])
  BY <1>0, StepMessage, GotoType
<1>1. ASSUME pc[h] \in ClientPc
      PROVE  msg[h].name \in Name
  BY <1>1, ServedMessage
<1>2. ASSUME NEW C \in SUBSET Listed(msg[h].name)
      PROVE  UNION {{c} \X locs[c] : c \in C} \subseteq ChunkId \X Node
  BY DEF Listed, TypeOK
<1>3. CASE SendDeletes(h)
  <2>1. deleting' \subseteq ChunkId \X Node
    BY <1>2, <1>3 DEF SendDeletes, TypeOK
  <2>2. QED
    BY <1>0, <1>3, <2>1 DEF TypeOK, SendDeletes, ClientPc, WritePc
<1>4. CASE SendDeletesNoReplica(h)
  <2>1. deleting' \subseteq ChunkId \X Node
    BY <1>2, <1>4 DEF SendDeletesNoReplica, TypeOK
  <2>2. QED
    BY <1>4, <2>1, ExitType DEF SendDeletesNoReplica, Cause
<1>5. CASE RemoveTable(h)
  BY <1>0, <1>5 DEF TypeOK, RemoveTable, ClientPc, WritePc
<1>6. CASE DropTable(h)
  <2>1. repair' \in [Repairer -> Repair]
    <3>1. ASSUME NEW g \in Repairer, repair[g].chunk \in Listed(msg[h].name)
          PROVE  [repair[g] EXCEPT !.attached = FALSE,
                                   !.held = locs[repair[g].chunk]] \in Repair
      <4>1. repair[g] \in Repair /\ locs[repair[g].chunk] \in SUBSET Node
        BY <3>1 DEF TypeOK, Listed
      <4>2. QED
        BY <4>1 DEF Repair
    <3>2. QED
      BY <1>6, <3>1 DEF DropTable, TypeOK
  <2>2. locs' \in [ChunkId -> SUBSET Node] /\ listed' \subseteq ChunkId
    BY <1>6 DEF DropTable, Remaining, TypeOK
  <2>3. QED
    BY <1>0, <1>6, <2>1, <2>2 DEF TypeOK, DropTable, ClientPc, WritePc
<1>7. CASE DropTableFails(h)
  BY <1>7, ExitType DEF DropTableFails, Cause, TypeOK
<1>8. CASE RemoveMeta(h)
  <2>1. NoFile \in MetaFile
    BY DEF NoFile, MetaFile
  <2>2. QED
    BY <1>0, <1>1, <1>8, <2>1 DEF TypeOK, RemoveMeta, ClientPc, WritePc
<1>9. CASE DropName(h)
  BY <1>9, DoneType DEF TypeOK, DropName
<1>10. CASE DropNameFails(h)
  BY <1>10, ExitType DEF DropNameFails, Cause, TypeOK
<1>11. QED
  BY <1>3, <1>4, <1>5, <1>6, <1>7, <1>8, <1>9, <1>10 DEF Delete

\* The steps of a read.
LEMMA ReadType ==
  ASSUME TypeOK, NEW h \in Conn, Read(h)
  PROVE  TypeOK'
<1> USE DEF names, table, nodes, disk, cluster
<1>1. CASE ReadInfo(h)
  <2>1. /\ msg[h] \in FileMetadata
        /\ fileMap[msg[h].name] \in Info
    BY <1>1, ServedMessage DEF ReadInfo, ClientPc, TypeOK
  <2>2. [msg[h] EXCEPT !.info = fileMap[msg[h].name]] \in FileMetadata
    BY <2>1 DEF FileMetadata
  <2>3. MessageOK("readChunks", [msg[h] EXCEPT !.info = fileMap[msg[h].name]])
    BY <2>1, <2>2 DEF MessageOK, BeatPc, FileMetadata
  <2>4. QED
    BY <1>1, <2>2, <2>3 DEF TypeOK, ReadInfo, Goto, ClientPc
<1>2. CASE ReadInfoGone(h)
  BY <1>2, ExitType DEF ReadInfoGone, Cause, TypeOK
<1>3. CASE ReadChunks(h)
  BY <1>3, DoneType DEF TypeOK, ReadChunks
<1>4. CASE ReadChunksOverrun(h)
  BY <1>4, ExitType DEF ReadChunksOverrun, Cause, TypeOK
<1>5. QED
  BY <1>1, <1>2, <1>3, <1>4 DEF Read

\* A repair whose chunk got, or lost, a node is still one.
LEMMA MovedType ==
  ASSUME NEW r \in Repair, NEW n \in Node
  PROVE  Moved(r, n) \in Repair
BY DEF Repair, Moved

\* The steps of a heartbeat.
LEMMA BeatType ==
  ASSUME TypeOK, NEW h \in Conn, Beat(h)
  PROVE  TypeOK'
<1> USE DEF names, table, nodes, disk, cluster
<1>1. ASSUME pc[h] \in BeatPc
      PROVE  /\ msg[h].node \in Node
             /\ msg[h].files \subseteq ChunkId
             /\ \A l \in BeatPc : MessageOK(l, msg[h])
  BY <1>1 DEF TypeOK, MessageOK, Heartbeat, BeatPc, ClientPc, WritePc
<1>2. CASE Register(h)
  <2>1. repair' \in [Repairer -> Repair]
    BY <1>1, <1>2, MovedType DEF Register, TypeOK, BeatPc
  <2>2. QED
    BY <1>1, <1>2, <2>1, GotoType DEF TypeOK, Register, BeatPc
<1>3. CASE SaveTable(h)
  <2>1. {c[1] : c \in listed} \subseteq Name
    BY DEF TypeOK, ChunkId
  <2>2. QED
    BY <1>1, <1>3, <2>1, GotoType DEF TypeOK, SaveTable, BeatPc
<1>4. CASE Activate(h)
  BY <1>1, <1>4, DoneType DEF TypeOK, Activate, Reported, BeatPc
<1>5. QED
  BY <1>2, <1>3, <1>4 DEF Beat

\* Monitoring, and the goroutines it starts.
LEMMA MonitorType ==
  ASSUME TypeOK, NEW g \in Repairer, NEW S \in SUBSET Node, Monitor(g, S)
  PROVE  TypeOK'
<1>1. UNION {{n} \X reported[n] : n \in S} \subseteq Node \X ChunkId
  BY DEF TypeOK
<1>2. [Resting EXCEPT !.todo = UNION {{n} \X reported[n] : n \in S}] \in Repair
  BY <1>1 DEF Resting, Repair
<1>3. QED
  BY <1>2 DEF Monitor, TypeOK, names, table, serving, disk, cluster

\* A goroutine that replaces a dead node.
LEMMA ReplaceType ==
  ASSUME TypeOK, NEW g \in Repairer, Replace(g)
  PROVE  TypeOK'
<1> USE DEF names, table, nodes, serving, disk, cluster
<1> DEFINE r == repair[g]
<1>0. r \in Repair
  BY DEF TypeOK
<1>1. ASSUME NEW t \in r.todo, Prune(g, t)
      PROVE  TypeOK'
  <2>1. t \in Node \X ChunkId
    BY <1>0 DEF Repair
  <2>2. t[1] \in Node /\ t[2] \in ChunkId /\ locs[t[2]] \ {t[1]} \subseteq Node
    BY <2>1 DEF TypeOK
  <2>3. [todo |-> r.todo \ {t}, failed |-> t[1], chunk |-> t[2],
         sources |-> locs[t[2]] \ {t[1]}, working |-> locs[t[2]] \ {t[1]},
         target |-> None, attached |-> t[2] \in listed, held |-> {},
         moved |-> {}] \in Repair
    BY <1>0, <2>2, ControllerAssumption DEF Repair
  <2>4. repair' \in [Repairer -> Repair]
    BY <1>1, <2>2, <2>3, MovedType DEF Prune, TypeOK
  <2>5. QED
    BY <1>1, <2>2, <2>4 DEF Prune, TypeOK
<1>2. ASSUME NEW n \in Node
      PROVE  Working(r, n) \subseteq Node /\ NewTarget(r, n) \in Node \cup {None}
  BY <1>0 DEF Repair, Working, NewTarget
<1>3. ASSUME NEW n \in Node, PickMore(g, n)
      PROVE  TypeOK'
  <2>1. [r EXCEPT !.working = Working(r, n), !.target = NewTarget(r, n)] \in Repair
    BY <1>0, <1>2 DEF Repair
  <2>2. repair' = [repair EXCEPT ![g] =
                     [r EXCEPT !.working = Working(r, n), !.target = NewTarget(r, n)]]
    BY <1>3 DEF PickMore, TypeOK
  <2>3. QED
    BY <1>3, <2>1, <2>2 DEF PickMore, TypeOK
<1>4. ASSUME NEW n \in Node, PickLast(g, n)
      PROVE  TypeOK'
  <2>1. ReplicaOrder(r, n) \in Order
    <3>1. r.chunk \in ChunkId /\ r.failed \in Node /\ NewTarget(r, n) \in Node
      BY <1>0, <1>2, <1>4 DEF PickLast, Draw, ReplicaOrder, Repair
    <3>2. QED
      BY <1>0, <3>1 DEF Order, ReplicaOrder, Repair
  <2>2. Resting \in Repair
        /\ [Resting EXCEPT !.todo = r.todo, !.failed = r.failed] \in Repair
    BY <1>0 DEF Resting, Repair
  <2>3. QED
    BY <1>4, <2>1, <2>2 DEF PickLast, TypeOK
<1>5. ASSUME NEW n \in Node, PickNoTarget(g, n)
      PROVE  TypeOK'
  BY <1>5, ExitType DEF PickNoTarget, Cause, TypeOK
<1>6. CASE PickNoNode(g)
  BY <1>6, ExitType DEF PickNoNode, Cause, TypeOK
<1>7. QED
  BY <1>1, <1>3, <1>4, <1>5, <1>6 DEF Replace

\* The end of the process, and its restart.
LEMMA LifeType ==
  ASSUME TypeOK, MapRace \/ Kill \/ Restart \/ RestartPanics
  PROVE  TypeOK'
<1> USE DEF names, table, nodes, serving, disk, cluster
<1>1. CASE MapRace
  BY <1>1, ExitType DEF MapRace, Cause, TypeOK
<1>2. CASE Kill
  BY <1>2, ExitType DEF Kill, Cause, TypeOK
<1>3. CASE Restart
  <2>1. \A f \in Name : LoadedInfo(f) \in Info \cup {None}
    BY DEF LoadedInfo, Intact, TypeOK, MetaFile
  <2>2. LoadedBits \subseteq Bit
    BY GetBitsType DEF LoadedBits
  <2>3. QED
    BY <1>3, <2>1, <2>2 DEF Restart, TypeOK
<1>4. CASE RestartPanics
  BY <1>4 DEF RestartPanics, TypeOK, Cause
<1>5. QED
  BY <1>1, <1>2, <1>3, <1>4

\* What the storage nodes do.
LEMMA StorageType ==
  ASSUME TypeOK, Storage
  PROVE  TypeOK'
<1> USE DEF names, table, nodes, serving, disk, cluster
<1>1. ASSUME NEW c \in ChunkId, NEW n \in Node,
             StoreChunk(c, n) \/ DeleteChunk(c, n)
      PROVE  TypeOK'
  <2>1. /\ dir' \in [Node -> SUBSET ChunkId]
        /\ storing' = storing /\ deleting' = deleting /\ orders' = orders
    BY <1>1 DEF StoreChunk, DeleteChunk, Chunks!Store,
       Chunks!Delete, TypeOK
  <2>2. QED
    BY <1>1, <2>1 DEF StoreChunk, DeleteChunk, TypeOK
<1>2. ASSUME NEW o \in orders, CopyChunk(o)
      PROVE  TypeOK'
  BY <1>2 DEF CopyChunk, Chunks!TellStore, TypeOK, Order
<1>3. QED
  BY <1>1, <1>2 DEF Storage

\* Every step keeps the types.
LEMMA NextType == TypeOK /\ [Next]_vars => TypeOK'
<1> SUFFICES ASSUME TypeOK, [Next]_vars PROVE TypeOK'
  OBVIOUS
<1>1. CASE UNCHANGED vars
  BY <1>1 DEF TypeOK, vars, names, table, nodes, serving, disk, cluster
<1>2. ASSUME NEW h \in Conn, Request(h) \/ Serve(h)
      PROVE  TypeOK'
  BY <1>2, RequestType, LookupType, WriteType, DeleteType, ReadType, BeatType
     DEF Serve
<1>3. ASSUME NEW g \in Repairer, Replace(g) \/ \E S \in SUBSET Node : Monitor(g, S)
      PROVE  TypeOK'
  BY <1>3, ReplaceType, MonitorType
<1>4. QED
  BY <1>1, <1>2, <1>3, LifeType, StorageType DEF Next

\* Every variable keeps its type in every behaviour.
THEOREM TypeCorrect == Spec => []TypeOK
BY InitType, NextType, PTL DEF Spec

-----------------------------------------------------------------------------
(* The filter, the metadata files and the table files keep up with the maps. *)

\* A process that has ended registers and locates nothing.
LEMMA ExitSafe ==
  ASSUME NEW cause, Exit(cause)
  PROVE  BloomCoversNames' /\ RegisteredIsOnDisk' /\ LocatedIsOnDisk'
BY DEF Exit, BloomCoversNames, RegisteredIsOnDisk, LocatedIsOnDisk

\* The steps that end the process.
Ending == \E cause \in Cause : Exit(cause) /\ UNCHANGED <<metaDisk, granted>>

\* Every crash of the code, and a kill, is such a step.
LEMMA EndingSteps ==
  /\ \A h \in Conn : PlaceNoNode(h) \/ SendDeletesNoReplica(h) \/ DropTableFails(h)
                    \/ DropNameFails(h) \/ ReadInfoGone(h) \/ ReadChunksOverrun(h)
                    => Ending
  /\ \A g \in Repairer : PickNoNode(g) \/ (\E n \in Node : PickNoTarget(g, n))
                        => Ending
  /\ MapRace \/ Kill => Ending
BY DEF PlaceNoNode, SendDeletesNoReplica, DropTableFails, DropNameFails,
   ReadInfoGone, ReadChunksOverrun, PickNoNode, PickNoTarget, MapRace, Kill,
   Ending, Cause, disk

\* The steps of one connection leave the others alone.
LEMMA OthersStay ==
  ASSUME TypeOK, NEW h \in Conn, Request(h) \/ Serve(h), ~Ending
  PROVE  \A k \in Conn \ {h} : pc'[k] = pc[k] /\ msg'[k] = msg[k]
<1> USE DEF Goto, Done, TypeOK
<1>1. CASE Request(h)
  BY <1>1 DEF Request, ClientRequest, SendHeartbeat
<1>2. CASE BloomGet(h) \/ Refuse(h) \/ Admit(h)
  BY <1>2 DEF BloomGet, Refuse, Admit
<1>3. CASE Write(h)
  BY <1>3, EndingSteps DEF Write, SaveName, CreateMeta, WriteMeta, BloomPut, Place
<1>4. CASE Delete(h)
  BY <1>4, EndingSteps DEF Delete, SendDeletes, RemoveTable, DropTable,
       RemoveMeta, DropName
<1>5. CASE Read(h)
  BY <1>5, EndingSteps DEF Read, ReadInfo, ReadChunks
<1>6. CASE Beat(h)
  BY <1>6 DEF Beat, Register, SaveTable, Activate
<1>7. QED
  BY <1>1, <1>2, <1>3, <1>4, <1>5, <1>6 DEF Serve

\* The steps of a connection: the filter has the names of fileMap, up to the
\* request that is saving one (handleClientRequest, controller.go:634-649).
LEMMA BloomConnection ==
  ASSUME TypeOK, BloomCoversNames, NEW h \in Conn, Request(h) \/ Serve(h), ~Ending
  PROVE  BloomCoversNames'
<1> USE DEF Saving, names
<1> DEFINE Kept == /\ \A f \in Name : fileMap'[f] # None => fileMap[f] # None
                   /\ bits' = bits
                   /\ pc[h] \notin Saving
<1>1. ASSUME Kept PROVE BloomCoversNames'
  BY <1>1, OthersStay DEF BloomCoversNames, Busy, Get
<1>2. CASE Request(h)
  <2>1. Kept
    BY <1>2 DEF Request, ClientRequest, SendHeartbeat
  <2>2. QED
    BY <1>1, <2>1
<1>3. CASE BloomGet(h) \/ Refuse(h) \/ Admit(h)
  <2>1. Kept
    BY <1>3 DEF BloomGet, Refuse, Admit
  <2>2. QED
    BY <1>1, <2>1
<1>4. CASE Write(h)
  <2>1. CASE SaveName(h)
    <3>1. /\ pc'[h] = "createMeta" /\ msg'[h] = msg[h] /\ bits' = bits
          /\ \A f \in Name : f # msg[h].name => fileMap'[f] = fileMap[f]
          /\ pc[h] = "saveName"
      BY <2>1 DEF SaveName, Goto, TypeOK
    <3>2. QED
      BY <3>1, OthersStay DEF BloomCoversNames, Busy, Get
  <2>2. CASE CreateMeta(h) \/ WriteMeta(h)
    <3>1. /\ pc'[h] \in Saving /\ msg'[h] = msg[h]
          /\ bits' = bits /\ fileMap' = fileMap
      BY <2>2 DEF CreateMeta, WriteMeta, Goto, TypeOK
    <3>2. QED
      BY <3>1, OthersStay DEF BloomCoversNames, Busy, Get
  <2>3. CASE BloomPut(h)
    <3>1. bits' = Put(bits, msg[h].name) /\ fileMap' = fileMap
      BY <2>3 DEF BloomPut
    <3>2. QED
      BY <3>1, OthersStay, NoFalseNegative DEF BloomCoversNames, Busy, Put, Get
  <2>4. CASE Place(h)
    BY <1>1, <2>4 DEF Place
  <2>5. QED
    BY <1>4, <2>1, <2>2, <2>3, <2>4, EndingSteps DEF Write
<1>5. CASE Delete(h)
  <2>1. Kept
    BY <1>5, EndingSteps DEF Delete, SendDeletes, RemoveTable, DropTable,
       RemoveMeta, DropName, TypeOK
  <2>2. QED
    BY <1>1, <2>1
<1>6. CASE Read(h)
  <2>1. Kept
    BY <1>6, EndingSteps DEF Read, ReadInfo, ReadChunks
  <2>2. QED
    BY <1>1, <2>1
<1>7. CASE Beat(h)
  <2>1. Kept
    BY <1>7 DEF Beat, Register, SaveTable, Activate
  <2>2. QED
    BY <1>1, <2>1
<1>8. QED
  BY <1>2, <1>3, <1>4, <1>5, <1>6, <1>7 DEF Serve

\* The steps of a connection: a name in fileMap has its metadata file
\* (saveFileMetadata, deleteChunkFileInfoFromDisk, controller.go:74-118).
LEMMA DiskConnection ==
  ASSUME TypeOK, RegisteredIsOnDisk, NEW h \in Conn, Request(h) \/ Serve(h),
         ~Ending
  PROVE  RegisteredIsOnDisk'
<1> USE DEF names, disk
<1> DEFINE Kept == /\ fileMap' = fileMap
                   /\ metaDisk' = metaDisk
                   /\ pc[h] \notin {"createMeta", "dropName"}
<1>1. ASSUME Kept PROVE RegisteredIsOnDisk'
  BY <1>1, OthersStay DEF RegisteredIsOnDisk, Busy
<1>2. CASE Request(h)
  <2>1. Kept
    BY <1>2 DEF Request, ClientRequest, SendHeartbeat
  <2>2. QED
    BY <1>1, <2>1
<1>3. CASE BloomGet(h) \/ Refuse(h) \/ Admit(h)
  <2>1. Kept
    BY <1>3 DEF BloomGet, Refuse, Admit
  <2>2. QED
    BY <1>1, <2>1
<1>4. CASE Write(h)
  <2>1. CASE SaveName(h)
    <3>1. /\ pc'[h] = "createMeta" /\ msg'[h] = msg[h] /\ metaDisk' = metaDisk
          /\ \A f \in Name : f # msg[h].name => fileMap'[f] = fileMap[f]
          /\ pc[h] = "saveName"
      BY <2>1 DEF SaveName, Goto, TypeOK
    <3>2. QED
      BY <3>1, OthersStay DEF RegisteredIsOnDisk, Busy
  <2>2. CASE CreateMeta(h) \/ WriteMeta(h)
    <3>1. fileMap' = fileMap
          /\ \A f \in Name : metaDisk[f].exists => metaDisk'[f].exists
      BY <2>2 DEF CreateMeta, WriteMeta, EmptyFile, TypeOK
    <3>2. /\ pc[h] \in {"createMeta", "writeMeta"}
          /\ pc[h] = "createMeta" => metaDisk'[msg[h].name].exists
      BY <2>2, ServedMessage
         DEF CreateMeta, WriteMeta, EmptyFile, TypeOK, ClientPc, WritePc
    <3>3. QED
      BY <3>1, <3>2, OthersStay DEF RegisteredIsOnDisk, Busy
  <2>3. CASE BloomPut(h) \/ Place(h)
    BY <1>1, <2>3 DEF BloomPut, Place
  <2>4. QED
    BY <1>4, <2>1, <2>2, <2>3, EndingSteps DEF Write
<1>5. CASE Delete(h)
  <2>1. CASE SendDeletes(h) \/ RemoveTable(h) \/ DropTable(h)
    BY <1>1, <2>1 DEF SendDeletes, RemoveTable, DropTable
  <2>2. CASE RemoveMeta(h)
    <3>1. /\ msg'[h] = msg[h] /\ fileMap' = fileMap /\ pc[h] = "removeMeta"
          /\ metaDisk[msg[h].name].exists => pc'[h] = "dropName"
          /\ \A f \in Name : f # msg[h].name => metaDisk'[f] = metaDisk[f]
      BY <2>2 DEF RemoveMeta, Goto, TypeOK
    <3>2. QED
      BY <3>1, OthersStay DEF RegisteredIsOnDisk, Busy
  <2>3. CASE DropName(h)
    <3>1. /\ metaDisk' = metaDisk /\ pc[h] = "dropName"
          /\ \A f \in Name : fileMap'[f] = IF f = msg[h].name THEN None
                                          ELSE fileMap[f]
      BY <2>3 DEF DropName, TypeOK
    <3>2. QED
      BY <3>1, OthersStay DEF RegisteredIsOnDisk, Busy
  <2>4. QED
    BY <1>5, <2>1, <2>2, <2>3, EndingSteps DEF Delete
<1>6. CASE Read(h)
  <2>1. Kept
    BY <1>6, EndingSteps DEF Read, ReadInfo, ReadChunks
  <2>2. QED
    BY <1>1, <2>1
<1>7. CASE Beat(h)
  <2>1. Kept
    BY <1>7 DEF Beat, Register, SaveTable, Activate
  <2>2. QED
    BY <1>1, <2>1
<1>8. QED
  BY <1>2, <1>3, <1>4, <1>5, <1>6, <1>7 DEF Serve

\* The steps of a connection: a name with located chunks has its table file
\* (controller.go:104-118, 339-393).
LEMMA TableConnection ==
  ASSUME TypeOK, LocatedIsOnDisk, NEW h \in Conn, Request(h) \/ Serve(h), ~Ending
  PROVE  LocatedIsOnDisk'
<1> USE DEF table, disk
<1> DEFINE Kept == /\ listed' = listed
                   /\ tableDisk' = tableDisk
                   /\ pc[h] \notin {"saveTable", "dropTable"}
<1>1. ASSUME Kept PROVE LocatedIsOnDisk'
  BY <1>1, OthersStay DEF LocatedIsOnDisk, Busy
<1>2. CASE Request(h)
  <2>1. Kept
    BY <1>2 DEF Request, ClientRequest, SendHeartbeat
  <2>2. QED
    BY <1>1, <2>1
<1>3. CASE BloomGet(h) \/ Refuse(h) \/ Admit(h)
  <2>1. Kept
    BY <1>3 DEF BloomGet, Refuse, Admit
  <2>2. QED
    BY <1>1, <2>1
<1>4. CASE Write(h)
  <2>1. Kept
    BY <1>4, EndingSteps DEF Write, SaveName, CreateMeta, WriteMeta, BloomPut, Place
  <2>2. QED
    BY <1>1, <2>1
<1>5. CASE Delete(h)
  <2>1. CASE SendDeletes(h) \/ RemoveMeta(h) \/ DropName(h)
    BY <1>1, <2>1 DEF SendDeletes, RemoveMeta, DropName
  <2>2. CASE RemoveTable(h)
    <3>1. /\ msg'[h] = msg[h] /\ listed' = listed /\ pc[h] = "removeTable"
          /\ tableDisk' = tableDisk \ {msg[h].name}
          /\ msg[h].name \in tableDisk => pc'[h] = "dropTable"
      BY <2>2 DEF RemoveTable, Goto, TypeOK
    <3>2. QED
      BY <3>1, OthersStay DEF LocatedIsOnDisk, Busy
  <2>3. CASE DropTable(h)
    <3>1. /\ tableDisk' = tableDisk /\ pc[h] = "dropTable"
          /\ \A c \in listed' : c \in listed /\ c[1] # msg[h].name
      BY <2>3 DEF DropTable, Remaining, Listed
    <3>2. QED
      BY <3>1, OthersStay DEF LocatedIsOnDisk, Busy
  <2>4. QED
    BY <1>5, <2>1, <2>2, <2>3, EndingSteps DEF Delete
<1>6. CASE Read(h)
  <2>1. Kept
    BY <1>6, EndingSteps DEF Read, ReadInfo, ReadChunks
  <2>2. QED
    BY <1>1, <2>1
<1>7. CASE Beat(h)
  <2>1. CASE Register(h)
    <3>1. pc'[h] = "saveTable"
      BY <2>1 DEF Register, Goto, TypeOK
    <3>2. QED
      BY <3>1 DEF LocatedIsOnDisk
  <2>2. CASE SaveTable(h)
    <3>1. listed' = listed /\ \A c \in listed : c[1] \in tableDisk'
      BY <2>2 DEF SaveTable
    <3>2. QED
      BY <3>1 DEF LocatedIsOnDisk
  <2>3. CASE Activate(h)
    BY <1>1, <2>3 DEF Activate
  <2>4. QED
    BY <1>7, <2>1, <2>2, <2>3 DEF Beat
<1>8. QED
  BY <1>2, <1>3, <1>4, <1>5, <1>6, <1>7 DEF Serve

\* What the three invariants depend on.
Observed == <<fileMap, bits, listed, pc, msg, disk>>

\* A step that leaves these alone keeps the three invariants.
LEMMA ObservedSame ==
  ASSUME UNCHANGED Observed
  PROVE  /\ BloomCoversNames => BloomCoversNames'
         /\ RegisteredIsOnDisk => RegisteredIsOnDisk'
         /\ LocatedIsOnDisk => LocatedIsOnDisk'
BY DEF Observed, BloomCoversNames, RegisteredIsOnDisk, LocatedIsOnDisk, Busy, Get,
   disk

\* Monitoring, repairs and the storage nodes touch none of it.
LEMMA BackgroundObserved ==
  ASSUME TypeOK,
         \/ \E g \in Repairer : Replace(g) \/ \E S \in SUBSET Node : Monitor(g, S)
         \/ RestartPanics \/ Storage,
         ~Ending
  PROVE  UNCHANGED Observed
<1> USE DEF Observed, names, table, serving
<1>1. ASSUME NEW g \in Repairer, Replace(g) PROVE UNCHANGED Observed
  BY <1>1, EndingSteps DEF Replace, Prune, PickMore, PickLast
<1>2. ASSUME NEW g \in Repairer, NEW S \in SUBSET Node, Monitor(g, S)
      PROVE  UNCHANGED Observed
  BY <1>2 DEF Monitor
<1>3. CASE RestartPanics
  BY <1>3 DEF RestartPanics
<1>4. CASE Storage
  BY <1>4 DEF Storage, StoreChunk, DeleteChunk, CopyChunk
<1>5. QED
  BY <1>1, <1>2, <1>3, <1>4

\* A restart registers the names whose files it read, puts each of them into
\* the filter, and locates nothing.
LEMMA RestartSafe ==
  ASSUME TypeOK, Restart
  PROVE  /\ BloomCoversNames' /\ RegisteredIsOnDisk'
         /\ LocatedIsOnDisk => LocatedIsOnDisk'
<1>1. ASSUME NEW f \in Name, fileMap'[f] # None
      PROVE  Intact(f)
  BY <1>1 DEF Restart, LoadedInfo
<1>2. BloomCoversNames'
  BY <1>1 DEF Restart, LoadedBits, BloomCoversNames, Get
<1>3. RegisteredIsOnDisk'
  <2>1. ASSUME NEW f \in Name, Intact(f) PROVE metaDisk[f].exists
    BY <2>1 DEF Intact, TypeOK, MetaFile
  <2>2. QED
    BY <1>1, <2>1 DEF Restart, RegisteredIsOnDisk, disk
<1>4. LocatedIsOnDisk => LocatedIsOnDisk'
  BY DEF Restart, LocatedIsOnDisk, table, serving, disk, Busy
<1>5. QED
  BY <1>2, <1>3, <1>4

Safe == BloomCoversNames /\ RegisteredIsOnDisk /\ LocatedIsOnDisk

\* Every step keeps the three invariants.
LEMMA SafeStep == TypeOK /\ Safe /\ [Next]_vars => Safe'
<1> SUFFICES ASSUME TypeOK, Safe, [Next]_vars PROVE Safe'
  OBVIOUS
<1> USE DEF Safe
<1>1. CASE UNCHANGED vars
  <2>1. UNCHANGED Observed
    BY <1>1 DEF vars, Observed, names, table, serving
  <2>2. QED
    BY <2>1, ObservedSame
<1>2. CASE Ending
  BY <1>2, ExitSafe DEF Ending
<1>3. ASSUME NEW h \in Conn, Request(h) \/ Serve(h), ~Ending
      PROVE  Safe'
  BY <1>3, BloomConnection, DiskConnection, TableConnection
<1>4. CASE /\ \/ \E g \in Repairer : Replace(g) \/ \E S \in SUBSET Node : Monitor(g, S)
              \/ RestartPanics \/ Storage
           /\ ~Ending
  BY <1>4, BackgroundObserved, ObservedSame
<1>5. CASE Restart
  BY <1>5, RestartSafe
<1>6. QED
  BY <1>1, <1>2, <1>3, <1>4, <1>5, EndingSteps DEF Next

\* An empty controller has nothing to cover.
LEMMA SafeInit == Init => Safe
BY DEF Init, Safe, BloomCoversNames, RegisteredIsOnDisk, LocatedIsOnDisk

\* The three invariants, inductive together.
LEMMA AlwaysSafe == Spec => []Safe
BY SafeInit, SafeStep, TypeCorrect, PTL DEF Spec

\* bf.Get never answers no for a registered name, restarts included.
THEOREM FilterCorrect == Spec => []BloomCoversNames
<1>1. Safe => BloomCoversNames
  BY DEF Safe
<1>2. QED
  BY <1>1, AlwaysSafe, PTL

\* A registered name has its metadata file.
THEOREM MetadataDurable == Spec => []RegisteredIsOnDisk
<1>1. Safe => RegisteredIsOnDisk
  BY DEF Safe
<1>2. QED
  BY <1>1, AlwaysSafe, PTL

\* A name with located chunks has its table file.
THEOREM TableDurable == Spec => []LocatedIsOnDisk
<1>1. Safe => LocatedIsOnDisk
  BY DEF Safe
<1>2. QED
  BY <1>1, AlwaysSafe, PTL

=============================================================================
