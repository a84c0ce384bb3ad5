----------------------- MODULE ControllerSerialProofs -----------------------
(***************************************************************************)
(* What holds when requests on one name do not overlap: a granted name     *)
(* keeps its metadata, is granted once, and memory agrees with the disk,   *)
(* across crashes and restarts.  The inductive invariant is SerialInv.     *)
(***************************************************************************)
EXTENDS ControllerProofs

\* What a step of the request on h may disturb: the entry and file of its own
\* name, and its own variables.
Footprint(h) ==
  /\ status' = status
  /\ \A f \in Name : f # msg[h].name =>
       /\ fileMap'[f] = fileMap[f]
       /\ metaDisk'[f] = metaDisk[f]
       /\ f \in granted' => f \in granted
  /\ \A k \in Conn \ {h} :
       /\ pc'[k] = pc[k] /\ msg'[k] = msg[k]
       /\ k \in found => k \in found'
       /\ pc[k] \in ClientPc /\ k \in linked => k \in linked'
  /\ pc'[h] \in ClientPc => msg'[h].name = msg[h].name
  /\ pc'[h] \in ClientPc \cup {"idle"}

\* What it must establish for that name.
Local(h) ==
  \A f \in Name : f = msg[h].name =>
    /\ ~Garbled(f)'
    /\ pc'[h] \notin WritePc \cup {"dropName", "failName"} =>
         fileMap'[f] = LoadedInfo(f)'
    /\ f \in granted' => Intact(f)'
    /\ pc'[h] \in ClientPc => Progress(h, f, msg[h].info)'

\* With its footprint, that is enough: no other request is on the name.
LEMMA LocalSuffices ==
  ASSUME TypeOK, TypeOK', SerialInv, NEW h \in Conn, pc[h] \in ClientPc,
         Footprint(h), Local(h)
  PROVE  SerialInv'
<1>1. status = "up" /\ status' = "up"
  BY DEF SerialInv, Stopped, ClientPc, WritePc, Footprint
<1>2. msg[h].name \in Name
  BY ServedMessage
<1>3. \A k \in Conn \ {h} : pc[k] \in ClientPc => msg[k].name # msg[h].name
  BY DEF SerialInv, Alone
<1>4. Alone'
  BY <1>3 DEF SerialInv, Alone, Footprint
<1>5. Whole'
  BY <1>2 DEF SerialInv, Whole, Garbled, Footprint, Local
<1>6. GrantedIsIntact'
  BY <1>2 DEF SerialInv, GrantedIsIntact, Intact, Footprint, Local, TypeOK
<1>7. Loaded'
  BY <1>1, <1>2, <1>3 DEF SerialInv, Loaded, LoadedInfo, Intact, Busy, Footprint,
     Local, ClientPc
<1>8. ASSUME NEW k \in Conn \ {h}, pc'[k] \in ClientPc
      PROVE  Progress(k, msg[k].name, msg[k].info)'
  <2>1. msg[k].name \in Name /\ msg[k].name # msg[h].name
    BY <1>3, <1>8, ServedMessage DEF Footprint
  <2>2. QED
    BY <1>8, <2>1 DEF SerialInv, Progress, Footprint, Intact
<1>9. pc'[h] \in ClientPc => Progress(h, msg[h].name, msg[h].info)'
  BY <1>2 DEF Progress, Footprint, Local, Intact
<1>10. QED
  BY <1>1, <1>4, <1>5, <1>6, <1>7, <1>8, <1>9 DEF SerialInv, Stopped

\* The look-up: a write is admitted only if the name has no entry, and so no
\* intact file and no grant, since the filter covers the names in fileMap.
LEMMA LookupSerial ==
  ASSUME TypeOK, TypeOK', SerialInv, BloomCoversNames, NEW h \in Conn,
         BloomGet(h) \/ Refuse(h) \/ Admit(h)
  PROVE  SerialInv'
<1> USE DEF names, disk
<1> DEFINE f == msg[h].name
<1>1. pc[h] \in {"filter", "lookup"} /\ pc[h] \in ClientPc /\ f \in Name
  BY ServedMessage DEF BloomGet, Refuse, Admit, ClientPc, TypeOK
<1>2. /\ ~Garbled(f)
      /\ fileMap[f] = LoadedInfo(f)
      /\ f \in granted => Intact(f)
      /\ fileMap[f] # None => Get(bits, f)
  BY <1>1 DEF SerialInv, Whole, Loaded, GrantedIsIntact, Busy, Alone, WritePc,
     ClientPc, BloomCoversNames, Saving, Stopped
<1>3. Footprint(h)
  <2>1. FirstStep[msg[h].kind] \in ClientPc
    BY <1>1, ServedMessage DEF FirstStep, ClientKind, ClientPc, WritePc
  <2>2. QED
    BY <1>1, <2>1 DEF Footprint, BloomGet, Refuse, Admit, Goto, Done, TypeOK,
       ClientPc, BeatPc, WritePc
<1>4. Local(h)
  <2>1. CASE BloomGet(h)
    BY <1>1, <1>2, <2>1
       DEF Local, BloomGet, Goto, TypeOK, Progress, LoadedInfo, Intact, Garbled,
           WritePc, DeletePc
  <2>2. CASE Refuse(h)
    BY <1>1, <1>2, <2>2
       DEF Local, Refuse, Goto, Done, TypeOK, LoadedInfo, Intact, Garbled,
           ClientPc, WritePc
  <2>3. CASE Admit(h)
    <3>1. /\ fileMap' = fileMap /\ metaDisk' = metaDisk /\ granted' = granted
          /\ pc'[h] = FirstStep[msg[h].kind] /\ pc[h] = "lookup"
          /\ msg[h].kind # "write" <=> Present(h)
      BY <2>3 DEF Admit, Goto, TypeOK
    <3>2. fileMap[f] # None => h \in found
      BY <1>1, <3>1 DEF SerialInv, Progress
    <3>3. CASE msg[h].kind = "write"
      <4>1. pc'[h] = "saveName" /\ fileMap[f] = None
        BY <3>1, <3>2, <3>3 DEF FirstStep, Present
      <4>2. ~Intact(f) /\ f \notin granted
        BY <1>2, <4>1 DEF LoadedInfo, Intact
      <4>3. QED
        BY <1>2, <3>1, <4>1, <4>2
           DEF Local, Progress, Intact, Garbled, WritePc, DeletePc
    <3>4. CASE msg[h].kind # "write"
      <4>1. pc'[h] \in {"sendDeletes", "readInfo"} /\ fileMap[f] # None
        BY <1>1, <3>1, <3>4, ServedMessage DEF FirstStep, ClientKind, Present
      <4>2. QED
        BY <1>2, <3>1, <4>1
           DEF Local, Progress, LoadedInfo, Intact, Garbled, WritePc, DeletePc
    <3>5. QED
      BY <3>3, <3>4
  <2>4. QED
    BY <2>1, <2>2, <2>3
<1>5. QED
  BY <1>1, <1>3, <1>4, LocalSuffices

\* What the invariant says of the name a request at its own steps is on.
LEMMA AtStep ==
  ASSUME TypeOK, SerialInv, NEW h \in Conn, pc[h] \in ClientPc
  PROVE  /\ msg[h].name \in Name
         /\ ~Garbled(msg[h].name)
         /\ msg[h].name \in granted => Intact(msg[h].name)
         /\ pc[h] \notin WritePc \cup {"dropName", "failName"} =>
              fileMap[msg[h].name] = LoadedInfo(msg[h].name)
         /\ Progress(h, msg[h].name, msg[h].info)
<1>1. status = "up"
  BY DEF SerialInv, Stopped, ClientPc, WritePc
<1>2. msg[h].name \in Name
  BY ServedMessage
<1>3. QED
  BY <1>1, <1>2 DEF SerialInv, Whole, Loaded, GrantedIsIntact, Alone, Busy,
     ClientPc

\* The steps of a write (controller.go:642-649).
LEMMA WriteSerial ==
  ASSUME TypeOK, TypeOK', SerialInv, NEW h \in Conn, Write(h), ~Ending
  PROVE  SerialInv'
<1> USE DEF names, disk
<1> DEFINE f == msg[h].name
           i == msg[h].info
<1>1. pc[h] \in WritePc /\ pc[h] \in ClientPc
  BY EndingSteps DEF Write, SaveName, CreateMeta, WriteMeta, BloomPut, Place,
     ClientPc, WritePc
<1>2. f \in Name /\ i \in Info
  BY <1>1, ServedMessage
<1>3. SUFFICES Footprint(h) /\ Local(h)
  BY <1>1, LocalSuffices
<1>4. CASE SaveName(h)
  <2>1. ~Intact(f) /\ ~Garbled(f) /\ f \notin granted
    BY <1>1, <1>4, AtStep DEF SaveName, Progress, WritePc
  <2>2. /\ pc'[h] = "createMeta" /\ msg' = msg /\ metaDisk' = metaDisk
        /\ granted' = granted /\ fileMap'[f] = i
    BY <1>2, <1>4 DEF SaveName, Goto, TypeOK
  <2>3. Local(h)
    BY <2>1, <2>2 DEF Local, Progress, Intact, Garbled, WritePc, DeletePc
  <2>4. QED
    BY <1>4, <2>3 DEF Footprint, SaveName, Goto, TypeOK, ClientPc, WritePc
<1>5. CASE CreateMeta(h)
  <2>1. fileMap[f] = i /\ f \notin granted
    BY <1>1, <1>5, AtStep DEF CreateMeta, Progress, WritePc
  <2>2. /\ pc'[h] = "writeMeta" /\ msg' = msg /\ metaDisk'[f] = EmptyFile
        /\ granted' = granted /\ fileMap' = fileMap /\ h \in linked'
    BY <1>2, <1>5 DEF CreateMeta, Goto, TypeOK
  <2>3. Local(h)
    BY <2>1, <2>2
       DEF Local, Progress, Garbled, EmptyFile, WritePc, DeletePc
  <2>4. QED
    BY <1>5, <2>3 DEF Footprint, CreateMeta, Goto, TypeOK, ClientPc, WritePc
<1>6. CASE WriteMeta(h)
  <2>1. fileMap[f] = i /\ f \notin granted /\ metaDisk[f] = EmptyFile /\ h \in linked
    BY <1>1, <1>6, AtStep DEF WriteMeta, Progress, WritePc
  <2>2. LineLength[i] \in Nat \ {0} /\ i # None
    BY <1>2, ControllerAssumption
  <2>3. /\ pc'[h] = "bloomPut" /\ msg' = msg /\ granted' = granted
        /\ fileMap' = fileMap
        /\ metaDisk'[f].head = i /\ metaDisk'[f].size = LineLength[i]
    BY <1>2, <1>6, <2>1, <2>2 DEF WriteMeta, Goto, TypeOK, EmptyFile
  <2>4. Local(h)
    BY <2>1, <2>2, <2>3 DEF Local, Progress, Intact, Garbled, WritePc, DeletePc
  <2>5. QED
    BY <1>6, <2>4 DEF Footprint, WriteMeta, Goto, TypeOK, ClientPc, WritePc
<1>7. CASE BloomPut(h)
  <2>1. /\ fileMap[f] = i /\ f \notin granted
        /\ Intact(f) /\ metaDisk[f].head = i /\ ~Garbled(f)
    BY <1>1, <1>7, AtStep DEF BloomPut, Progress, WritePc
  <2>2. /\ pc'[h] = "place" /\ msg' = msg /\ granted' = granted
        /\ fileMap' = fileMap /\ metaDisk' = metaDisk
    BY <1>7 DEF BloomPut, Goto, TypeOK
  <2>3. Local(h)
    BY <2>1, <2>2 DEF Local, Progress, Intact, Garbled, WritePc, DeletePc
  <2>4. QED
    BY <1>7, <2>3 DEF Footprint, BloomPut, Goto, TypeOK, ClientPc, WritePc
<1>8. CASE Place(h)
  <2>1. fileMap[f] = i /\ Intact(f) /\ metaDisk[f].head = i /\ ~Garbled(f)
    BY <1>1, <1>8, AtStep DEF Place, Progress, WritePc
  <2>2. /\ pc'[h] = "idle" /\ fileMap' = fileMap /\ metaDisk' = metaDisk
        /\ granted' \subseteq granted \cup {f}
    BY <1>8 DEF Place, Done, Goto, TypeOK
  <2>3. Local(h)
    BY <2>1, <2>2 DEF Local, LoadedInfo, Intact, Garbled, ClientPc, WritePc
  <2>4. QED
    BY <1>8, <2>2, <2>3 DEF Footprint, Place, Done, Goto, TypeOK, ClientPc, WritePc
<1>9. QED
  BY <1>4, <1>5, <1>6, <1>7, <1>8, EndingSteps DEF Write

\* The steps of a delete (controller.go:659-670).
LEMMA DeleteSerial ==
  ASSUME TypeOK, TypeOK', SerialInv, NEW h \in Conn, Delete(h), ~Ending
  PROVE  SerialInv'
<1> USE DEF names, disk
<1> DEFINE f == msg[h].name
<1>1. pc[h] \in DeletePc \cup {"dropName"} /\ pc[h] \in ClientPc
  BY EndingSteps DEF Delete, SendDeletes, RemoveTable, DropTable, RemoveMeta,
     DropName, ClientPc, DeletePc
<1>2. /\ f \in Name /\ ~Garbled(f)
      /\ f \in granted => Intact(f)
      /\ pc[h] # "dropName" => /\ fileMap[f] = LoadedInfo(f)
                               /\ fileMap[f] # None
      /\ pc[h] = "dropName" => metaDisk[f] = NoFile
  BY <1>1, AtStep DEF Progress, DeletePc, WritePc
<1>3. SUFFICES Footprint(h) /\ Local(h)
  BY <1>1, LocalSuffices
<1>4. CASE SendDeletes(h) \/ RemoveTable(h) \/ DropTable(h)
  <2>1. /\ fileMap' = fileMap /\ metaDisk' = metaDisk /\ granted' = granted
        /\ msg' = msg /\ found' = found /\ linked' = linked /\ status' = status
        /\ \A k \in Conn \ {h} : pc'[k] = pc[k]
        /\ pc'[h] \in DeletePc /\ pc[h] # "dropName"
    BY <1>4 DEF SendDeletes, RemoveTable, DropTable, Goto, TypeOK, DeletePc
  <2>2. Footprint(h)
    BY <2>1 DEF Footprint, ClientPc, DeletePc
  <2>3. Local(h)
    BY <1>2, <2>1
       DEF Local, Progress, LoadedInfo, Intact, Garbled, WritePc, DeletePc
  <2>4. QED
    BY <2>2, <2>3
<1>5. CASE RemoveMeta(h)
  <2>1. metaDisk[f].exists
    BY <1>2, <1>5 DEF RemoveMeta, LoadedInfo, Intact, TypeOK, MetaFile
  <2>2. /\ pc'[h] = "dropName" /\ msg' = msg /\ metaDisk'[f] = NoFile
        /\ fileMap' = fileMap /\ f \notin granted'
    BY <1>2, <1>5, <2>1 DEF RemoveMeta, Goto, TypeOK
  <2>3. Local(h)
    BY <2>2 DEF Local, Progress, Garbled, NoFile, WritePc, DeletePc
  <2>4. \A k \in Conn \ {h} : pc[k] \in ClientPc => k \notin Concerning(f)
    BY <1>1 DEF Concerning, SerialInv, Alone
  <2>5. QED
    BY <1>5, <2>2, <2>3, <2>4 DEF Footprint, RemoveMeta, Goto, TypeOK, ClientPc
<1>6. CASE DropName(h)
  <2>1. /\ pc'[h] = "idle" /\ metaDisk'[f] = NoFile /\ fileMap'[f] = None
        /\ f \notin granted'
    BY <1>2, <1>6 DEF DropName, Done, Goto, TypeOK, NoFile, Intact
  <2>2. Local(h)
    BY <2>1 DEF Local, LoadedInfo, Intact, Garbled, NoFile, ClientPc, WritePc
  <2>3. QED
    BY <1>6, <2>1, <2>2 DEF Footprint, DropName, Done, Goto, TypeOK, ClientPc, WritePc
<1>7. QED
  BY <1>4, <1>5, <1>6, EndingSteps DEF Delete, DropNameFails

\* The steps of a read (controller.go:681-691).
LEMMA ReadSerial ==
  ASSUME TypeOK, TypeOK', SerialInv, NEW h \in Conn, Read(h), ~Ending
  PROVE  SerialInv'
<1> USE DEF names, disk
<1> DEFINE f == msg[h].name
<1>1. pc[h] \in {"readInfo", "readChunks"} /\ pc[h] \in ClientPc
  BY EndingSteps DEF Read, ReadInfo, ReadChunks, ClientPc
<1>2. /\ f \in Name /\ ~Garbled(f)
      /\ f \in granted => Intact(f)
      /\ fileMap[f] = LoadedInfo(f)
  BY <1>1, AtStep DEF WritePc
<1>3. SUFFICES Footprint(h) /\ Local(h)
  BY <1>1, LocalSuffices
<1>4. CASE ReadInfo(h)
  <2>1. msg[h] \in FileMetadata
    BY <1>1, ServedMessage
  <2>2. /\ fileMap' = fileMap /\ metaDisk' = metaDisk /\ granted' = granted
        /\ found' = found /\ linked' = linked /\ status' = status
        /\ \A k \in Conn \ {h} : pc'[k] = pc[k] /\ msg'[k] = msg[k]
        /\ pc'[h] = "readChunks" /\ msg'[h].name = f
    BY <1>4, <2>1 DEF ReadInfo, Goto, TypeOK, FileMetadata
  <2>3. Footprint(h)
    BY <2>2 DEF Footprint, ClientPc
  <2>4. Local(h)
    BY <1>2, <2>2
       DEF Local, Progress, LoadedInfo, Intact, Garbled, WritePc, DeletePc
  <2>5. QED
    BY <2>3, <2>4
<1>5. CASE ReadChunks(h)
  <2>1. Footprint(h)
    BY <1>5 DEF Footprint, ReadChunks, Done, Goto, TypeOK, ClientPc, WritePc
  <2>2. Local(h)
    BY <1>2, <1>5 DEF Local, ReadChunks, Done, Goto, TypeOK, LoadedInfo, Intact,
       Garbled, ClientPc, WritePc
  <2>3. QED
    BY <2>1, <2>2
<1>6. QED
  BY <1>4, <1>5, EndingSteps DEF Read

\* Steps that change no entry and no metadata file, and no client request.
LEMMA QuietSerial ==
  ASSUME SerialInv,
         UNCHANGED <<fileMap, metaDisk, granted>>,
         status # "up" => status' # "up" /\ \A k \in Conn : pc'[k] = "idle",
         status = "up" => status' = "up",
         \A k \in Conn : pc[k] \in ClientPc \/ pc'[k] \in ClientPc =>
           /\ pc'[k] = pc[k] /\ msg'[k] = msg[k]
           /\ k \in found => k \in found'
           /\ k \in linked => k \in linked'
  PROVE  SerialInv'
<1>1. Alone' /\ Whole' /\ GrantedIsIntact'
  BY DEF SerialInv, Alone, Whole, Garbled, GrantedIsIntact, Intact
<1>2. Stopped'
  BY DEF SerialInv, Stopped
<1>3. \A L \in SUBSET ClientPc, f \in Name : Busy(L, f)' <=> Busy(L, f)
  BY DEF Busy
<1>4. Loaded'
  <2>1. WritePc \cup {"dropName", "failName"} \in SUBSET ClientPc
    BY DEF ClientPc
  <2>2. QED
    BY <1>3, <2>1 DEF SerialInv, Loaded, LoadedInfo, Intact
<1>5. \A h \in Conn : pc'[h] \in ClientPc => Progress(h, msg[h].name, msg[h].info)'
  BY DEF SerialInv, Progress, Intact
<1>6. QED
  BY <1>1, <1>2, <1>4, <1>5 DEF SerialInv

\* The steps of a heartbeat (controller.go:694-700).
LEMMA BeatSerial ==
  ASSUME TypeOK, SerialInv, NEW h \in Conn,
         Beat(h) \/ \E n \in Node : SendHeartbeat(h, n)
  PROVE  SerialInv'
<1> USE DEF names, disk
<1>1. UNCHANGED <<status, fileMap, metaDisk, granted>> /\ pc[h] # pc'[h]
  BY DEF Beat, Register, SaveTable, Activate, SendHeartbeat, Goto, Done, TypeOK
<1>2. pc[h] \in BeatPc \cup {"idle"} /\ pc'[h] \in BeatPc \cup {"idle"}
  BY DEF Beat, Register, SaveTable, Activate, SendHeartbeat, Goto, Done, TypeOK,
     BeatPc
<1>3. \A k \in Conn \ {h} : /\ pc'[k] = pc[k] /\ msg'[k] = msg[k]
                            /\ k \in found => k \in found'
                            /\ k \in linked => k \in linked'
  BY DEF Beat, Register, SaveTable, Activate, SendHeartbeat, Goto, Done, TypeOK
<1>4. status = "up"
  BY DEF Beat, Register, SaveTable, Activate, SendHeartbeat, SerialInv, Stopped
<1>5. QED
  BY <1>1, <1>2, <1>3, <1>4, QuietSerial DEF BeatPc, ClientPc, WritePc

\* Monitoring, repairs and the storage nodes.
LEMMA BackgroundSerial ==
  ASSUME TypeOK, SerialInv,
         \/ \E g \in Repairer : Replace(g) \/ \E S \in SUBSET Node : Monitor(g, S)
         \/ RestartPanics \/ Storage,
         ~Ending
  PROVE  SerialInv'
<1> DEFINE Same == UNCHANGED <<names, serving, metaDisk, granted>>
<1> USE DEF names, serving, disk
<1>1. /\ Same
      /\ \/ status' = status
         \/ (status # "up" /\ status' # "up")
  <2>1. ASSUME NEW g \in Repairer, Replace(g) PROVE Same /\ status' = status
    BY <2>1, EndingSteps DEF Replace, Prune, PickMore, PickLast
  <2>2. ASSUME NEW g \in Repairer, NEW S \in SUBSET Node, Monitor(g, S)
        PROVE  Same /\ status' = status
    BY <2>2 DEF Monitor
  <2>3. CASE RestartPanics
    BY <2>3 DEF RestartPanics
  <2>4. CASE Storage
    BY <2>4 DEF Storage, StoreChunk, DeleteChunk, CopyChunk
  <2>5. QED
    BY <2>1, <2>2, <2>3, <2>4
<1>2. QED
  BY <1>1, QuietSerial DEF SerialInv, Stopped

\* A request is taken in only when none is in service on its name.
LEMMA RequestSerial ==
  ASSUME ~Overlap, TypeOK, SerialInv, NEW h \in Conn,
         NEW kind \in ClientKind, NEW f \in Name, NEW i \in Info \cup {None},
         ClientRequest(h, kind, f, i)
  PROVE  SerialInv'
<1> USE DEF names, disk
<1>1. /\ UNCHANGED <<status, fileMap, metaDisk, granted, found, linked>>
      /\ pc[h] = "idle" /\ pc'[h] = "filter" /\ msg'[h].name = f
      /\ \A k \in Conn \ {h} : /\ pc'[k] = pc[k] /\ msg'[k] = msg[k]
                               /\ pc[k] \in ClientPc => msg[k].name # f
      /\ status = "up"
  BY DEF ClientRequest, Goto, TypeOK, Concerning
<1>2. Alone' /\ Whole' /\ GrantedIsIntact' /\ Stopped'
  BY <1>1 DEF SerialInv, Alone, Whole, Garbled, GrantedIsIntact, Intact, Stopped
<1>3. Loaded'
  BY <1>1 DEF SerialInv, Loaded, LoadedInfo, Intact, Busy, WritePc
<1>4. ASSUME NEW k \in Conn, pc'[k] \in ClientPc
      PROVE  Progress(k, msg[k].name, msg[k].info)'
  BY <1>1, <1>4 DEF SerialInv, Progress, Intact, WritePc, DeletePc
<1>5. QED
  BY <1>2, <1>3, <1>4 DEF SerialInv

\* The end of the process keeps what the disk says of every name.
LEMMA EndingSerial ==
  ASSUME SerialInv, Ending
  PROVE  SerialInv'
BY DEF Ending, Exit, Cause, SerialInv, Alone, Stopped, Whole, Garbled, Loaded,
   GrantedIsIntact, Intact, ClientPc, WritePc

\* A restart brings back exactly what the disk says of every name.
LEMMA RestartSerial ==
  ASSUME SerialInv, Restart
  PROVE  SerialInv'
<1>1. \A h \in Conn : pc[h] = "idle" /\ pc'[h] = "idle"
  BY DEF SerialInv, Stopped, Restart, serving
<1>2. QED
  BY <1>1 DEF Restart, SerialInv, Alone, Stopped, Whole, Garbled, Loaded,
     LoadedInfo, GrantedIsIntact, Intact, ClientPc, WritePc, disk

\* Every step keeps the invariant.
LEMMA SerialStep ==
  ASSUME ~Overlap, TypeOK, TypeOK', BloomCoversNames, SerialInv, [Next]_vars
  PROVE  SerialInv'
<1>1. CASE UNCHANGED vars
  BY <1>1, QuietSerial DEF vars, names, serving, disk, SerialInv, Stopped
<1>2. CASE Ending
  BY <1>2, EndingSerial
<1>3. ASSUME NEW h \in Conn, Request(h) \/ Serve(h), ~Ending
      PROVE  SerialInv'
  BY <1>3, RequestSerial, LookupSerial, WriteSerial, DeleteSerial, ReadSerial,
     BeatSerial DEF Request, Serve
<1>4. CASE /\ \/ \E g \in Repairer : Replace(g) \/ \E S \in SUBSET Node : Monitor(g, S)
              \/ RestartPanics \/ Storage
           /\ ~Ending
  BY <1>4, BackgroundSerial
<1>5. CASE Restart
  BY <1>5, RestartSerial
<1>6. QED
  BY <1>1, <1>2, <1>3, <1>4, <1>5, EndingSteps DEF Next

\* An empty controller satisfies it.
LEMMA SerialInit == Init => SerialInv
BY DEF Init, SerialInv, Alone, Stopped, Whole, Garbled, Loaded, LoadedInfo,
   GrantedIsIntact, Intact, NoFile, ClientPc, WritePc

\* The inductive invariant holds when requests on one name do not overlap.
THEOREM SerialCorrect == ASSUME ~Overlap PROVE Spec => []SerialInv
<1>1. TypeOK /\ TypeOK' /\ BloomCoversNames /\ SerialInv /\ [Next]_vars => SerialInv'
  BY SerialStep
<1>2. QED
  BY <1>1, SerialInit, TypeCorrect, FilterCorrect, PTL DEF Spec

\* A granted name keeps its metadata file whole until it is deleted, through
\* any number of crashes.
THEOREM GrantsDurable == ASSUME ~Overlap PROVE Spec => []GrantedIsIntact
<1>1. SerialInv => GrantedIsIntact
  BY DEF SerialInv
<1>2. QED
  BY <1>1, SerialCorrect, PTL

\* No write of a granted name is let through.
THEOREM WrittenOnce == ASSUME ~Overlap PROVE Spec => []WriteOnce
<1>1. TypeOK /\ SerialInv => WriteOnce
  <2>1. ASSUME TypeOK, SerialInv, NEW f \in granted, NEW h \in Conn,
               pc[h] \in WritePc, msg[h].name = f
        PROVE  FALSE
    BY <2>1 DEF SerialInv, Progress, ClientPc
  <2>2. QED
    BY <2>1 DEF WriteOnce, Busy
<1>2. QED
  BY <1>1, SerialCorrect, TypeCorrect, PTL

\* Between requests, the controller knows of a name what it would after a
\* restart.
THEOREM MemoryDurable == ASSUME ~Overlap PROVE Spec => []MemoryMatchesDisk
<1>1. SerialInv => MemoryMatchesDisk
  <2>1. ASSUME NEW f \in Name, Concerning(f) = {}
        PROVE  ~Busy(WritePc \cup {"dropName", "failName"}, f)
    BY <2>1 DEF Concerning, Busy, ClientPc
  <2>2. QED
    BY <2>1 DEF SerialInv, Loaded, LoadedInfo, MemoryMatchesDisk
<1>2. QED
  BY <1>1, SerialCorrect, PTL

\* The metadata files can always be loaded.
THEOREM Restartable == ASSUME ~Overlap PROVE Spec => []RestartPossible
<1>1. SerialInv => RestartPossible
  BY DEF SerialInv, Whole, RestartPossible
<1>2. QED
  BY <1>1, SerialCorrect, PTL

-----------------------------------------------------------------------------
(***************************************************************************)
(* The controller implements Namespace: every step takes, grants,          *)
(* releases, loses or tells a name as Namespace allows, or changes nothing *)
(* that a client can see.                                                  *)
(***************************************************************************)

\* A request is at one step only, and the process is up while it is there.
LEMMA InService ==
  ASSUME TypeOK, SerialInv, NEW h \in Conn, pc[h] \in ClientPc
  PROVE  /\ status = "up"
         /\ Taken[msg[h].name] = fileMap[msg[h].name]
<1>1. status = "up"
  BY DEF SerialInv, Stopped, ClientPc, WritePc
<1>2. QED
  BY <1>1, ServedMessage DEF Taken

\* A step that leaves the entries, the grants and the readers alone.
Unseen == UNCHANGED <<Taken, granted, Told>>

LEMMA SameUnseen ==
  ASSUME status = "up", status' = "up", fileMap' = fileMap, granted' = granted,
         \A k \in Conn : (pc[k] = "readChunks" \/ pc'[k] = "readChunks") =>
                           pc'[k] = pc[k] /\ msg'[k] = msg[k]
  PROVE  Unseen
BY DEF Unseen, Taken, Told

-----------------------------------------------------------------------------
(* The steps of a request. *)

\* Nothing is seen of a request that is taken in, looked up or refused.
LEMMA LookupUnseen ==
  ASSUME TypeOK, SerialInv, NEW h \in Conn, BloomGet(h) \/ Refuse(h) \/ Admit(h)
  PROVE  Unseen
<1> USE DEF names, disk
<1>1. pc[h] \in {"filter", "lookup"} /\ pc[h] \in ClientPc
  BY DEF BloomGet, Refuse, Admit, ClientPc
<1>2. FirstStep[msg[h].kind] # "readChunks"
  BY <1>1, ServedMessage DEF FirstStep, ClientKind
<1>3. QED
  BY <1>1, <1>2, InService, SameUnseen
     DEF BloomGet, Refuse, Admit, Goto, Done, TypeOK

\* The steps of a write: the name is taken when it enters fileMap, and granted
\* when the client is told the locations (controller.go:642-649).
LEMMA WriteSimulates ==
  ASSUME TypeOK, SerialInv, NEW h \in Conn, Write(h), ~Ending
  PROVE  Names!Next \/ Unseen
<1> USE DEF names, disk
<1> DEFINE f == msg[h].name
           i == msg[h].info
<1>1. pc[h] \in WritePc /\ pc[h] \in ClientPc
  BY EndingSteps DEF Write, SaveName, CreateMeta, WriteMeta, BloomPut, Place,
     ClientPc, WritePc
<1>2. f \in Name /\ i \in Info /\ status = "up" /\ Taken[f] = fileMap[f]
  BY <1>1, ServedMessage, InService
<1>3. i # None
  BY <1>2, ControllerAssumption
<1>4. CASE SaveName(h)
  <2>1. fileMap[f] = None
    BY <1>1, <1>4, AtStep DEF SaveName, Progress
  <2>2. Taken' = [Taken EXCEPT ![f] = i]
    BY <1>2, <1>4 DEF SaveName, Taken, TypeOK
  <2>3. granted' = granted /\ Told' = Told
    BY <1>4 DEF SaveName, Goto, Told, TypeOK
  <2>4. Names!Take(f, i)
    BY <1>2, <2>1, <2>2, <2>3 DEF Names!Take
  <2>5. QED
    BY <1>2, <2>4 DEF Names!Next
<1>5. CASE CreateMeta(h) \/ WriteMeta(h) \/ BloomPut(h)
  BY <1>2, <1>5, SameUnseen DEF CreateMeta, WriteMeta, BloomPut, Goto, TypeOK
<1>6. CASE Place(h)
  <2>1. Taken' = Taken /\ Told' = Told
    BY <1>2, <1>6 DEF Place, Done, Goto, Taken, Told, TypeOK
  <2>2. CASE granted' = granted
    BY <2>1, <2>2 DEF Unseen
  <2>3. CASE granted' = granted \cup {f}
    <3>1. fileMap[f] = i /\ f \notin granted
      BY <1>1, <1>6, AtStep DEF Place, Progress, WritePc
    <3>2. Names!Grant(f)
      BY <1>2, <1>3, <2>1, <2>3, <3>1 DEF Names!Grant
    <3>3. QED
      BY <1>2, <3>2 DEF Names!Next
  <2>4. QED
    BY <1>6, <2>2, <2>3 DEF Place
<1>7. QED
  BY <1>4, <1>5, <1>6, EndingSteps DEF Write

\* The steps of a delete: the name is released with its metadata file, and
\* free when it leaves fileMap (controller.go:659-670).
LEMMA DeleteSimulates ==
  ASSUME TypeOK, SerialInv, NEW h \in Conn, Delete(h), ~Ending
  PROVE  Names!Next \/ Unseen
<1> USE DEF names, disk
<1> DEFINE f == msg[h].name
<1>1. pc[h] \in DeletePc \cup {"dropName"} /\ pc[h] \in ClientPc
  BY EndingSteps DEF Delete, SendDeletes, RemoveTable, DropTable, RemoveMeta,
     DropName, ClientPc, DeletePc
<1>2. f \in Name /\ status = "up" /\ Taken[f] = fileMap[f]
  BY <1>1, ServedMessage, InService
<1>3. CASE SendDeletes(h) \/ RemoveTable(h) \/ DropTable(h)
  BY <1>2, <1>3, SameUnseen DEF SendDeletes, RemoveTable, DropTable, Goto, TypeOK
<1>4. CASE RemoveMeta(h)
  <2>1. Taken' = Taken /\ Told' = Told
    BY <1>2, <1>4 DEF RemoveMeta, Goto, Taken, Told, TypeOK
  <2>2. granted' = granted \ {f}
    BY <1>4 DEF RemoveMeta
  <2>3. CASE f \in granted
    BY <1>2, <2>1, <2>2, <2>3 DEF Names!Release, Names!Next
  <2>4. CASE f \notin granted
    BY <2>1, <2>2, <2>4 DEF Unseen
  <2>5. QED
    BY <2>3, <2>4
<1>5. CASE DropName(h)
  <2>1. f \notin granted
    BY <1>1, <1>5, AtStep DEF DropName, Progress, Intact, NoFile
  <2>2. Taken' = [e \in Name |-> IF e \in {f} THEN None ELSE Taken[e]]
    BY <1>2, <1>5 DEF DropName, Taken, TypeOK
  <2>3. granted' = granted /\ Told' = Told
    BY <1>5 DEF DropName, Done, Goto, Told, TypeOK
  <2>4. Names!Lose({f})
    BY <2>1, <2>2, <2>3 DEF Names!Lose
  <2>5. QED
    BY <1>2, <2>4 DEF Names!Next
<1>6. QED
  BY <1>3, <1>4, <1>5, EndingSteps DEF Delete, DropNameFails

\* The steps of a read: the reader is told the entry of fileMap
\* (controller.go:681-691).
LEMMA ReadSimulates ==
  ASSUME TypeOK, SerialInv, NEW h \in Conn, Read(h), ~Ending
  PROVE  Names!Next \/ Unseen
<1> USE DEF names, disk
<1> DEFINE f == msg[h].name
<1>1. pc[h] \in {"readInfo", "readChunks"} /\ pc[h] \in ClientPc
  BY EndingSteps DEF Read, ReadInfo, ReadChunks, ClientPc
<1>2. f \in Name /\ status = "up" /\ Taken[f] = fileMap[f] /\ msg[h] \in FileMetadata
  BY <1>1, ServedMessage, InService
<1>3. CASE ReadInfo(h)
  <2>1. Taken' = Taken /\ granted' = granted
    BY <1>2, <1>3 DEF ReadInfo, Taken
  <2>2. Told[h] = None /\ Taken[f] # None
    BY <1>2, <1>3 DEF ReadInfo, Told
  <2>3. Told' = [Told EXCEPT ![h] = Taken[f]]
    BY <1>2, <1>3 DEF ReadInfo, Goto, Told, TypeOK, FileMetadata
  <2>4. Names!Tell(h, f)
    BY <2>1, <2>2, <2>3 DEF Names!Tell
  <2>5. QED
    BY <1>2, <2>4 DEF Names!Next
<1>4. CASE ReadChunks(h)
  <2>1. Taken' = Taken /\ granted' = granted
    BY <1>2, <1>4 DEF ReadChunks, Taken
  <2>2. msg[h].info \in Info
    BY <1>1, <1>4 DEF ReadChunks, TypeOK, MessageOK
  <2>3. Told[h] # None
    BY <1>4, <2>2, ControllerAssumption DEF ReadChunks, Told
  <2>4. Told' = [Told EXCEPT ![h] = None]
    BY <1>4 DEF ReadChunks, Done, Goto, Told, TypeOK
  <2>5. Names!Answered(h)
    BY <2>1, <2>3, <2>4 DEF Names!Answered
  <2>6. QED
    BY <2>5 DEF Names!Next
<1>5. QED
  BY <1>3, <1>4, EndingSteps DEF Read

\* Nothing is seen of a heartbeat, nor of a request that comes in.
LEMMA ArrivalUnseen ==
  ASSUME TypeOK, SerialInv, NEW h \in Conn, Beat(h) \/ Request(h)
  PROVE  Unseen
<1> USE DEF names, disk
<1>1. pc[h] \in BeatPc \cup {"idle"} /\ status = "up"
  BY DEF Beat, Register, SaveTable, Activate, Request, ClientRequest,
     SendHeartbeat, BeatPc, SerialInv, Stopped
<1>2. QED
  BY <1>1, SameUnseen DEF Beat, Register, SaveTable, Activate, Request,
     ClientRequest, SendHeartbeat, Goto, Done, TypeOK, BeatPc

-----------------------------------------------------------------------------
(* The end of the process, and the next start. *)

\* What a crash makes of the entry of a name: what the file says, which is the
\* entry, or nothing.
LEMMA CrashLoses ==
  ASSUME TypeOK, SerialInv, status = "up", NEW f \in Name
  PROVE  LoadedInfo(f) \in {fileMap[f], None}
<1>1. CASE ~Busy(WritePc \cup {"dropName", "failName"}, f)
  BY <1>1 DEF SerialInv, Loaded
<1>2. ASSUME NEW h \in Conn, msg[h].name = f,
             pc[h] \in WritePc \cup {"dropName", "failName"}
      PROVE  LoadedInfo(f) \in {fileMap[f], None}
  <2>1. Progress(h, f, msg[h].info)
    BY <1>2, AtStep DEF ClientPc
  <2>2. QED
    BY <1>2, <2>1 DEF Progress, LoadedInfo, Intact, EmptyFile, NoFile, WritePc
<1>3. QED
  BY <1>1, <1>2 DEF Busy

\* The process ends: names that were not granted may be lost, with what readers
\* were being told.
LEMMA EndingSimulates ==
  ASSUME TypeOK, SerialInv, Ending
  PROVE  Names!Next \/ Unseen
<1> DEFINE F == {f \in Name : Taken[f] # LoadedInfo(f)}
<1>1. /\ Taken' = [f \in Name |-> LoadedInfo(f)]
      /\ Told' = [h \in Conn |-> None]
      /\ granted' = granted
  BY DEF Ending, Exit, Cause, Taken, Told, LoadedInfo, Intact
<1>2. CASE status = "up"
  <2>1. ASSUME NEW f \in F PROVE f \notin granted /\ LoadedInfo(f) = None
    <3>1. Taken[f] = fileMap[f] /\ LoadedInfo(f) = None
      BY <1>2, CrashLoses DEF Taken
    <3>2. ~Intact(f)
      BY <3>1 DEF LoadedInfo, Intact
    <3>3. QED
      BY <3>1, <3>2 DEF SerialInv, GrantedIsIntact
  <2>2. Taken' = [f \in Name |-> IF f \in F THEN None ELSE Taken[f]]
    BY <1>1, <2>1
  <2>3. Names!Lose(F)
    BY <1>1, <2>1, <2>2 DEF Names!Lose
  <2>4. QED
    BY <2>3 DEF Names!Next
<1>3. CASE status # "up"
  <2>1. \A h \in Conn : pc[h] = "idle"
    BY <1>3 DEF SerialInv, Stopped
  <2>2. Taken' = Taken /\ Told' = Told
    BY <1>1, <1>3, <2>1 DEF Taken, Told
  <2>3. QED
    BY <1>1, <2>2 DEF Unseen
<1>4. QED
  BY <1>2, <1>3

\* A start brings back what was said of the names while the process was down.
LEMMA StartUnseen ==
  ASSUME SerialInv, Restart \/ RestartPanics
  PROVE  Unseen
BY DEF Restart, RestartPanics, SerialInv, Whole, Unseen, Taken, Told, LoadedInfo,
   Intact, names, disk, serving

\* Monitoring, repairs and the storage nodes are not seen either.
LEMMA BackgroundUnseen ==
  ASSUME \/ \E g \in Repairer : Replace(g) \/ \E S \in SUBSET Node : Monitor(g, S)
         \/ Storage,
         ~Ending
  PROVE  Unseen
<1> DEFINE Same == UNCHANGED <<status, fileMap, metaDisk, pc, msg, granted>>
<1> USE DEF names, serving, disk
<1>1. ASSUME NEW g \in Repairer, Replace(g) PROVE Same
  BY <1>1, EndingSteps DEF Replace, Prune, PickMore, PickLast
<1>2. ASSUME NEW g \in Repairer, NEW S \in SUBSET Node, Monitor(g, S) PROVE Same
  BY <1>2 DEF Monitor
<1>3. ASSUME Storage PROVE Same
  BY <1>3 DEF Storage, StoreChunk, DeleteChunk, CopyChunk
<1>4. Same
  BY <1>1, <1>2, <1>3
<1>5. QED
  BY <1>4 DEF Unseen, Taken, Told, LoadedInfo, Intact

-----------------------------------------------------------------------------
\* The initial state of the controller is that of an empty name space.
LEMMA InitSimulates == Init => Names!Init
BY DEF Init, Names!Init, Taken, Told

\* Every step of the controller is a step of the name space or is not seen.
LEMMA StepSimulates ==
  ASSUME TypeOK, SerialInv, [Next]_vars
  PROVE  [Names!Next]_Names!vars
<1>1. CASE UNCHANGED vars
  BY <1>1 DEF vars, Names!vars, Taken, Told, LoadedInfo, Intact, names, serving,
     disk
<1>2. CASE Ending
  BY <1>2, EndingSimulates DEF Names!vars, Unseen
<1>3. ASSUME NEW h \in Conn, Request(h) \/ Serve(h), ~Ending
      PROVE  Names!Next \/ Unseen
  BY <1>3, LookupUnseen, WriteSimulates, DeleteSimulates, ReadSimulates,
     ArrivalUnseen DEF Serve
<1>4. CASE Restart \/ RestartPanics
  BY <1>4, StartUnseen DEF Names!vars, Unseen
<1>5. CASE /\ \/ \E g \in Repairer : Replace(g) \/ \E S \in SUBSET Node : Monitor(g, S)
              \/ Storage
           /\ ~Ending
  BY <1>5, BackgroundUnseen DEF Names!vars, Unseen
<1>6. QED
  BY <1>1, <1>2, <1>3, <1>4, <1>5, EndingSteps DEF Next, Names!vars, Unseen

\* The controller keeps what Namespace promises: a granted name stays taken, for
\* the same FileInfo, until it is deleted, and readers are told that FileInfo.
THEOREM NamespaceImplemented == ASSUME ~Overlap PROVE Spec => ImplementsNamespace
<1>1. TypeOK /\ SerialInv /\ [Next]_vars => [Names!Next]_Names!vars
  BY StepSimulates
<1>2. QED
  BY <1>1, InitSimulates, TypeCorrect, SerialCorrect, PTL
     DEF Spec, ImplementsNamespace, Names!Spec

=============================================================================
