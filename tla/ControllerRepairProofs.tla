----------------------- MODULE ControllerRepairProofs -----------------------
(***************************************************************************)
(* What holds of the replacement of dead nodes, for any number of repairs  *)
(* at once and whatever heartbeats and deletes do meanwhile: when a repair *)
(* can end its drawing, that the replica it orders is sound, that sources  *)
(* have what they are to send, and which locations are watched.            *)
(***************************************************************************)
EXTENDS ControllerProofs, FiniteSetTheorems

\* What the steps of a repair make of it.
Repairs(g) == \/ \E t \in repair[g].todo : Prune(g, t)
              \/ \E n \in Node : PickMore(g, n) \/ PickLast(g, n)

\* The fields of a repair.
LEMMA RepairFields ==
  ASSUME TypeOK, NEW g \in Repairer
  PROVE  /\ repair[g].todo \subseteq Node \X ChunkId
         /\ repair[g].sources \subseteq Node
         /\ repair[g].working \subseteq Node
         /\ repair[g].held \subseteq Node
         /\ repair[g].attached \in BOOLEAN
         /\ repair[g].chunk # None =>
              repair[g].chunk \in ChunkId /\ repair[g].failed \in Node
         /\ repair[g].failed \in Node \cup {None}
BY DEF TypeOK, Repair

\* A repair that is over, or goes to its next chunk, works on none.
LEMMA RestingFields ==
  /\ Resting.chunk = None /\ Resting.todo = {} /\ Resting.attached = FALSE
  /\ \A T, n : [Resting EXCEPT !.todo = T, !.failed = n].chunk = None
  /\ \A T, n : [Resting EXCEPT !.todo = T, !.failed = n].todo = T
  /\ \A T, n : [Resting EXCEPT !.todo = T, !.failed = n].attached = FALSE
  /\ \A T : [Resting EXCEPT !.todo = T].chunk = None
  /\ \A T : [Resting EXCEPT !.todo = T].todo = T
  /\ \A T : [Resting EXCEPT !.todo = T].attached = FALSE
BY DEF Resting

\* Repair k is where it was: what others may change of it is the map its chunk's
\* nodes are looked up in.
Same(k) ==
  /\ repair'[k].todo = repair[k].todo
  /\ repair'[k].chunk = repair[k].chunk /\ repair'[k].failed = repair[k].failed
  /\ repair'[k].sources = repair[k].sources
  /\ repair'[k].working = repair[k].working
  /\ repair'[k].target = repair[k].target
  /\ repair[k].moved \subseteq repair'[k].moved

\* A node added to its chunk, or taken off it, is noted and nothing else.
LEMMA MovedFields ==
  ASSUME TypeOK, NEW k \in Repairer, NEW n, repair'[k] = Moved(repair[k], n)
  PROVE  /\ Same(k) /\ repair'[k].moved = repair[k].moved \cup {n}
         /\ repair'[k].attached = repair[k].attached
         /\ repair'[k].held = repair[k].held
<1>1. repair[k] = [todo |-> repair[k].todo, failed |-> repair[k].failed,
                   chunk |-> repair[k].chunk, sources |-> repair[k].sources,
                   working |-> repair[k].working, target |-> repair[k].target,
                   attached |-> repair[k].attached, held |-> repair[k].held,
                   moved |-> repair[k].moved]
  BY DEF TypeOK, Repair
<1>2. QED
  BY <1>1 DEF Moved, Same

\* What each step of a repair changes.
LEMMA PruneEffect ==
  ASSUME TypeOK, NEW g \in Repairer, NEW t \in repair[g].todo, Prune(g, t)
  PROVE  /\ t[1] \in Node /\ t[2] \in ChunkId
         /\ repair[g].chunk = None
         /\ locs'[t[2]] = locs[t[2]] \ {t[1]}
         /\ \A c \in ChunkId \ {t[2]} : locs'[c] = locs[c]
         /\ repair'[g].todo = repair[g].todo \ {t}
         /\ repair'[g].chunk = t[2] /\ repair'[g].failed = t[1]
         /\ repair'[g].sources = locs[t[2]] \ {t[1]}
         /\ repair'[g].working = locs[t[2]] \ {t[1]}
         /\ repair'[g].target = None
         /\ repair'[g].attached = (t[2] \in listed)
         /\ repair'[g].held = {} /\ repair'[g].moved = {}
         /\ UNCHANGED <<status, names, listed, nodes, serving, disk, cluster, granted>>
BY RepairFields DEF Prune, TypeOK

\* The other repairs stay where they are.
LEMMA PruneOthers ==
  ASSUME TypeOK, NEW g \in Repairer, NEW t \in repair[g].todo, Prune(g, t),
         NEW k \in Repairer \ {g}
  PROVE  /\ Same(k)
         /\ repair'[k].attached = repair[k].attached
         /\ repair'[k].held = repair[k].held
         /\ repair[k].attached /\ repair[k].chunk = t[2] /\ t[1] \in locs[t[2]] =>
              t[1] \in repair'[k].moved
<1>1. repair'[k] = IF /\ repair[k].attached /\ repair[k].chunk = t[2]
                      /\ t[1] \in locs[t[2]]
                   THEN Moved(repair[k], t[1]) ELSE repair[k]
  <2>1. k # g
    OBVIOUS
  <2>2. QED
    BY <2>1 DEF Prune
<1>2. CASE repair'[k] = Moved(repair[k], t[1])
  <2>1. /\ Same(k) /\ repair'[k].moved = repair[k].moved \cup {t[1]}
        /\ repair'[k].attached = repair[k].attached
        /\ repair'[k].held = repair[k].held
    <3>1. k \in Repairer
      OBVIOUS
    <3>2. QED
      BY <1>2, <3>1, MovedFields, Zenon
  <2>2. QED
    BY <2>1
<1>3. CASE repair'[k] = repair[k]
  <2>1. ~(repair[k].attached /\ repair[k].chunk = t[2] /\ t[1] \in locs[t[2]])
        \/ repair'[k] = Moved(repair[k], t[1])
    BY <1>1
  <2>2. Same(k) /\ repair'[k].attached = repair[k].attached
        /\ repair'[k].held = repair[k].held
    BY <1>3 DEF Same
  <2>3. QED
    BY <1>2, <2>1, <2>2
<1>4. QED
  BY <1>1, <1>2, <1>3

LEMMA PickMoreEffect ==
  ASSUME TypeOK, NEW g \in Repairer, NEW n \in Node, PickMore(g, n)
  PROVE  /\ repair[g].chunk # None /\ n # repair[g].failed
         /\ ~Enough(repair[g].working \cup {n})
         /\ repair'[g].todo = repair[g].todo
         /\ repair'[g].chunk = repair[g].chunk /\ repair'[g].failed = repair[g].failed
         /\ repair'[g].sources = repair[g].sources
         /\ repair'[g].working = repair[g].working \cup {n}
         /\ repair'[g].target = NewTarget(repair[g], n)
         /\ repair'[g].attached = repair[g].attached
         /\ repair'[g].held = repair[g].held /\ repair'[g].moved = repair[g].moved
         /\ \A k \in Repairer \ {g} : repair'[k] = repair[k]
         /\ UNCHANGED <<status, names, table, nodes, serving, disk, cluster, granted>>
<1>1. repair[g] = [todo |-> repair[g].todo, failed |-> repair[g].failed,
                   chunk |-> repair[g].chunk, sources |-> repair[g].sources,
                   working |-> repair[g].working, target |-> repair[g].target,
                   attached |-> repair[g].attached, held |-> repair[g].held,
                   moved |-> repair[g].moved]
  BY DEF TypeOK, Repair
<1>2. QED
  BY <1>1 DEF PickMore, Draw, Working, TypeOK

LEMMA PickLastEffect ==
  ASSUME TypeOK, NEW g \in Repairer, NEW n \in Node, PickLast(g, n)
  PROVE  /\ repair[g].chunk # None /\ n # repair[g].failed
         /\ NewTarget(repair[g], n) # None
         /\ repair'[g].todo = repair[g].todo
         /\ repair'[g].chunk = None
         /\ \A k \in Repairer \ {g} : repair'[k] = repair[k]
         /\ \A o \in orders' \ orders : o = ReplicaOrder(repair[g], n)
         /\ UNCHANGED <<status, names, table, nodes, serving, disk, dir, storing,
                        deleting, granted>>
<1>1. repair'[g] = IF repair[g].todo = {} THEN Resting
                   ELSE [Resting EXCEPT !.todo = repair[g].todo,
                                        !.failed = repair[g].failed]
  BY DEF PickLast, TypeOK
<1>2. repair'[g].todo = repair[g].todo /\ repair'[g].chunk = None
  BY <1>1, RestingFields
<1>3. ReplicaOrder(repair[g], n).target = NewTarget(repair[g], n)
  BY DEF ReplicaOrder
<1>4. QED
  BY <1>2, <1>3 DEF PickLast, Draw, TypeOK

-----------------------------------------------------------------------------
(* Every other step leaves a repair where it is and notes the nodes that its *)
(* chunk gets or loses, or ends it with the process.                         *)

\* A chunk that is not in fileChunkMap has no nodes there, and a repair shares
\* the nodes of its chunk only while it is.
TableInv ==
  /\ \A c \in ChunkId \ listed : locs[c] = {}
  /\ \A g \in Repairer : repair[g].chunk # None /\ repair[g].attached =>
                            repair[g].chunk \in listed

Kept(k) ==
  \/ repair'[k].chunk = None
  \/ /\ Same(k)
     /\ AllChunkNodes(repair[k]) \ repair'[k].moved
          = AllChunkNodes(repair[k])' \ repair'[k].moved

LEMMA SameKept ==
  ASSUME TypeOK, UNCHANGED <<repair, listed, locs>>, orders' \subseteq orders,
         TableInv
  PROVE  TableInv' /\ orders' \subseteq orders /\ \A k \in Repairer : Kept(k)
BY DEF TableInv, Kept, Same, AllChunkNodes

\* The end of the process.
LEMMA ExitKept ==
  ASSUME NEW cause, Exit(cause)
  PROVE  TableInv' /\ \A k \in Repairer : Kept(k)
BY RestingFields DEF Exit, TableInv, Kept

\* A heartbeat adds its node to chunks, of which the repairs of these take note.
LEMMA RegisterKept ==
  ASSUME TypeOK, TableInv, NEW h \in Conn, Register(h)
  PROVE  TableInv' /\ orders' \subseteq orders /\ \A k \in Repairer : Kept(k)
<1> DEFINE m == msg[h]
           Noted(k) == /\ repair[k].attached /\ repair[k].chunk \in m.files
                       /\ m.node \notin locs[repair[k].chunk]
<1>1. /\ orders' = orders /\ listed' = listed \cup m.files
      /\ locs' = [c \in ChunkId |-> IF c \in m.files THEN locs[c] \cup {m.node}
                                    ELSE locs[c]]
      /\ \A k \in Repairer : repair'[k] = IF Noted(k) THEN Moved(repair[k], m.node)
                                          ELSE repair[k]
  BY DEF Register, cluster
<1>2. ASSUME NEW k \in Repairer
      PROVE  /\ Same(k) /\ repair'[k].attached = repair[k].attached
             /\ repair'[k].held = repair[k].held
  BY <1>1, MovedFields DEF Same
<1>3. TableInv'
  BY <1>1, <1>2 DEF TableInv, Same
<1>4. ASSUME NEW k \in Repairer, repair[k].chunk # None, repair[k].attached
      PROVE  Kept(k)
  <2>1. /\ AllChunkNodes(repair[k]) = locs[repair[k].chunk]
        /\ AllChunkNodes(repair[k])' = locs'[repair[k].chunk]
        /\ repair[k].chunk \in ChunkId
    BY <1>2, <1>4, RepairFields DEF AllChunkNodes, Same
  <2>2. CASE Noted(k)
    <3>1. m.node \in repair'[k].moved
      BY <1>1, <2>2, MovedFields
    <3>2. QED
      BY <1>1, <1>2, <2>1, <3>1 DEF Kept
  <2>3. CASE ~Noted(k)
    <3>1. locs'[repair[k].chunk] = locs[repair[k].chunk]
      BY <1>1, <1>4, <2>1, <2>3
    <3>2. QED
      BY <1>2, <2>1, <3>1 DEF Kept
  <2>4. QED
    BY <2>2, <2>3
<1>5. ASSUME NEW k \in Repairer, ~repair[k].attached PROVE Kept(k)
  BY <1>2, <1>5 DEF Kept, AllChunkNodes
<1>6. ASSUME NEW k \in Repairer, repair[k].chunk = None PROVE Kept(k)
  BY <1>2, <1>6 DEF Kept, Same
<1>7. QED
  BY <1>1, <1>3, <1>4, <1>5, <1>6

\* So do they of a node that another repair takes off the chunk.
LEMMA PruneKept ==
  ASSUME TypeOK, NEW g \in Repairer, NEW t \in repair[g].todo, Prune(g, t),
         NEW k \in Repairer \ {g}
  PROVE  Kept(k)
<1>1. /\ Same(k) /\ repair'[k].attached = repair[k].attached
      /\ repair'[k].held = repair[k].held
  BY PruneOthers
<1>2. CASE repair[k].attached /\ repair[k].chunk = t[2] /\ t[1] \in locs[t[2]]
  <2>1. t[1] \in repair'[k].moved
    BY <1>2, PruneOthers
  <2>2. /\ AllChunkNodes(repair[k]) = locs[t[2]]
        /\ AllChunkNodes(repair[k])' = locs[t[2]] \ {t[1]}
    BY <1>1, <1>2, PruneEffect DEF AllChunkNodes, Same
  <2>3. QED
    BY <1>1, <2>1, <2>2 DEF Kept
<1>3. CASE /\ ~(repair[k].attached /\ repair[k].chunk = t[2] /\ t[1] \in locs[t[2]])
           /\ repair[k].chunk # None
  <2>1. repair[k].attached => locs'[repair[k].chunk] = locs[repair[k].chunk]
    <3>1. repair[k].chunk \in ChunkId
      BY <1>3, RepairFields
    <3>2. CASE repair[k].chunk = t[2]
      <4>1. repair[k].attached => t[1] \notin locs[t[2]]
        BY <1>3, <3>2, Zenon
      <4>2. locs'[t[2]] = locs[t[2]] \ {t[1]}
        BY PruneEffect
      <4>3. t[1] \notin locs[t[2]] => locs'[repair[k].chunk] = locs[repair[k].chunk]
        BY <3>2, <4>2
      <4>4. QED
        BY <4>1, <4>3, Zenon
    <3>3. CASE repair[k].chunk # t[2]
      <4>1. repair[k].chunk \in ChunkId \ {t[2]}
        BY <3>1, <3>3
      <4>2. QED
        BY <4>1, PruneEffect
    <3>4. QED
      BY <3>2, <3>3
  <2>2. AllChunkNodes(repair[k])' = AllChunkNodes(repair[k])
    BY <1>1, <2>1 DEF AllChunkNodes, Same
  <2>3. QED
    BY <1>1, <2>2 DEF Kept
<1>4. CASE repair[k].chunk = None
  BY <1>1, <1>4 DEF Kept, Same
<1>5. QED
  BY <1>2, <1>3, <1>4

\* A delete that drops the entry of a chunk leaves its nodes to the repair.
LEMMA DropTableKept ==
  ASSUME TypeOK, TableInv, NEW h \in Conn, DropTable(h)
  PROVE  TableInv' /\ orders' \subseteq orders /\ \A k \in Repairer : Kept(k) /\ Same(k)
<1> DEFINE f == msg[h].name
           Detached(k) == repair[k].attached /\ repair[k].chunk \in Listed(f)
<1>1. /\ listed' = listed \ Listed(f) /\ orders' = orders
      /\ locs' = [c \in ChunkId |-> IF c[1] = f THEN {} ELSE locs[c]]
  BY DEF DropTable, Remaining, cluster
<1>2. ASSUME NEW k \in Repairer
      PROVE  repair'[k] = IF Detached(k)
                          THEN [repair[k] EXCEPT !.attached = FALSE,
                                                 !.held = locs[repair[k].chunk]]
                          ELSE repair[k]
  BY DEF DropTable
<1>3. ASSUME NEW k \in Repairer, Detached(k)
      PROVE  /\ Same(k) /\ repair'[k].attached = FALSE
             /\ repair'[k].held = locs[repair[k].chunk]
  <2>1. repair[k] = [todo |-> repair[k].todo, failed |-> repair[k].failed,
                     chunk |-> repair[k].chunk, sources |-> repair[k].sources,
                     working |-> repair[k].working, target |-> repair[k].target,
                     attached |-> repair[k].attached, held |-> repair[k].held,
                     moved |-> repair[k].moved]
    BY DEF TypeOK, Repair
  <2>2. QED
    BY <1>2, <1>3, <2>1 DEF Same
<1>4. ASSUME NEW k \in Repairer PROVE Kept(k) /\ Same(k)
  <2>1. CASE Detached(k)
    BY <1>3, <2>1 DEF Kept, AllChunkNodes
  <2>2. CASE ~Detached(k) /\ repair[k].chunk # None
    <3>1. repair'[k] = repair[k] /\ repair[k].chunk \in ChunkId
      BY <1>2, <2>2, RepairFields
    <3>2. repair[k].attached => repair[k].chunk[1] # f
      BY <2>2 DEF TableInv, Listed
    <3>3. AllChunkNodes(repair[k])' = AllChunkNodes(repair[k])
      BY <1>1, <3>1, <3>2 DEF AllChunkNodes
    <3>4. QED
      BY <3>1, <3>3 DEF Kept, Same
  <2>3. CASE ~Detached(k) /\ repair[k].chunk = None
    BY <1>2, <2>3 DEF Kept, Same
  <2>4. QED
    BY <2>1, <2>2, <2>3
<1>5. TableInv'
  <2>1. ASSUME NEW c \in ChunkId \ listed' PROVE locs'[c] = {}
    BY <1>1, <2>1 DEF TableInv, Listed
  <2>2. ASSUME NEW k \in Repairer, repair'[k].chunk # None, repair'[k].attached
        PROVE  repair'[k].chunk \in listed'
    <3>1. ~Detached(k) /\ repair'[k] = repair[k]
      BY <1>2, <1>3, <2>2
    <3>2. QED
      BY <1>1, <2>2, <3>1 DEF TableInv
  <2>3. QED
    BY <2>1, <2>2 DEF TableInv
<1>6. QED
  BY <1>1, <1>4, <1>5

\* The steps of connections.
LEMMA ServeKept ==
  ASSUME TypeOK, TableInv, NEW h \in Conn, Request(h) \/ Serve(h)
  PROVE  TableInv' /\ orders' \subseteq orders /\ \A k \in Repairer : Kept(k)
<1> DEFINE Still == UNCHANGED <<repair, listed, locs>> /\ orders' \subseteq orders
           Ends == orders' = orders /\ \E cause \in Cause : Exit(cause)
<1> USE DEF table, cluster
<1>1. Request(h) \/ BloomGet(h) \/ Refuse(h) \/ Admit(h) => Still
  BY DEF Request, ClientRequest, SendHeartbeat, BloomGet, Refuse, Admit
<1>2. Write(h) => Still \/ Ends
  BY DEF Write, SaveName, CreateMeta, WriteMeta, BloomPut, Place, PlaceNoNode, Cause
<1>3. Delete(h) => Still \/ Ends \/ DropTable(h)
  BY DEF Delete, SendDeletes, SendDeletesNoReplica, RemoveTable, DropTableFails,
     RemoveMeta, DropName, DropNameFails, Cause
<1>4. Read(h) => Still \/ Ends
  BY DEF Read, ReadInfo, ReadInfoGone, ReadChunks, ReadChunksOverrun, Cause
<1>5. Beat(h) => Still \/ Register(h)
  BY DEF Beat, SaveTable, Activate
<1>6. Still \/ Ends \/ DropTable(h) \/ Register(h)
  <2> HIDE DEF Still, Ends
  <2>1. QED
    BY <1>1, <1>2, <1>3, <1>4, <1>5 DEF Serve
<1>7. QED
  BY <1>6, SameKept, ExitKept, RegisterKept, DropTableKept

\* All steps but those of repairs.
LEMMA OthersKeep ==
  ASSUME TypeOK, TableInv, [Next]_vars
  PROVE  \/ \E g \in Repairer : Repairs(g)
         \/ TableInv' /\ orders' \subseteq orders /\ \A k \in Repairer : Kept(k)
<1> DEFINE Keeps == TableInv' /\ orders' \subseteq orders /\ \A k \in Repairer : Kept(k)
<1> USE DEF table, cluster
<1>1. ASSUME NEW h \in Conn, Request(h) \/ Serve(h) PROVE Keeps
  BY <1>1, ServeKept
<1>2. ASSUME NEW g \in Repairer, Replace(g) PROVE Repairs(g) \/ Keeps
  <2>1. CASE PickNoNode(g) \/ \E n \in Node : PickNoTarget(g, n)
    BY <2>1, ExitKept DEF PickNoNode, PickNoTarget
  <2>2. QED
    BY <1>2, <2>1 DEF Replace, Repairs
<1>3. ASSUME NEW g \in Repairer, NEW S \in SUBSET Node, Monitor(g, S) PROVE Keeps
  <2>1. /\ UNCHANGED <<listed, locs>> /\ orders' = orders
        /\ \A k \in Repairer \ {g} : repair'[k] = repair[k]
        /\ repair'[g].chunk = None
    BY <1>3, RestingFields DEF Monitor, TypeOK
  <2>2. QED
    BY <2>1 DEF TableInv, Kept, Same, AllChunkNodes
<1>4. CASE MapRace \/ Kill
  BY <1>4, ExitKept DEF MapRace, Kill
<1>5. CASE Restart \/ RestartPanics \/ Storage \/ UNCHANGED vars
  BY <1>5, SameKept DEF Restart, RestartPanics, Storage, StoreChunk, DeleteChunk,
     CopyChunk, vars
<1>6. QED
  BY <1>1, <1>2, <1>3, <1>4, <1>5 DEF Next

\* Neither do repairs give nodes to a chunk that is not listed.
LEMMA RepairsTable ==
  ASSUME TypeOK, TableInv, NEW g \in Repairer, Repairs(g)
  PROVE  TableInv'
<1> USE DEF table
<1>1. ASSUME NEW t \in repair[g].todo, Prune(g, t) PROVE TableInv'
  <2>1. /\ \A k \in Repairer \ {g} : Same(k) /\ repair'[k].attached = repair[k].attached
        /\ repair'[g].chunk = t[2] /\ repair'[g].attached = (t[2] \in listed)
        /\ \A c \in ChunkId : locs[c] = {} => locs'[c] = {}
        /\ listed' = listed
    BY <1>1, PruneEffect, PruneOthers
  <2>2. QED
    BY <2>1 DEF TableInv, Same
<1>2. ASSUME NEW n \in Node, PickMore(g, n) PROVE TableInv'
  <2>1. /\ \A k \in Repairer \ {g} : repair'[k] = repair[k]
        /\ repair'[g].chunk = repair[g].chunk
        /\ repair'[g].attached = repair[g].attached
        /\ listed' = listed /\ locs' = locs
    BY <1>2, PickMoreEffect
  <2>2. QED
    BY <2>1 DEF TableInv
<1>3. ASSUME NEW n \in Node, PickLast(g, n) PROVE TableInv'
  BY <1>3, PickLastEffect DEF TableInv
<1>4. QED
  BY <1>1, <1>2, <1>3 DEF Repairs

LEMMA TableCorrect == Spec => []TableInv
<1>1. Init => TableInv
  BY RestingFields DEF Init, TableInv
<1>2. TypeOK /\ TableInv /\ [Next]_vars => TableInv'
  BY OthersKeep, RepairsTable
<1>3. QED
  BY <1>1, <1>2, TypeCorrect, PTL DEF Spec

-----------------------------------------------------------------------------
(* The loop that draws nodes. *)

\* Every set of nodes is finite.
LEMMA NodesFinite ==
  ASSUME NEW S \in SUBSET Node
  PROVE  IsFiniteSet(S) /\ Cardinality(S) \in Nat
<1>1. IsFiniteSet(S)
  BY ControllerAssumption, FS_Subset
<1>2. QED
  BY <1>1, FS_CardinalityType

\* One more node makes a set at most one larger.
LEMMA OneMore ==
  ASSUME NEW S \in SUBSET Node, NEW n \in Node
  PROVE  /\ Cardinality(S) \in Nat
         /\ Cardinality(S \cup {n}) \in Nat
         /\ Cardinality(S \cup {n}) <= Cardinality(S) + 1
<1>1. IsFiniteSet(S) /\ Cardinality(S) \in Nat
  BY NodesFinite
<1>2. Cardinality(S \cup {n}) = IF n \in S THEN Cardinality(S) ELSE Cardinality(S) + 1
  BY <1>1, FS_AddElement
<1>3. QED
  BY <1>1, <1>2

\* A set of nodes has subsets of every smaller size.
LEMMA SubsetOfSize ==
  ASSUME NEW S \in SUBSET Node, NEW k \in Nat, k <= Cardinality(S)
  PROVE  \E T \in SUBSET S : Cardinality(T) = k
<1> DEFINE d == Cardinality(S)
<1>1. d \in Nat /\ ExistsBijection(1 .. d, S)
  BY NodesFinite, FS_CardinalityType
<1>2. PICK f \in Bijection(1 .. d, S) : TRUE
  BY <1>1 DEF ExistsBijection
<1> DEFINE T == {f[i] : i \in 1 .. k}
           r == [i \in 1 .. k |-> f[i]]
<1>3. /\ f \in [1 .. d -> S]
      /\ \A i, j \in 1 .. d : f[i] = f[j] => i = j
  BY <1>2 DEF Bijection, Injection, IsInjective
<1>4. 1 .. k \subseteq 1 .. d
  BY <1>1
<1>5. T \subseteq S
  BY <1>3, <1>4
<1>6. r \in Bijection(1 .. k, T)
  <2>1. r \in [1 .. k -> T]
    OBVIOUS
  <2>2. \A i, j \in 1 .. k : r[i] = r[j] => i = j
    BY <1>3, <1>4
  <2>3. \A x \in T : \E i \in 1 .. k : r[i] = x
    OBVIOUS
  <2>4. QED
    BY <2>1, <2>2, <2>3 DEF Bijection, Injection, Surjection, IsInjective
<1>7. Cardinality(T) = k
  BY <1>6, FS_CountingElements DEF ExistsBijection
<1>8. QED
  BY <1>5, <1>7

\* Nodes that, with those drawn, are as many as the loop waits for or more, have
\* among them just as many as are missing.
LEMMA FillUp ==
  ASSUME NEW W \in SUBSET Node, NEW A \in SUBSET Node,
         Cardinality(W) < MaxReplicas, MaxReplicas <= Cardinality(W \cup A)
  PROVE  \E T \in SUBSET A : T # {} /\ Cardinality(W \cup T) = MaxReplicas
<1> DEFINE D == A \ W
           k == MaxReplicas - Cardinality(W)
<1>1. /\ IsFiniteSet(W) /\ Cardinality(W) \in Nat
      /\ IsFiniteSet(D) /\ Cardinality(D) \in Nat
  BY NodesFinite
<1>2. Cardinality(W \cup A) = Cardinality(W) + Cardinality(D)
  <2>1. W \cup A = W \cup D /\ W \cap D = {}
    OBVIOUS
  <2>2. Cardinality(W \cup D) = Cardinality(W) + Cardinality(D) - Cardinality(W \cap D)
    BY <1>1, FS_Union
  <2>3. Cardinality(W \cap D) = 0
    BY <2>1, FS_EmptySet
  <2>4. Cardinality(W \cup A) = Cardinality(W \cup D)
    BY <2>1, Zenon
  <2> HIDE DEF D
  <2>5. QED
    BY <1>1, <2>2, <2>3, <2>4
<1>3. k \in Nat \ {0} /\ k <= Cardinality(D)
  BY <1>1, <1>2, ControllerAssumption
<1>4. PICK T \in SUBSET D : Cardinality(T) = k
  BY <1>3, SubsetOfSize
<1>5. IsFiniteSet(T) /\ W \cap T = {}
  BY <1>4, NodesFinite
<1>6. Cardinality(W \cup T) = Cardinality(W) + k
  BY <1>1, <1>3, <1>4, <1>5, FS_Union, FS_EmptySet
<1>7. Cardinality(W \cup T) = MaxReplicas
  BY <1>1, <1>6, ControllerAssumption
<1>8. T # {}
  BY <1>3, <1>4, FS_EmptySet
<1>9. QED
  BY <1>4, <1>7, <1>8

\* The sources count as drawn, and a loop that did not start with MAX_REPLICAS of
\* them has drawn fewer.
DrawInv ==
  \A g \in Repairer :
    LET r == repair[g]
    IN r.chunk # None =>
         /\ r.sources \subseteq r.working
         /\ Cardinality(r.sources) < MaxReplicas => Cardinality(r.working) < MaxReplicas

LEMMA DrawStep ==
  ASSUME TypeOK, TableInv, DrawInv, [Next]_vars
  PROVE  DrawInv'
<1> USE DEF DrawInv
<1>1. ASSUME NEW g \in Repairer, NEW t \in repair[g].todo, Prune(g, t)
      PROVE  DrawInv'
  <2>1. repair'[g].working = repair'[g].sources
    BY <1>1, PruneEffect
  <2>2. \A k \in Repairer \ {g} : Same(k)
    BY <1>1, PruneOthers
  <2>3. QED
    BY <2>1, <2>2 DEF Same
<1>2. ASSUME NEW g \in Repairer, NEW n \in Node, PickMore(g, n)
      PROVE  DrawInv'
  <2>1. Cardinality(repair[g].working \cup {n}) # MaxReplicas
    BY <1>2, PickMoreEffect DEF Enough
  <2>2. Cardinality(repair[g].working) < MaxReplicas =>
          Cardinality(repair[g].working \cup {n}) < MaxReplicas
    BY <2>1, OneMore, RepairFields, ControllerAssumption
  <2>3. /\ repair[g].chunk # None
        /\ repair'[g].sources = repair[g].sources
        /\ repair'[g].working = repair[g].working \cup {n}
        /\ \A k \in Repairer \ {g} : repair'[k] = repair[k]
    BY <1>2, PickMoreEffect
  <2>4. QED
    BY <2>2, <2>3
<1>3. ASSUME NEW g \in Repairer, NEW n \in Node, PickLast(g, n)
      PROVE  DrawInv'
  BY <1>3, PickLastEffect
<1>4. CASE \A k \in Repairer : Kept(k)
  BY <1>4 DEF Kept, Same
<1>5. QED
  BY <1>1, <1>2, <1>3, <1>4, OthersKeep DEF Repairs

\* Such a loop finds its way out among the active nodes, if there are enough.
LEMMA WayOut ==
  ASSUME TypeOK, DrawInv
  PROVE  DrawingCanEnd
<1> SUFFICES ASSUME NEW g \in Repairer,
                    repair[g].chunk # None,
                    Cardinality(repair[g].sources) < MaxReplicas,
                    \/ repair[g].failed \notin active
                    \/ Cardinality(repair[g].sources \cup (active \ {repair[g].failed}))
                         >= MaxReplicas,
                    active # {}
             PROVE  CanEnd(repair[g])
  BY DEF DrawingCanEnd, CanEnd
<1> DEFINE W == repair[g].working
           A == active \ {repair[g].failed}
<1>1. /\ W \in SUBSET Node /\ A \in SUBSET Node
      /\ repair[g].sources \subseteq W /\ Cardinality(W) < MaxReplicas
  BY RepairFields DEF DrawInv, TypeOK
<1>2. CASE MaxReplicas <= Cardinality(W \cup A)
  <2>1. PICK T \in SUBSET A : T # {} /\ Cardinality(W \cup T) = MaxReplicas
    BY <1>1, <1>2, FillUp
  <2>2. QED
    BY <2>1 DEF CanEnd, Enough
<1>3. CASE ~(MaxReplicas <= Cardinality(W \cup A))
  <2>1. /\ IsFiniteSet(W \cup A) /\ Cardinality(W \cup A) \in Nat
        /\ Cardinality(A) <= Cardinality(W \cup A) /\ Cardinality(A) \in Nat
        /\ Cardinality(repair[g].sources \cup A) <= Cardinality(W \cup A)
        /\ Cardinality(repair[g].sources \cup A) \in Nat
    <3>1. W \cup A \in SUBSET Node /\ repair[g].sources \cup A \in SUBSET Node
      BY <1>1
    <3>2. A \in SUBSET (W \cup A) /\ repair[g].sources \cup A \in SUBSET (W \cup A)
      BY <1>1
    <3>3. IsFiniteSet(W \cup A) /\ Cardinality(W \cup A) \in Nat
      BY <3>1, NodesFinite
    <3>4. /\ Cardinality(A) <= Cardinality(W \cup A)
          /\ Cardinality(repair[g].sources \cup A) <= Cardinality(W \cup A)
      BY <3>2, <3>3, FS_Subset
    <3>5. Cardinality(A) \in Nat /\ Cardinality(repair[g].sources \cup A) \in Nat
      BY <1>1, <3>1, NodesFinite
    <3>6. QED
      BY <3>3, <3>4, <3>5
  <2>2. A = active
    <3>1. ~(Cardinality(repair[g].sources \cup A) >= MaxReplicas)
      <4> HIDE DEF A, W
      <4>1. QED
        BY <1>3, <2>1, ControllerAssumption
    <3>2. repair[g].failed \notin active
      BY <3>1
    <3>3. QED
      BY <3>2
  <2>3. Cardinality(active) < MaxReplicas
    <3>1. Cardinality(A) < MaxReplicas
      <4> HIDE DEF A, W
      <4>1. QED
        BY <1>3, <2>1, ControllerAssumption
    <3>2. QED
      BY <2>2, <3>1, Zenon
  <2>4. QED
    BY <2>2, <2>3 DEF CanEnd, Enough
<1>4. QED
  BY <1>2, <1>3

\* The loop that draws the new node of a chunk can always still end, unless the
\* chunk had MAX_REPLICAS other nodes to begin with, or the failed node is active
\* again and the others are too few (controller.go:239-254).
THEOREM DrawingEnds == Spec => []DrawingCanEnd
<1>1. Init => DrawInv
  BY RestingFields DEF Init, DrawInv
<1>2. TypeOK /\ TableInv /\ DrawInv /\ [Next]_vars => DrawInv'
  BY DrawStep
<1>3. TypeOK /\ DrawInv => DrawingCanEnd
  BY WayOut
<1>4. QED
  BY <1>1, <1>2, <1>3, TypeCorrect, TableCorrect, PTL DEF Spec

-----------------------------------------------------------------------------
(* The order a repair ends with. *)

\* A repair never draws the failed node.  The sources are the nodes the map has
\* for the chunk, but for those that were added or taken off since; so what the
\* map did not have when it was drawn, and was not moved, is no source.
RepairSound(k) ==
  LET r == repair[k]
  IN r.chunk # None =>
       /\ r.failed \notin r.sources \cup {r.target}
       /\ r.sources \ r.moved = AllChunkNodes(r) \ r.moved
       /\ r.target \in r.sources \cup AllChunkNodes(r) => r.target \in r.moved

OrdersInv == \A k \in Repairer : RepairSound(k)

\* One more draw.
LEMMA TargetSound ==
  ASSUME NEW g \in Repairer, RepairSound(g), repair[g].chunk # None,
         NEW n \in Node, n # repair[g].failed
  PROVE  /\ NewTarget(repair[g], n) # repair[g].failed
         /\ NewTarget(repair[g], n) \in repair[g].sources \cup AllChunkNodes(repair[g])
              => NewTarget(repair[g], n) \in repair[g].moved
BY DEF RepairSound, NewTarget

\* What others do to the map of a chunk is noted.
LEMMA KeptSound ==
  ASSUME NEW k \in Repairer, RepairSound(k), Kept(k)
  PROVE  RepairSound(k)'
<1>1. CASE repair'[k].chunk = None
  BY <1>1 DEF RepairSound
<1>2. CASE /\ Same(k) /\ repair[k].chunk # None
           /\ AllChunkNodes(repair[k]) \ repair'[k].moved
                = AllChunkNodes(repair[k])' \ repair'[k].moved
  <2> DEFINE A == AllChunkNodes(repair[k])
             B == AllChunkNodes(repair[k])'
             S == repair[k].sources
             M == repair'[k].moved
  <2>1. /\ S \ repair[k].moved = A \ repair[k].moved /\ repair[k].moved \subseteq M
        /\ A \ M = B \ M
        /\ repair[k].target \in S \cup A => repair[k].target \in repair[k].moved
        /\ repair[k].failed \notin S \cup {repair[k].target}
    BY <1>2 DEF RepairSound, Same
  <2>2. /\ repair'[k].sources = S /\ repair'[k].target = repair[k].target
        /\ repair'[k].failed = repair[k].failed
    BY <1>2 DEF Same
  <2> HIDE DEF A, B, S, M
  <2>3. S \ M = B \ M
    BY <2>1
  <2>4. repair[k].target \in S \cup B => repair[k].target \in M
    BY <2>1
  <2>5. QED
    BY <2>1, <2>2, <2>3, <2>4 DEF RepairSound, A, B, S, M
<1>3. QED
  BY <1>1, <1>2 DEF Kept, Same

LEMMA OrdersStep ==
  ASSUME TypeOK, TableInv, OrdersInv, [Next]_vars
  PROVE  OrdersInv'
<1>1. ASSUME NEW g \in Repairer, NEW t \in repair[g].todo, Prune(g, t)
      PROVE  OrdersInv'
  <2>1. AllChunkNodes(repair[g])' = IF t[2] \in listed THEN locs'[t[2]] ELSE {}
    BY <1>1, PruneEffect DEF AllChunkNodes
  <2>2. repair'[g].sources = AllChunkNodes(repair[g])'
    <3>1. /\ repair'[g].sources = locs[t[2]] \ {t[1]} /\ t[2] \in ChunkId
          /\ locs'[t[2]] = locs[t[2]] \ {t[1]}
      BY <1>1, PruneEffect
    <3>2. t[2] \notin listed => locs[t[2]] = {}
      BY <3>1 DEF TableInv
    <3>3. QED
      BY <2>1, <3>1, <3>2
  <2>3. /\ repair'[g].failed \notin repair'[g].sources
        /\ repair'[g].target = None /\ repair'[g].failed \in Node
        /\ repair'[g].sources \subseteq Node
    BY <1>1, PruneEffect DEF TypeOK
  <2>4. RepairSound(g)'
    BY <2>2, <2>3, ControllerAssumption DEF RepairSound
  <2>5. \A k \in Repairer \ {g} : RepairSound(k)'
    BY <1>1, PruneKept, KeptSound DEF OrdersInv
  <2>6. QED
    BY <2>4, <2>5 DEF OrdersInv
<1>2. ASSUME NEW g \in Repairer, NEW n \in Node, PickMore(g, n)
      PROVE  OrdersInv'
  <2>1. AllChunkNodes(repair[g])' = AllChunkNodes(repair[g])
    BY <1>2, PickMoreEffect DEF AllChunkNodes, table
  <2>2. RepairSound(g) /\ repair[g].chunk # None /\ n # repair[g].failed
    BY <1>2, PickMoreEffect DEF OrdersInv
  <2>3. /\ repair'[g].failed = repair[g].failed
        /\ repair'[g].sources = repair[g].sources
        /\ repair'[g].target = NewTarget(repair[g], n)
        /\ repair'[g].moved = repair[g].moved
    BY <1>2, PickMoreEffect
  <2>4. RepairSound(g)'
    <3>1. /\ NewTarget(repair[g], n) # repair[g].failed
          /\ NewTarget(repair[g], n) \in repair[g].sources \cup AllChunkNodes(repair[g])
               => NewTarget(repair[g], n) \in repair[g].moved
      BY <2>2, TargetSound
    <3>2. /\ repair[g].failed \notin repair[g].sources
          /\ repair[g].sources \ repair[g].moved
               = AllChunkNodes(repair[g]) \ repair[g].moved
      BY <2>2 DEF RepairSound
    <3>3. QED
      BY <2>1, <2>3, <3>1, <3>2 DEF RepairSound
  <2>5. /\ \A k \in Repairer \ {g} : repair'[k] = repair[k]
        /\ locs' = locs
    BY <1>2, PickMoreEffect DEF table
  <2>6. \A k \in Repairer \ {g} : RepairSound(k)'
    BY <2>5 DEF OrdersInv, RepairSound, AllChunkNodes
  <2>7. QED
    BY <2>4, <2>6 DEF OrdersInv
<1>3. ASSUME NEW g \in Repairer, NEW n \in Node, PickLast(g, n)
      PROVE  OrdersInv'
  <2>1. /\ repair'[g].chunk = None /\ locs' = locs
        /\ \A k \in Repairer \ {g} : repair'[k] = repair[k]
    BY <1>3, PickLastEffect DEF table
  <2>2. QED
    BY <2>1 DEF OrdersInv, RepairSound, AllChunkNodes
<1>4. CASE \A k \in Repairer : Kept(k)
  BY <1>4, KeptSound DEF OrdersInv
<1>5. QED
  BY <1>1, <1>2, <1>3, <1>4, OthersKeep DEF Repairs

\* Every order that a step sends is the one a sound repair ends with.
LEMMA SentSound ==
  ASSUME TypeOK, TableInv, OrdersInv, [Next]_vars, NEW o \in orders' \ orders
  PROVE  \E g \in Repairer : repair'[g].chunk = None /\ Sound(repair[g], o)
<1>1. PICK g \in Repairer : Repairs(g)
  BY OthersKeep
<1>2. PICK n \in Node : PickLast(g, n)
  <2>1. ASSUME NEW t \in repair[g].todo, Prune(g, t) PROVE FALSE
    BY <2>1, PruneEffect DEF cluster
  <2>2. ASSUME NEW n \in Node, PickMore(g, n) PROVE FALSE
    BY <2>2, PickMoreEffect DEF cluster
  <2>3. QED
    BY <1>1, <2>1, <2>2 DEF Repairs
<1>3. /\ repair[g].chunk # None /\ n # repair[g].failed
      /\ repair'[g].chunk = None /\ RepairSound(g)
  BY <1>2, PickLastEffect DEF OrdersInv
<1>4. /\ o.chunk = repair[g].chunk /\ o.failed = repair[g].failed
      /\ o.sources = repair[g].sources /\ o.target = NewTarget(repair[g], n)
  BY <1>2, PickLastEffect DEF ReplicaOrder
<1>5. Sound(repair[g], o)
  BY <1>3, <1>4, TargetSound DEF Sound, RepairSound
<1>6. QED
  BY <1>3, <1>5

\* However repairs, heartbeats and deletes overlap, a new replica is ordered of a
\* node that did not fail and is not known to have the chunk, unless the map was
\* changed for it since the sources were read (controller.go:215-275).
THEOREM OrdersCorrect == Spec => OrdersSound
<1> DEFINE Sent == \A o \in orders' \ orders : \E g \in Repairer :
                     repair'[g].chunk = None /\ Sound(repair[g], o)
<1>1. Init => OrdersInv
  BY RestingFields DEF Init, OrdersInv, RepairSound
<1>2. TypeOK /\ TableInv /\ OrdersInv /\ [Next]_vars => OrdersInv' /\ Sent
  BY OrdersStep, SentSound
<1>3. QED
  BY <1>1, <1>2, TypeCorrect, TableCorrect, PTL DEF Spec, OrdersSound

-----------------------------------------------------------------------------
(* Nodes keep what was located on them until they are asked to delete it. *)

\* Node n has chunk c, or was asked to delete it.
Has(n, c) == c \in dir[n] \/ <<c, n>> \in deleting

\* A heartbeat lists, and the map locates, what a node has; and so do repairs and
\* the orders they end with.
HoldInv ==
  /\ \A h \in Conn : pc[h] \in BeatPc =>
       \A c \in msg[h].files : Has(msg[h].node, c)
  /\ \A c \in ChunkId : \A n \in locs[c] : Has(n, c)
  /\ \A g \in Repairer : repair[g].chunk # None =>
       \A n \in repair[g].sources : Has(n, repair[g].chunk)
  /\ \A o \in orders : \A n \in o.sources : Has(n, o.chunk)

\* The end of the process, by itself or not.
Crash == /\ Ending
         /\ UNCHANGED <<orders, dir>> /\ deleting \subseteq deleting'

\* What a step of a client request leaves of the nodes and the repairs.
ClientOnly ==
  /\ UNCHANGED <<nodes, orders, dir>> /\ deleting \subseteq deleting'
  /\ \A c \in ChunkId : locs'[c] \subseteq locs[c]
  /\ \A k \in Repairer : Same(k)

\* The steps of a client request.
LEMMA ClientStep ==
  ASSUME TypeOK, TableInv, NEW h \in Conn,
         \/ \E kind \in ClientKind, f \in Name, i \in Info \cup {None} :
              ClientRequest(h, kind, f, i)
         \/ BloomGet(h) \/ Refuse(h) \/ Admit(h) \/ Write(h) \/ Delete(h) \/ Read(h)
  PROVE  \/ Crash
         \/ /\ ClientOnly
            /\ pc[h] \notin BeatPc /\ pc'[h] \notin BeatPc
            /\ \A k \in Conn \ {h} : pc'[k] = pc[k] /\ msg'[k] = msg[k]
<1> DEFINE Goal == /\ ClientOnly
                   /\ pc[h] \notin BeatPc /\ pc'[h] \notin BeatPc
                   /\ \A k \in Conn \ {h} : pc'[k] = pc[k] /\ msg'[k] = msg[k]
           Still == UNCHANGED <<locs, nodes, orders, dir, deleting, repair>>
           Others == \A k \in Conn \ {h} : pc'[k] = pc[k] /\ msg'[k] = msg[k]
<1> USE DEF Goto, Done, TypeOK, cluster, table, disk, BeatPc
<1>0. ASSUME Still PROVE ClientOnly
  BY <1>0 DEF ClientOnly, Same
<1>1. ASSUME NEW kind \in ClientKind, NEW f \in Name, NEW i \in Info \cup {None},
             ClientRequest(h, kind, f, i)
      PROVE  Goal
  BY <1>0, <1>1 DEF ClientRequest
<1>2. CASE BloomGet(h) \/ Refuse(h) \/ Admit(h)
  <2>1. pc[h] \in {"filter", "lookup"} /\ pc[h] \in ClientPc
    BY <1>2 DEF BloomGet, Refuse, Admit, ClientPc
  <2>2. FirstStep[msg[h].kind] \in {"saveName", "sendDeletes", "readInfo"}
    BY <2>1, ServedMessage DEF FirstStep, ClientKind
  <2>3. Still /\ Others
    BY <1>2 DEF BloomGet, Refuse, Admit
  <2>4. pc'[h] \notin BeatPc
    BY <1>2, <2>2 DEF BloomGet, Refuse, Admit
  <2>5. QED
    BY <1>0, <2>1, <2>3, <2>4
<1>3. CASE Write(h)
  <2>1. pc[h] \in WritePc
    BY <1>3 DEF Write, SaveName, CreateMeta, WriteMeta, BloomPut, Place,
       PlaceNoNode, WritePc
  <2>2. CASE PlaceNoNode(h)
    BY <2>2 DEF PlaceNoNode, Crash, Ending, Cause
  <2>3. CASE ~PlaceNoNode(h)
    <3>1. Still /\ Others /\ pc'[h] \notin BeatPc
      BY <1>3, <2>3 DEF Write, SaveName, CreateMeta, WriteMeta, BloomPut, Place
    <3>2. QED
      BY <1>0, <2>1, <3>1 DEF WritePc
  <2>4. QED
    BY <2>2, <2>3
<1>4. CASE Delete(h)
  <2>1. pc[h] \notin BeatPc
    BY <1>4 DEF Delete, SendDeletes, SendDeletesNoReplica, RemoveTable, DropTable,
       DropTableFails, RemoveMeta, DropName, DropNameFails
  <2>2. CASE SendDeletesNoReplica(h) \/ DropTableFails(h) \/ DropNameFails(h)
    BY <2>2 DEF SendDeletesNoReplica, DropTableFails, DropNameFails, Crash, Ending,
       Cause
  <2>3. CASE DropTable(h)
    <3>1. \A k \in Repairer : Same(k)
      BY <2>3, DropTableKept
    <3>2. ClientOnly /\ Others /\ pc'[h] \notin BeatPc
      BY <2>3, <3>1 DEF DropTable, ClientOnly
    <3>3. QED
      BY <2>1, <3>2
  <2>4. CASE SendDeletes(h)
    <3>1. /\ UNCHANGED <<locs, nodes, orders, dir, repair>> /\ deleting \subseteq deleting'
          /\ Others /\ pc'[h] \notin BeatPc
      BY <2>4 DEF SendDeletes
    <3>2. QED
      BY <2>1, <3>1 DEF ClientOnly, Same
  <2>5. CASE RemoveTable(h) \/ RemoveMeta(h) \/ DropName(h)
    <3>1. Still /\ Others /\ pc'[h] \notin BeatPc
      BY <2>5 DEF RemoveTable, RemoveMeta, DropName
    <3>2. QED
      BY <1>0, <2>1, <3>1
  <2>6. QED
    BY <1>4, <2>2, <2>3, <2>4, <2>5 DEF Delete
<1>5. CASE Read(h)
  <2>1. pc[h] \in {"readInfo", "readChunks"}
    BY <1>5 DEF Read, ReadInfo, ReadInfoGone, ReadChunks, ReadChunksOverrun
  <2>2. CASE ReadInfoGone(h) \/ ReadChunksOverrun(h)
    BY <2>2 DEF ReadInfoGone, ReadChunksOverrun, Crash, Ending, Cause
  <2>3. CASE ReadInfo(h) \/ ReadChunks(h)
    <3>1. Still /\ Others /\ pc'[h] \notin BeatPc
      BY <2>3 DEF ReadInfo, ReadChunks
    <3>2. QED
      BY <1>0, <2>1, <3>1
  <2>4. QED
    BY <1>5, <2>2, <2>3 DEF Read
<1>6. QED
  BY <1>1, <1>2, <1>3, <1>4, <1>5

\* The end of the process that no connection brings about.
LEMMA CrashSteps ==
  /\ MapRace \/ Kill => Crash
  /\ \A g \in Repairer : PickNoNode(g) \/ (\E n \in Node : PickNoTarget(g, n))
                        => Crash
BY DEF MapRace, Kill, PickNoNode, PickNoTarget, Crash, Ending, Cause, disk, cluster

\* The types of what HoldInv is about.
LEMMA HoldTypes ==
  ASSUME TypeOK
  PROVE  /\ \A h \in Conn : pc[h] \in BeatPc =>
              msg[h].node \in Node /\ msg[h].files \subseteq ChunkId
         /\ \A c \in ChunkId : locs[c] \subseteq Node
         /\ \A o \in orders : o.sources \subseteq Node /\ o.chunk \in ChunkId
BY DEF TypeOK, MessageOK, Heartbeat, Order

\* The end of the process keeps it: orders are all that is left of the repairs.
LEMMA CrashHolds ==
  ASSUME HoldInv, Crash
  PROVE  HoldInv'
<1>1. /\ \A h \in Conn : pc'[h] = "idle"
      /\ \A c \in ChunkId : locs'[c] = {}
      /\ \A g \in Repairer : repair'[g].chunk = None
      /\ UNCHANGED <<orders, dir>> /\ deleting \subseteq deleting'
  BY RestingFields DEF Crash, Ending, Exit
<1>2. "idle" \notin BeatPc
  BY DEF BeatPc
<1>3. QED
  BY <1>1, <1>2 DEF HoldInv, Has

\* A client request keeps it.
LEMMA ClientHolds ==
  ASSUME TypeOK, HoldInv, NEW h \in Conn, ClientOnly, pc'[h] \notin BeatPc,
         \A k \in Conn \ {h} : pc'[k] = pc[k] /\ msg'[k] = msg[k]
  PROVE  HoldInv'
<1>1. /\ UNCHANGED <<orders, dir>> /\ deleting \subseteq deleting'
      /\ \A c \in ChunkId : locs'[c] \subseteq locs[c]
      /\ \A k \in Repairer : /\ repair'[k].chunk = repair[k].chunk
                             /\ repair'[k].sources = repair[k].sources
  BY DEF ClientOnly, Same
<1>2. \A n, c : Has(n, c) => Has(n, c)'
  BY <1>1 DEF Has
<1>3. QED
  BY <1>1, <1>2 DEF HoldInv

\* A heartbeat is sent with chunks the node has, and locates them.
LEMMA BeatHolds ==
  ASSUME TypeOK, HoldInv, NEW h \in Conn,
         Beat(h) \/ \E n \in Node : SendHeartbeat(h, n)
  PROVE  HoldInv'
<1> USE DEF table, cluster
<1>1. /\ UNCHANGED <<dir, deleting, orders>>
      /\ \A k \in Conn \ {h} : pc'[k] = pc[k] /\ msg'[k] = msg[k]
  BY DEF Beat, Register, SaveTable, Activate, SendHeartbeat, Goto, Done, TypeOK,
     BeatPc
<1>2. \A n, c : Has(n, c)' <=> Has(n, c)
  BY <1>1 DEF Has
<1>3. ASSUME NEW k \in Repairer
      PROVE  repair'[k].chunk = repair[k].chunk /\ repair'[k].sources = repair[k].sources
  <2>1. CASE repair' = repair
    BY <2>1
  <2>2. CASE Register(h)
    <3>1. repair'[k] = repair[k] \/ repair'[k] = Moved(repair[k], msg[h].node)
      BY <2>2 DEF Register
    <3>2. QED
      BY <3>1, MovedFields DEF Same
  <2>3. QED
    BY <2>1, <2>2 DEF Beat, SaveTable, Activate, SendHeartbeat
<1>4. ASSUME NEW n \in Node, SendHeartbeat(h, n)
      PROVE  HoldInv'
  <2>1. msg'[h].node = n /\ msg'[h].files \subseteq dir[n] /\ locs' = locs
    BY <1>4 DEF SendHeartbeat, TypeOK
  <2>2. QED
    BY <1>1, <1>2, <1>3, <2>1 DEF HoldInv, Has
<1>5. CASE Beat(h)
  <2>1. /\ pc[h] \in BeatPc /\ pc'[h] \in BeatPc => msg'[h] = msg[h]
    BY <1>5 DEF Beat, Register, SaveTable, Activate, Goto, Done, TypeOK, BeatPc
  <2>2. pc[h] \in BeatPc /\ \A c \in msg[h].files : Has(msg[h].node, c)
    BY <1>5 DEF Beat, Register, SaveTable, Activate, BeatPc, HoldInv
  <2>3. ASSUME NEW c \in ChunkId, NEW n \in locs'[c] PROVE Has(n, c)
    <3>1. n \in locs[c] \/ (n = msg[h].node /\ c \in msg[h].files)
      BY <1>5, <2>3 DEF Beat, Register, SaveTable, Activate
    <3>2. QED
      BY <2>2, <3>1 DEF HoldInv
  <2>4. QED
    BY <1>1, <1>2, <1>3, <2>1, <2>2, <2>3 DEF HoldInv
<1>6. QED
  BY <1>4, <1>5

\* A repair counts as sources nodes the map locates the chunk on.
LEMMA RepairHolds ==
  ASSUME TypeOK, HoldInv, NEW g \in Repairer, Repairs(g)
  PROVE  HoldInv'
<1> USE DEF table, serving, cluster
<1>1. ASSUME NEW t \in repair[g].todo, Prune(g, t) PROVE HoldInv'
  <2>1. /\ UNCHANGED <<pc, msg, dir, deleting, orders>>
        /\ \A c \in ChunkId : locs'[c] \subseteq locs[c]
        /\ t[2] \in ChunkId /\ repair'[g].chunk = t[2]
        /\ repair'[g].sources \subseteq locs[t[2]]
    BY <1>1, PruneEffect
  <2>2. \A k \in Repairer \ {g} : /\ repair'[k].chunk = repair[k].chunk
                                  /\ repair'[k].sources = repair[k].sources
    BY <1>1, PruneOthers DEF Same
  <2>3. \A n, c : Has(n, c)' <=> Has(n, c)
    BY <2>1 DEF Has
  <2>4. \A n \in repair'[g].sources : Has(n, repair'[g].chunk)
    BY <2>1 DEF HoldInv
  <2>5. QED
    BY <2>1, <2>2, <2>3, <2>4 DEF HoldInv
<1>2. ASSUME NEW n \in Node, PickMore(g, n) PROVE HoldInv'
  <2>1. /\ repair[g].chunk # None
        /\ repair'[g].sources = repair[g].sources /\ repair'[g].chunk = repair[g].chunk
        /\ \A k \in Repairer \ {g} : repair'[k] = repair[k]
        /\ UNCHANGED <<pc, msg, locs, dir, deleting, orders>>
    BY <1>2, PickMoreEffect
  <2>2. \A m, c : Has(m, c)' <=> Has(m, c)
    BY <2>1 DEF Has
  <2>3. QED
    BY <2>1, <2>2 DEF HoldInv
<1>3. ASSUME NEW n \in Node, PickLast(g, n) PROVE HoldInv'
  <2>1. \A o \in orders' \ orders : /\ o.chunk = repair[g].chunk
                                    /\ o.sources = repair[g].sources
    BY <1>3, PickLastEffect DEF ReplicaOrder
  <2>2. /\ repair[g].chunk # None /\ repair'[g].chunk = None
        /\ \A k \in Repairer \ {g} : repair'[k] = repair[k]
        /\ UNCHANGED <<pc, msg, locs, dir, deleting>>
    BY <1>3, PickLastEffect
  <2>3. \A m, c : Has(m, c)' <=> Has(m, c)
    BY <2>2 DEF Has
  <2>4. QED
    BY <2>1, <2>2, <2>3 DEF HoldInv
<1>4. QED
  BY <1>1, <1>2, <1>3 DEF Repairs

\* A storage node only deletes what it was asked to delete.
LEMMA StorageHolds ==
  ASSUME TypeOK, HoldInv, Storage
  PROVE  HoldInv'
<1> USE DEF table, serving
<1> DEFINE Quiet == UNCHANGED <<pc, msg, locs, repair, deleting>> /\ orders' \subseteq orders
           Keeps == \A n \in Node, c \in ChunkId : Has(n, c) => Has(n, c)'
<1>1. ASSUME NEW c \in ChunkId, NEW n \in Node, StoreChunk(c, n) PROVE Quiet /\ Keeps
  BY <1>1 DEF StoreChunk, Chunks!Store, TypeOK, Has
<1>2. ASSUME NEW c \in ChunkId, NEW n \in Node, DeleteChunk(c, n) PROVE Quiet /\ Keeps
  <2>1. /\ <<c, n>> \in deleting /\ deleting' = deleting
        /\ \A m \in Node : dir'[m] = IF m = n THEN dir[m] \ {c} ELSE dir[m]
    BY <1>2 DEF DeleteChunk, Chunks!Delete, TypeOK
  <2>2. Keeps
    BY <2>1 DEF Has
  <2>3. Quiet
    BY <1>2 DEF DeleteChunk, Chunks!Delete
  <2>4. QED
    BY <2>2, <2>3
<1>3. ASSUME NEW o \in orders, CopyChunk(o) PROVE Quiet /\ Keeps
  BY <1>3 DEF CopyChunk, Chunks!TellStore, Has
<1>4. Quiet /\ Keeps
  BY <1>1, <1>2, <1>3 DEF Storage
<1>5. QED
  BY <1>4, HoldTypes, RepairFields DEF HoldInv

\* Every step keeps it.
LEMMA HoldStep ==
  ASSUME TypeOK, TableInv, HoldInv, [Next]_vars
  PROVE  HoldInv'
<1> USE DEF table, serving, cluster
<1>1. ASSUME NEW h \in Conn, Request(h) \/ Serve(h) PROVE HoldInv'
  BY <1>1, ClientStep, CrashHolds, ClientHolds, BeatHolds DEF Request, Serve
<1>2. ASSUME NEW g \in Repairer, Replace(g) PROVE HoldInv'
  BY <1>2, RepairHolds, CrashSteps, CrashHolds DEF Replace, Repairs
<1>3. ASSUME NEW g \in Repairer, NEW S \in SUBSET Node, Monitor(g, S) PROVE HoldInv'
  <2>1. /\ UNCHANGED <<pc, msg, locs, dir, deleting, orders>>
        /\ \A k \in Repairer \ {g} : repair'[k] = repair[k]
        /\ repair'[g].chunk = None
    BY <1>3, RestingFields DEF Monitor, TypeOK
  <2>2. QED
    BY <2>1 DEF HoldInv, Has
<1>4. CASE MapRace \/ Kill
  BY <1>4, CrashSteps, CrashHolds
<1>5. CASE Restart \/ RestartPanics \/ UNCHANGED vars
  BY <1>5 DEF Restart, RestartPanics, vars, HoldInv, Has
<1>6. QED
  BY <1>1, <1>2, <1>3, <1>4, <1>5, StorageHolds DEF Next

\* A node is told to fetch a chunk only from nodes that have it, but for those
\* that were asked to delete it meanwhile, however repairs, heartbeats and
\* deletes overlap (controller.go:215-275).
THEOREM SourcesCorrect == Spec => []SourcesHold
<1>1. Init => HoldInv
  BY RestingFields DEF Init, HoldInv, BeatPc
<1>2. TypeOK /\ TableInv /\ HoldInv /\ [Next]_vars => HoldInv'
  BY HoldStep
<1>3. HoldInv => SourcesHold
  BY DEF HoldInv, Has, SourcesHold
<1>4. QED
  BY <1>1, <1>2, <1>3, TypeCorrect, TableCorrect, PTL DEF Spec

-----------------------------------------------------------------------------
(* Which locations are watched. *)

\* What a step may do to the location of chunk c on node n.
WatchKept(n, c) ==
  ~Watched(n, c)' => /\ n \in locs[c]
                     /\ Watched(n, c) => \E h \in Conn : Forgets(h, n, c)

WatchStep == \A c \in ChunkId : \A n \in locs'[c] : WatchKept(n, c)

\* Steps that locate nothing new and leave heartbeats and the watch alone.
LEMMA QuietWatch ==
  ASSUME \A c \in ChunkId : locs'[c] \subseteq locs[c],
         UNCHANGED nodes,
         \A g \in Repairer : repair[g].todo \subseteq repair'[g].todo,
         \A k \in Conn : pc[k] \in {"saveTable", "activate"} =>
                         pc'[k] \in {"saveTable", "activate"} /\ msg'[k] = msg[k]
  PROVE  WatchStep
<1>1. ASSUME NEW c, NEW n, Watched(n, c) PROVE Watched(n, c)'
  BY <1>1 DEF Watched, nodes
<1>2. QED
  BY <1>1 DEF WatchStep, WatchKept

\* The end of the process forgets every location.
LEMMA CrashWatch ==
  ASSUME Ending
  PROVE  WatchStep
BY DEF Ending, Exit, WatchStep

\* A heartbeat that locates its node for a chunk is about to say so.
LEMMA RegisterWatch ==
  ASSUME TypeOK, NEW h \in Conn, Register(h)
  PROVE  WatchStep
<1>1. /\ pc[h] = "register" /\ pc'[h] = "saveTable" /\ msg' = msg
      /\ \A k \in Conn \ {h} : pc'[k] = pc[k]
      /\ UNCHANGED <<active, reported>>
      /\ locs' = [c \in ChunkId |-> IF c \in msg[h].files
                                    THEN locs[c] \cup {msg[h].node} ELSE locs[c]]
  BY DEF Register, Goto, TypeOK, nodes
<1>2. ASSUME NEW k \in Repairer PROVE repair'[k].todo = repair[k].todo
  <2>1. repair'[k] = repair[k] \/ repair'[k] = Moved(repair[k], msg[h].node)
    BY DEF Register
  <2>2. QED
    BY <2>1, MovedFields DEF Same
<1>3. ASSUME NEW c \in ChunkId, NEW n, Watched(n, c) PROVE Watched(n, c)'
  BY <1>1, <1>2, <1>3 DEF Watched
<1>4. ASSUME NEW c \in ChunkId, NEW n \in locs'[c], n \notin locs[c]
      PROVE  Watched(n, c)'
  BY <1>1, <1>4 DEF Watched
<1>5. QED
  BY <1>3, <1>4 DEF WatchStep, WatchKept

\* The list of files of a node is replaced by that of its last heartbeat.
LEMMA ActivateWatch ==
  ASSUME TypeOK, NEW h \in Conn, Activate(h)
  PROVE  WatchStep
<1> DEFINE m == msg[h].node
<1>1. /\ pc[h] = "activate" /\ pc'[h] = "idle" /\ m \in Node
      /\ \A k \in Conn \ {h} : pc'[k] = pc[k] /\ msg'[k] = msg[k]
      /\ UNCHANGED <<locs, repair>>
      /\ active' = active \cup {m} /\ reported'[m] = msg[h].files
      /\ \A n \in Node \ {m} : reported'[n] = reported[n]
  BY DEF Activate, Done, Goto, Reported, TypeOK, MessageOK, Heartbeat, BeatPc, table
<1>2. ASSUME NEW c \in ChunkId, NEW n \in locs'[c], Watched(n, c)
      PROVE  Watched(n, c)' \/ Forgets(h, n, c)
  <2>1. n \in Node
    BY <1>1, <1>2 DEF TypeOK
  <2>2. CASE n # m
    BY <1>1, <1>2, <2>1, <2>2 DEF Watched
  <2>3. CASE n = m /\ c \in msg[h].files
    BY <1>1, <2>3 DEF Watched
  <2>4. CASE n = m /\ c \notin msg[h].files
    BY <1>1, <2>4 DEF Forgets
  <2>5. QED
    BY <2>2, <2>3, <2>4
<1>3. QED
  BY <1>1, <1>2 DEF WatchStep, WatchKept

\* What a dead node reported, a repair has to do.
LEMMA MonitorWatch ==
  ASSUME TypeOK, NEW g \in Repairer, NEW S \in SUBSET Node, Monitor(g, S)
  PROVE  WatchStep
<1>1. /\ UNCHANGED <<pc, msg, locs>> /\ active' = active \ S
      /\ repair[g].todo = {}
      /\ repair'[g].todo = UNION {{n} \X reported[n] : n \in S}
      /\ \A k \in Repairer \ {g} : repair'[k] = repair[k]
      /\ \A n \in Node \ S : reported'[n] = reported[n]
  BY RestingFields DEF Monitor, TypeOK, table, serving
<1>2. ASSUME NEW c \in ChunkId, NEW n \in locs[c], Watched(n, c)
      PROVE  Watched(n, c)'
  <2>1. n \in Node
    BY <1>2 DEF TypeOK
  <2>2. CASE n \in S /\ c \in reported[n]
    <3>1. <<n, c>> \in repair'[g].todo
      BY <1>1, <2>2
    <3>2. QED
      BY <3>1 DEF Watched
  <2>3. CASE ~(n \in S /\ c \in reported[n])
    BY <1>1, <1>2, <2>1, <2>3 DEF Watched
  <2>4. QED
    BY <2>2, <2>3
<1>3. QED
  BY <1>1, <1>2 DEF WatchStep, WatchKept

\* A chunk leaves the list of a repair when its location leaves the map.
LEMMA RepairWatch ==
  ASSUME TypeOK, NEW g \in Repairer, Repairs(g)
  PROVE  WatchStep
<1> USE DEF table, serving
<1>1. ASSUME NEW t \in repair[g].todo, Prune(g, t) PROVE WatchStep
  <2>1. /\ UNCHANGED <<pc, msg, active, reported>>
        /\ t \in Node \X ChunkId
        /\ \A c \in ChunkId : locs'[c] \subseteq locs[c]
        /\ locs'[t[2]] = locs[t[2]] \ {t[1]}
        /\ repair'[g].todo = repair[g].todo \ {t}
    BY <1>1, PruneEffect, RepairFields DEF nodes
  <2>2. \A k \in Repairer \ {g} : repair'[k].todo = repair[k].todo
    BY <1>1, PruneOthers DEF Same
  <2>3. ASSUME NEW c \in ChunkId, NEW n \in locs'[c], Watched(n, c)
        PROVE  Watched(n, c)'
    <3>1. <<n, c>> # t
      BY <2>1, <2>3
    <3>2. \A k \in Repairer : <<n, c>> \in repair[k].todo => <<n, c>> \in repair'[k].todo
      BY <2>1, <2>2, <3>1
    <3>3. QED
      BY <2>1, <2>3, <3>2 DEF Watched
  <2>4. QED
    BY <2>1, <2>3 DEF WatchStep, WatchKept
<1>2. ASSUME NEW n \in Node, PickMore(g, n) \/ PickLast(g, n) PROVE WatchStep
  <2>1. /\ UNCHANGED <<pc, msg, locs, nodes>> /\ repair'[g].todo = repair[g].todo
        /\ \A k \in Repairer \ {g} : repair'[k] = repair[k]
    BY <1>2, PickMoreEffect, PickLastEffect
  <2>2. QED
    BY <2>1, QuietWatch
<1>3. QED
  BY <1>1, <1>2 DEF Repairs

\* Every step.
LEMMA NextWatch ==
  ASSUME TypeOK, TableInv, [Next]_vars
  PROVE  WatchStep
<1> USE DEF table, serving
<1>1. ASSUME NEW h \in Conn, Request(h) \/ Serve(h) PROVE WatchStep
  <2>1. CASE SaveTable(h) \/ \E n \in Node : SendHeartbeat(h, n)
    <3>1. /\ pc[h] \in {"saveTable", "idle"} /\ pc'[h] \in {"activate", "register"}
          /\ pc[h] = "saveTable" => pc'[h] = "activate" /\ msg'[h] = msg[h]
          /\ \A k \in Conn \ {h} : pc'[k] = pc[k] /\ msg'[k] = msg[k]
          /\ UNCHANGED <<locs, nodes, repair>>
      BY <2>1 DEF SaveTable, SendHeartbeat, Goto, TypeOK
    <3>2. QED
      BY <3>1, QuietWatch
  <2>2. CASE /\ ClientOnly
             /\ pc[h] \notin BeatPc /\ pc'[h] \notin BeatPc
             /\ \A k \in Conn \ {h} : pc'[k] = pc[k] /\ msg'[k] = msg[k]
    BY <2>2, QuietWatch DEF ClientOnly, Same, BeatPc
  <2>3. QED
    BY <1>1, <2>1, <2>2, ClientStep, CrashWatch, RegisterWatch, ActivateWatch
       DEF Request, Serve, Beat, Crash
<1>2. ASSUME NEW g \in Repairer, Replace(g) PROVE WatchStep
  BY <1>2, RepairWatch, CrashSteps, CrashWatch DEF Replace, Repairs, Crash
<1>3. CASE MapRace \/ Kill
  BY <1>3, CrashSteps, CrashWatch DEF Crash
<1>4. CASE Restart \/ RestartPanics \/ Storage \/ UNCHANGED vars
  BY <1>4, QuietWatch DEF Restart, RestartPanics, Storage, StoreChunk, DeleteChunk,
     CopyChunk, vars
<1>5. QED
  BY <1>1, <1>2, <1>3, <1>4, MonitorWatch DEF Next

\* A location falls out of watch only by a heartbeat of its node that does not
\* list the chunk, whatever repairs, deletes and other heartbeats do meanwhile
\* (controller.go:215-231, 300-327, 339-426).
THEOREM LocationsWatched == Spec => LocationWatched
<1>1. TypeOK /\ TableInv /\ [Next]_vars => WatchStep
  BY NextWatch
<1>2. QED
  BY <1>1, TypeCorrect, TableCorrect, PTL
     DEF Spec, LocationWatched, WatchStep, WatchKept

=============================================================================
