----------------------------- MODULE NodesLock -----------------------------
(***************************************************************************)
(* activeNodesMapMutex of hdfs/controller/controller.go and everything     *)
(* that takes it: the monitor, in a loop without a pause; each request, to *)
(* log the active nodes before it is served; heartbeats, placements and    *)
(* node lists.  Controller takes a critical section as one step; here one  *)
(* can wait, and one never ends: /list returns from inside its own.        *)
(*                                                                         *)
(* The mutex is Go's sync.RWMutex: a writer that waits keeps new readers   *)
(* out, and lets in those it kept out when it unlocks.                     *)
(***************************************************************************)
EXTENDS FiniteSets

CONSTANTS
  Node,      \* addresses of storage nodes
  Conn,      \* bound: connections served at the same time
  Monitor,   \* the goroutine of monitorNodesStatus
  None

ASSUME LockAssumption == Monitor \notin Conn /\ None \notin Conn \cup {Monitor}

VARIABLES
  status,   \* "up", or why the process ended
  active,   \* the keys of activeNodesMap
  late,     \* nodes last heard of more than ten seconds ago
  pc,       \* where the goroutine of a connection is
  msg,      \* the message it serves
  todo,     \* the nodes /list has yet to send
  readers,  \* goroutines that hold the read lock
  parked,   \* goroutines in RLock that a writer keeps out
  writer,   \* the goroutine that holds the write lock, or will once the
            \* readers are gone
  leaked    \* a goroutine returned with the read lock

lock  == <<readers, parked, writer, leaked>>
conns == <<pc, msg, todo>>
vars  == <<status, active, late, conns, lock>>

\* A heartbeat, a write, a node list, a folder list, a request that needs no
\* node, and the empty message of a connection that is closed.
Message == [kind : {"beat"}, node : Node] \cup
           [kind : {"write", "list", "folder", "other"}, node : {None}]

Empty == [kind |-> "other", node |-> None]

ReadPc == {"log", "place", "list"}
Pc     == ReadPc \cup {"idle", "send", "activate"}

TypeOK ==
  /\ status \in {"up", "noNode"}
  /\ active \subseteq Node /\ late \subseteq Node
  /\ pc \in [Conn -> Pc]
  /\ msg \in [Conn -> Message \cup {None}]
  /\ \A p \in Conn : /\ pc[p] # "idle" => msg[p] \in Message
                     /\ pc[p] = "activate" => msg[p].kind = "beat"
  /\ todo \in [Conn -> SUBSET Node]
  /\ readers \subseteq Conn /\ parked \subseteq Conn
  /\ writer \in Conn \cup {Monitor, None}
  /\ leaked \in BOOLEAN

-----------------------------------------------------------------------------
(* sync.RWMutex. *)

RLock(p) == IF writer = None
            THEN readers' = readers \cup {p} /\ UNCHANGED <<parked, writer, leaked>>
            ELSE parked' = parked \cup {p} /\ UNCHANGED <<readers, writer, leaked>>

RUnlock(p) == /\ readers' = readers \ {p}
              /\ UNCHANGED <<parked, writer, leaked>>

LockPolite(p) ==  \* mutant: a writer that waits lets readers in
  /\ writer = None /\ readers = {} /\ ~leaked
  /\ writer' = p
  /\ UNCHANGED <<readers, parked, leaked>>

Lock(p) == /\ writer = None
           /\ writer' = p
           /\ UNCHANGED <<readers, parked, leaked>>

LockedShared(p) == writer = p /\ ~leaked  \* mutant: readers do not count

\* Lock has returned.
Locked(p) == writer = p /\ readers = {} /\ ~leaked

Unlock == /\ writer' = None
          /\ readers' = readers \cup parked
          /\ parked' = {}
          /\ UNCHANGED leaked

-----------------------------------------------------------------------------
(* handleClientRequest. *)

Up == status = "up"
Goto(p, l) == /\ pc' = [pc EXCEPT ![p] = l]
              /\ msg' = [msg EXCEPT ![p] = CASE l = "idle" -> None
                                             [] l = "log"  -> Empty
                                             [] OTHER      -> @]
At(p, l) == Up /\ pc[p] = l
Reading(p, l) == At(p, l) /\ p \in readers

Receive(p, m) ==
  /\ At(p, "idle")
  /\ pc' = [pc EXCEPT ![p] = "log"]
  /\ msg' = [msg EXCEPT ![p] = m]
  /\ UNCHANGED <<status, active, late, todo, lock>>

\* Each of the three RLock calls.
TakeRead(p) ==
  /\ Up /\ pc[p] \in ReadPc
  /\ p \notin readers \cup parked
  /\ RLock(p)
  /\ UNCHANGED <<status, active, late, conns>>

\* Mutant: the request type of a StorageNodesMetadata is not looked at.
AfterUntyped == [beat |-> "activate", write |-> "place", list |-> "activate",
                 folder |-> "log", other |-> "idle"]

After == [beat |-> "activate", write |-> "place", list |-> "list",
          folder |-> "log", other |-> "idle"]

LogNodesHolding(p) ==  \* mutant: without RUnlock
  /\ Reading(p, "log")
  /\ Goto(p, After[msg[p].kind])
  /\ UNCHANGED <<status, active, late, todo, lock>>

\* The log line that starts with "List of active Storage nodes".  After a folder
\* list, which needs no node, the handler does not return: it comes here again
\* with what the closed connection yields.
LogNodes(p) ==
  /\ Reading(p, "log")
  /\ RUnlock(p)
  /\ Goto(p, After[msg[p].kind])
  /\ UNCHANGED <<status, active, late, todo>>

\* getStorageNodes.  (Which nodes it draws is left to Controller.)
Place(p) ==
  /\ Reading(p, "place")
  /\ active # {}
  /\ RUnlock(p)
  /\ Goto(p, "idle")
  /\ UNCHANGED <<status, active, late, todo>>

\* rand.Intn(0).
PlaceNoNode(p) ==
  /\ Reading(p, "place")
  /\ active = {}
  /\ status' = "noNode"
  /\ UNCHANGED <<active, late, conns, lock>>

\* getActiveStorageNodeInfoForClient: the range over activeNodesMap starts, ...
ListStart(p) ==
  /\ Reading(p, "list")
  /\ todo' = [todo EXCEPT ![p] = active]
  /\ Goto(p, "send")
  /\ UNCHANGED <<status, active, late, lock>>

\* ... a node is sent over a connection of its own, ...
ListSend(p, n) ==
  /\ Reading(p, "send") /\ n \in todo[p]
  /\ todo' = [todo EXCEPT ![p] = @ \ {n}]
  /\ UNCHANGED <<status, active, late, pc, msg, lock>>

\* ... or the client cannot be dialled, and the function returns; ...
ListFails(p) ==
  /\ Reading(p, "send") /\ todo[p] # {}
  /\ leaked' = TRUE
  /\ readers' = readers \ {p}
  /\ todo' = [todo EXCEPT ![p] = {}]
  /\ Goto(p, "idle")
  /\ UNCHANGED <<status, active, late, parked, writer>>

\* ... all of them have been sent.
ListEnd(p) ==
  /\ Reading(p, "send") /\ todo[p] = {}
  /\ RUnlock(p)
  /\ Goto(p, "idle")
  /\ UNCHANGED <<status, active, late, todo>>

TakeWrite(p) ==
  /\ Up
  /\ p # Monitor => pc[p] = "activate"
  /\ Lock(p)
  /\ UNCHANGED <<status, active, late, conns>>

\* saveStorageNodeInfo puts the node into activeNodesMap.
Activate(p) ==
  /\ At(p, "activate")
  /\ Locked(p)
  /\ active' = active \cup {msg[p].node}
  /\ late' = late \ {msg[p].node}
  /\ Unlock
  /\ Goto(p, "idle")
  /\ UNCHANGED <<status, todo>>

Dead == active \cap late

MonitorNodesKept ==  \* mutant: without delete(activeNodesMap, addr)
  /\ Up
  /\ Locked(Monitor)
  /\ Unlock
  /\ UNCHANGED <<status, active, late, conns>>

\* One pass of monitorNodes.
MonitorNodes ==
  /\ Up
  /\ Locked(Monitor)
  /\ active' = active \ Dead
  /\ Unlock
  /\ UNCHANGED <<status, late, conns>>

\* More than 2 * HEARTBEAT_PER_SEC seconds without a heartbeat.
TimeOut(n) ==
  /\ Up
  /\ n \in active \ late
  /\ late' = late \cup {n}
  /\ UNCHANGED <<status, active, conns, lock>>

-----------------------------------------------------------------------------
Init ==
  /\ status = "up"
  /\ active = {}
  /\ late = {}
  /\ pc = [p \in Conn |-> "idle"]
  /\ msg = [p \in Conn |-> None]
  /\ todo = [p \in Conn |-> {}]
  /\ readers = {}
  /\ parked = {}
  /\ writer = None
  /\ leaked = FALSE

Step(p) == \/ TakeRead(p) \/ LogNodes(p) \/ Place(p) \/ PlaceNoNode(p)
           \/ ListStart(p) \/ ListFails(p) \/ ListEnd(p) \/ Activate(p)
           \/ \E n \in Node : ListSend(p, n)

Next == \/ \E p \in Conn : \/ Step(p) \/ TakeWrite(p)
                           \/ \E m \in Message : Receive(p, m)
        \/ TakeWrite(Monitor) \/ MonitorNodes
        \/ \E n \in Node : TimeOut(n)

Spec == Init /\ [][Next]_vars

\* Goroutines run.  A goroutine that waits for sync.Mutex for a millisecond is
\* handed it before any newcomer: the monitor cannot starve the heartbeats.
Fairness == /\ \A p \in Conn : WF_vars(Step(p)) /\ SF_vars(TakeWrite(p))
            /\ SF_vars(TakeWrite(Monitor)) /\ WF_vars(MonitorNodes)

FairSpec == Spec /\ Fairness
-----------------------------------------------------------------------------
(* Properties. *)

\* A node list is of nodes that are all still active: activeNodesMap does not
\* change under the range of getActiveStorageNodeInfoForClient.
ListConsistent == \A p \in Conn : Reading(p, "send") => todo[p] \subseteq active

\* Unless a client could not be dialled during a /list, or the process ended, each
\* request, heartbeats among them, is served in the end, whatever the monitor
\* and other requests do.
Served == \A p \in Conn : pc[p] # "idle" ~> (pc[p] = "idle" \/ leaked \/ ~Up)

\* A node that stays silent is taken out of activeNodesMap, unless it is heard of
\* again, with the same exceptions.
DeadNoticed ==
  \A n \in Node : n \in Dead ~> (n \notin Dead \/ leaked \/ ~Up)

\* Once a client could not be dialled during a /list, the controller comes to a
\* stop: the monitor or a heartbeat waits for the lock for ever, and every request
\* behind it.
LeakFreezes == leaked ~> [](~Up \/ (writer # None /\ readers = {}))

=============================================================================
