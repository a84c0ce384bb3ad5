--------------------------- MODULE NodesLockProofs ---------------------------
(***************************************************************************)
(* Proofs about NodesLock, for any number of connections and nodes.        *)
(***************************************************************************)
EXTENDS NodesLock, TLAPS

\* The monitor and None are no connections.
LEMMA Others == Monitor \notin Conn /\ None \notin Conn /\ Monitor # None
BY LockAssumption

-----------------------------------------------------------------------------
(* Types. *)

\* The next step after the log line is one of the message's kind
\* (controller.go:625-627 and the branches that follow).
LEMMA AfterType ==
  ASSUME NEW m \in Message
  PROVE  /\ After[m.kind] \in {"activate", "place", "list", "log", "idle"}
         /\ After[m.kind] = "activate" => m.kind = "beat"
         /\ m.kind = "beat" => m.node \in Node
BY DEF Message, After

\* A connection's own variables keep their types.
LEMMA GotoType ==
  ASSUME TypeOK, NEW p \in Conn, NEW l \in Pc, Goto(p, l),
         l # "idle" => msg[p] \in Message,
         l = "activate" => msg[p].kind = "beat"
  PROVE  /\ pc' \in [Conn -> Pc]
         /\ msg' \in [Conn -> Message \cup {None}]
         /\ \A q \in Conn : /\ pc'[q] # "idle" => msg'[q] \in Message
                            /\ pc'[q] = "activate" => msg'[q].kind = "beat"
<1>1. Empty \in Message
  BY DEF Empty, Message
<1>2. QED
  BY <1>1 DEF TypeOK, Goto

LEMMA StepType ==
  ASSUME TypeOK, NEW p \in Conn, Step(p)
  PROVE  TypeOK'
<1> USE DEF conns, lock
<1>1. CASE TakeRead(p)
  BY <1>1 DEF TypeOK, TakeRead, RLock
<1>2. CASE LogNodes(p)
  <2>1. msg[p] \in Message
    BY <1>2 DEF LogNodes, Reading, At, TypeOK
  <2>2. After[msg[p].kind] \in Pc
    BY <2>1, AfterType DEF Pc, ReadPc
  <2>3. QED
    BY <1>2, <2>1, <2>2, AfterType, GotoType DEF LogNodes, RUnlock, TypeOK
<1>3. CASE Place(p) \/ ListFails(p) \/ ListEnd(p)
  <2>1. "idle" \in Pc
    BY DEF Pc
  <2>2. QED
    BY <1>3, <2>1, GotoType DEF Place, ListFails, ListEnd, RUnlock, TypeOK
<1>4. CASE PlaceNoNode(p)
  BY <1>4 DEF TypeOK, PlaceNoNode
<1>5. CASE ListStart(p)
  <2>1. "send" \in Pc /\ msg[p] \in Message
    BY <1>5 DEF Pc, ListStart, Reading, At, TypeOK
  <2>2. QED
    BY <1>5, <2>1, GotoType DEF ListStart, TypeOK
<1>6. CASE Activate(p)
  <2>1. "idle" \in Pc /\ msg[p].node \in Node
    BY <1>6, AfterType DEF Pc, Activate, At, TypeOK
  <2>2. QED
    BY <1>6, <2>1, GotoType DEF Activate, Unlock, TypeOK
<1>7. ASSUME NEW n \in Node, ListSend(p, n)
      PROVE  TypeOK'
  BY <1>7 DEF TypeOK, ListSend
<1>8. QED
  BY <1>1, <1>2, <1>3, <1>4, <1>5, <1>6, <1>7 DEF Step

LEMMA NextType == TypeOK /\ [Next]_vars => TypeOK'
<1> SUFFICES ASSUME TypeOK, [Next]_vars PROVE TypeOK'
  OBVIOUS
<1> USE DEF conns, lock
<1>1. ASSUME NEW p \in Conn, NEW m \in Message, Receive(p, m)
      PROVE  TypeOK'
  BY <1>1 DEF TypeOK, Receive, Pc, ReadPc
<1>2. ASSUME NEW p \in Conn \cup {Monitor}, TakeWrite(p)
      PROVE  TypeOK'
  BY <1>2 DEF TypeOK, TakeWrite, Lock
<1>3. CASE MonitorNodes
  BY <1>3 DEF TypeOK, MonitorNodes, Unlock
<1>4. ASSUME NEW n \in Node, TimeOut(n)
      PROVE  TypeOK'
  BY <1>4 DEF TypeOK, TimeOut
<1>5. CASE UNCHANGED vars
  BY <1>5 DEF TypeOK, vars
<1>6. QED
  BY <1>1, <1>2, <1>3, <1>4, <1>5, StepType DEF Next

\* Types are kept by every behaviour.
THEOREM TypeCorrect == Spec => []TypeOK
<1>1. Init => TypeOK
  BY DEF Init, TypeOK, Pc
<1>2. QED
  BY <1>1, NextType, PTL DEF Spec

-----------------------------------------------------------------------------
(* The lock. *)

\* Where those who hold the lock, or wait for it, are: none waits in RLock but for
\* a writer, and a node list is walked under the read lock.
LockInv ==
  /\ \A p \in readers : pc[p] \in ReadPc \cup {"send"} /\ p \notin parked
  /\ \A p \in parked : pc[p] \in ReadPc
  /\ writer = None => parked = {}
  /\ writer \in Conn => pc[writer] = "activate"
  /\ \A p \in Conn : pc[p] = "send" => p \in readers /\ todo[p] \subseteq active

\* Every step of a connection keeps the lock's invariant.
LEMMA LockStep ==
  ASSUME TypeOK, TypeOK', LockInv, NEW p \in Conn, Step(p)
  PROVE  LockInv'
<1> USE DEF conns, lock, TypeOK
<1>1. CASE TakeRead(p)
  BY <1>1 DEF LockInv, TakeRead, RLock
<1>2. CASE LogNodes(p)
  <2>1. After[msg[p].kind] \in {"activate", "place", "list", "log", "idle"}
    BY <1>2, AfterType DEF LogNodes, Reading, At
  <2>2. QED
    BY <1>2, <2>1, Others DEF LockInv, LogNodes, RUnlock, Goto, Reading, At, ReadPc
<1>3. CASE Place(p) \/ ListFails(p) \/ ListEnd(p)
  BY <1>3, Others DEF LockInv, Place, ListFails, ListEnd, RUnlock, Goto, Reading,
     At, ReadPc
<1>4. CASE PlaceNoNode(p)
  BY <1>4 DEF LockInv, PlaceNoNode
<1>5. CASE ListStart(p)
  BY <1>5, Others DEF LockInv, ListStart, Goto, Reading, At, ReadPc
<1>6. CASE Activate(p)
  BY <1>6, Others DEF LockInv, Activate, Locked, Unlock, Goto, At, ReadPc
<1>7. ASSUME NEW n \in Node, ListSend(p, n)
      PROVE  LockInv'
  BY <1>7 DEF LockInv, ListSend, Reading, At
<1>8. QED
  BY <1>1, <1>2, <1>3, <1>4, <1>5, <1>6, <1>7 DEF Step

\* So does every other step: who changes activeNodesMap holds the write lock,
\* and there is no reader then.
LEMMA NextLock == TypeOK /\ TypeOK' /\ LockInv /\ [Next]_vars => LockInv'
<1> SUFFICES ASSUME TypeOK, TypeOK', LockInv, [Next]_vars PROVE LockInv'
  OBVIOUS
<1> USE DEF conns, lock, TypeOK
<1>1. ASSUME NEW p \in Conn, NEW m \in Message, Receive(p, m)
      PROVE  LockInv'
  BY <1>1, Others DEF LockInv, Receive, At, ReadPc
<1>2. ASSUME NEW p \in Conn \cup {Monitor}, TakeWrite(p)
      PROVE  LockInv'
  BY <1>2, Others DEF LockInv, TakeWrite, Lock
<1>3. CASE MonitorNodes
  BY <1>3, Others DEF LockInv, MonitorNodes, Locked, Unlock, ReadPc
<1>4. ASSUME NEW n \in Node, TimeOut(n)
      PROVE  LockInv'
  BY <1>4 DEF LockInv, TimeOut
<1>5. CASE UNCHANGED vars
  BY <1>5 DEF LockInv, vars
<1>6. QED
  BY <1>1, <1>2, <1>3, <1>4, <1>5, LockStep DEF Next

\* No one waits in RLock but for a writer, and whoever holds the lock or waits
\* for it is where the code takes it.
THEOREM LockCorrect == Spec => []LockInv
<1>1. Init => LockInv
  BY Others DEF Init, LockInv
<1>2. QED
  BY <1>1, TypeCorrect, NextLock, PTL DEF Spec

\* A node list is of active nodes to its end (controller.go:518-536).
THEOREM ListsConsistent == Spec => []ListConsistent
<1>1. LockInv => ListConsistent
  BY DEF LockInv, ListConsistent, Reading, At
<1>2. QED
  BY <1>1, LockCorrect, PTL

=============================================================================
