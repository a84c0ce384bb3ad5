----------------------------- MODULE ChunkStore -----------------------------
(***************************************************************************)
(* What the storage nodes promise to those who only see which chunks a     *)
(* node keeps: a node keeps a chunk only if it was told to store it, and   *)
(* keeps it until it is told to delete it.  Each of these may happen at    *)
(* any time, or never: requests are lost or late, and a chunk may be       *)
(* written again by a repair long after it was first stored.               *)
(***************************************************************************)

CONSTANTS Chunk, Node

VARIABLES
  dir,      \* node -> the chunks it keeps
  storing,  \* <<chunk, node>>: writes that nodes have been told to make
  deleting  \* <<chunk, node>>: deletes that nodes have been told to make

vars == <<dir, storing, deleting>>

Init == /\ dir = [n \in Node |-> {}]
        /\ storing = {}
        /\ deleting = {}

TellStore(P) == /\ storing' = storing \cup P
                /\ UNCHANGED <<dir, deleting>>

TellDelete(P) == /\ deleting' = deleting \cup P
                 /\ UNCHANGED <<dir, storing>>

Store(c, n) == /\ <<c, n>> \in storing
               /\ dir' = [dir EXCEPT ![n] = @ \cup {c}]
               /\ UNCHANGED <<storing, deleting>>

Delete(c, n) == /\ <<c, n>> \in deleting
                /\ dir' = [dir EXCEPT ![n] = @ \ {c}]
                /\ UNCHANGED <<storing, deleting>>

Next == \/ \E P \in SUBSET (Chunk \X Node) : TellStore(P) \/ TellDelete(P)
        \/ \E c \in Chunk, n \in Node : Store(c, n) \/ Delete(c, n)

Spec == Init /\ [][Next]_vars

=============================================================================
