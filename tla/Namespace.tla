------------------------------ MODULE Namespace ------------------------------
(***************************************************************************)
(* What the controller promises about file names, whatever it keeps in     *)
(* memory and on disk: a name is taken for one FileInfo while it is free;   *)
(* once its writer was granted locations it stays taken, with that          *)
(* FileInfo, until a delete gives it up; readers are told the FileInfo it   *)
(* is taken for.  Crashes lose names that were not granted, never others.   *)
(***************************************************************************)

CONSTANTS Name, Info, Reader, None

VARIABLES
  file,     \* name -> the FileInfo it is taken for, or None
  granted,  \* names whose writer was answered and that no delete gave up
  told      \* reader -> the FileInfo it is being told, or None

vars == <<file, granted, told>>

Init == /\ file = [f \in Name |-> None]
        /\ granted = {}
        /\ told = [r \in Reader |-> None]

Take(f, i) == /\ file[f] = None
              /\ file' = [file EXCEPT ![f] = i]
              /\ UNCHANGED <<granted, told>>

Grant(f) == /\ file[f] # None
            /\ f \notin granted
            /\ granted' = granted \cup {f}
            /\ UNCHANGED <<file, told>>

Release(f) == /\ f \in granted
              /\ granted' = granted \ {f}
              /\ UNCHANGED <<file, told>>

\* A delete ends, or a crash takes what it may take and every answer on its way.
Lose(F) == /\ F \cap granted = {}
           /\ file' = [f \in Name |-> IF f \in F THEN None ELSE file[f]]
           /\ told' \in {told, [r \in Reader |-> None]}
           /\ UNCHANGED granted

Tell(r, f) == /\ told[r] = None
              /\ file[f] # None
              /\ told' = [told EXCEPT ![r] = file[f]]
              /\ UNCHANGED <<file, granted>>

Answered(r) == /\ told[r] # None
               /\ told' = [told EXCEPT ![r] = None]
               /\ UNCHANGED <<file, granted>>

Next == \/ \E f \in Name : \/ \E i \in Info : Take(f, i)
                           \/ Grant(f) \/ Release(f)
        \/ \E F \in SUBSET Name : Lose(F)
        \/ \E r \in Reader : Answered(r) \/ \E f \in Name : Tell(r, f)

Spec == Init /\ [][Next]_vars

=============================================================================
