--------------------------- MODULE MCStorageNode ---------------------------
(* Instances of StorageNode for TLC. *)
EXTENDS StorageNode, TLC

CONSTANTS n1, n2, c1

Limits(w, d, r, o, k, g, t, f) ==
  [write |-> w, delete |-> d, read |-> r, order |-> o, kill |-> k, damage |-> g,
   cut |-> t, offline |-> f]

UploadLimit == Limits(1, 1, 0, 1, 1, 0, 1, 1)
RepairLimit == Limits(1, 0, 1, 0, 0, 2, 0, 1)

Permute == Permutations(Node)
=============================================================================
