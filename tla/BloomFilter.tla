----------------------------- MODULE BloomFilter -----------------------------
(***************************************************************************)
(* hdfs/filters/bloom_filter.go.  The filter is an array of booleans; the  *)
(* set of indices that hold TRUE stands for it.  The two murmur3 sums of a *)
(* name are constants (the hash library is external), the arithmetic that  *)
(* turns them into bit positions is the code's: uint32, so it wraps.       *)
(***************************************************************************)
EXTENDS Integers

CONSTANTS
  Name,       \* the keys: file names without their extension
  NumBits,    \* len(bf.bits); 10000 in the controller
  NumHashes,  \* bf.numHashes; 3 in the controller
  Word,       \* 2^32, the modulus of uint32
  Sum1,       \* murmur3.Sum32(name)
  Sum2        \* murmur3.Sum32WithSeed(name, Sum1)

ASSUME FilterAssumption ==
  /\ NumBits \in Nat \ {0}
  /\ NumHashes \in Nat \ {0}
  /\ Word \in Nat \ {0}
  /\ Sum1 \in [Name -> 0 .. Word - 1]
  /\ Sum2 \in [Name -> 0 .. Word - 1]

Bit == 0 .. NumBits - 1

\* Mutant: the sum is not reduced to the length of the filter.
PositionUnreduced(x, i) == (Sum1[x] + ((i * Sum2[x]) % Word)) % Word

\* The position hash function i gives to a name.
Position(x, i) == ((Sum1[x] + ((i * Sum2[x]) % Word)) % Word) % NumBits

GetBits(x) == {Position(x, i) : i \in 0 .. NumHashes - 1}

\* The filter's bits after Put, and what Get answers.
Put(bits, x) == bits \cup GetBits(x)
Get(bits, x) == GetBits(x) \subseteq bits
=============================================================================
