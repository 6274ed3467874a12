----------------------------- MODULE MCHashMap -----------------------------
(* A hash table of four buckets, all of which may be used (load factor     *)
(* 1.0), and five keys.                                                    *)
EXTENDS StaticHashMap

\* How many keys have their home in a bucket.
Load(h, i) == Cardinality({k \in Keys : h[k] = i})

\* Every pattern of collisions, up to the names of the keys and to the rotation
\* of the table: keys are interchangeable, so it is enough to take the hash
\* functions that do not decrease, and of the rotations of one that with most
\* keys at home in the last bucket (if two buckets have as many, that with fewer
\* keys behind it), so that the longest chains run round the end of the array.
Patterns ==
  {h \in [Keys -> Indices] :
     /\ \A j, k \in Keys : j <= k => h[j] <= h[k]
     /\ \A i \in Indices :
          \/ Load(h, i) < Load(h, Capacity - 1)
          \/ Load(h, i) = Load(h, Capacity - 1) /\ Load(h, 0) <= Load(h, (i + 1) % Capacity)}

=============================================================================
