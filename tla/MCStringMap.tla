---------------------------- MODULE MCStringMap ----------------------------
(* String hash maps of two slots that may grow. *)
EXTENDS StringHashMap

\* Only the remainder by the capacity counts, and keys are interchangeable: it is
\* enough to take the hash functions that do not decrease.
AnyHash ==
  {h \in [Keys -> 0 .. MaxCapacity - 1] : \A j, k \in Keys : j <= k => h[j] <= h[k]}

=============================================================================
