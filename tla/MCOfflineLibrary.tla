-------------------------- MODULE MCOfflineLibrary --------------------------
(* Small instances of OfflineLibrary for TLC.                               *)
EXTENDS OfflineLibrary, TLC

CONSTANTS w1, w2, dev, bucket1, bucket2, i1, i2, i3, shared, apart

\* bucket1 and bucket2 slug to one directory, as "DEV (offline)" and "Dev (offline)" do.
MCSlugOf == [n \in Names |-> IF n = dev THEN apart ELSE shared]

MCSymmetry == Permutations({w1, w2}) \cup Permutations(Ids)
=============================================================================
