-------------------------- MODULE MCMetadataReads --------------------------
(* One or two writers and a reader; the two buckets share a directory.     *)
EXTENDS MetadataReads, TLC

CONSTANTS w1, w2, dev, bucket, i1, i2, shared

MCSlugOf == [n \in Names |-> shared]
MCSymmetry == Permutations(Writers) \cup Permutations(Ids)
=============================================================================
