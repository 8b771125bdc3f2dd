--------------------------- MODULE OfflineCatalog ---------------------------
(***************************************************************************)
(* What the offline library promises, without locks, files or crashes:     *)
(* connections.toml changes by one whole operation at a time, each applied *)
(* to the value it finds, and never leaves the index ambiguous.            *)
(***************************************************************************)
EXTENDS LibraryIndex

VARIABLE index

(***************************************************************************)
(* A save or an import puts `row` into `a`.  The bucket is created when it *)
(* is new, which a connected profile of that name forbids.  A row of the   *)
(* same identity is replaced and hands down what is frozen; otherwise the  *)
(* row is new and so is its id.                                            *)
(***************************************************************************)
Puts(row, a, b) ==
  LET same == {r \in a.rows : SameIdentity(r, row)}
  IN  /\ row \in Row
      /\ HasBucket(b, row.bucket)
      /\ HasBucket(a, row.bucket) \/ row.bucket \notin a.conns
      /\ b.conns = a.conns
      /\ \A n \in Names : n # row.bucket \/ HasBucket(a, n) => b.buckets[n] = a.buckets[n]
      /\ b.rows = (a.rows \ same) \cup {row}
      /\ row.file = EdmxFile(row.bucket, row.id)
      /\ \A r \in same : /\ r.id = row.id
                         /\ r.labelAtCreation = row.labelAtCreation
      /\ same = {} => \A r \in a.rows : r.id # row.id

Drops(row, a, b) == b = [a EXCEPT !.rows = @ \ {row}]

DropsBucket(n, a, b) ==
  b = [a EXCEPT !.buckets[n] = NoBucket, !.rows = @ \ RowsOf(a, n)]

SetsConnections(conns, a, b) ==
  /\ \A n \in conns : ~HasBucket(a, n)
  /\ b = [a EXCEPT !.conns = conns]

CatalogStep(a, b) ==
  \/ \E row \in b.rows : Puts(row, a, b)
  \/ \E row \in a.rows : Drops(row, a, b)
  \/ \E n \in Names : DropsBucket(n, a, b)
  \/ \E conns \in SUBSET Names : SetsConnections(conns, a, b)

CatalogInit ==
  /\ index \in Index
  /\ index.rows = {}
  /\ \A n \in Names : ~HasBucket(index, n)

CatalogNext == index' \in Index /\ CatalogStep(index, index')

CatalogSpec == CatalogInit /\ [][CatalogNext]_index
-----------------------------------------------------------------------------
DisjointNames(ix) == \A n \in ix.conns : ~HasBucket(ix, n)

HousedRows(ix) == \A r \in ix.rows : HasBucket(ix, r.bucket)

DistinctRows(ix) ==
  \A r, s \in ix.rows : r.id = s.id \/ r.file = s.file \/ SameIdentity(r, s) => r = s

NamedFiles(ix) == \A r \in ix.rows : r.file = EdmxFile(r.bucket, r.id)

Unambiguous(ix) ==
  DisjointNames(ix) /\ HousedRows(ix) /\ DistinctRows(ix) /\ NamedFiles(ix)

CatalogInv == index \in Index /\ Unambiguous(index)

(* Dispatch by profile name (MetadataSource::resolve) is unambiguous: no    *)
(* name is both a connected profile and an offline bucket.                  *)
NamesDisjoint == DisjointNames(index)

(* No cached service is stranded in a bucket the index does not have.       *)
RowsHaveBuckets == HousedRows(index)

(* A capture or an import of the same thing updates its row: two rows never *)
(* share a logical identity, an id or an EDMX file.                         *)
OneRowPerIdentity == DistinctRows(index)

(* The stability contract of OfflineService: while a row lives under an id, *)
(* its bucket, service path, label at creation and file never change, which *)
(* is what open tabs, history and favorites rely on.                        *)
IdentityFrozen ==
  [][\A r \in index.rows, s \in index'.rows :
        r.id = s.id => /\ r.bucket = s.bucket
                       /\ r.path = s.path
                       /\ r.labelAtCreation = s.labelAtCreation
                       /\ r.file = s.file]_index
=============================================================================
