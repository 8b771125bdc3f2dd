------------------------ MODULE OfflineLibrary_proofs ------------------------
(***************************************************************************)
(* The transactions of OfflineLibrary implement OfflineCatalog, for any    *)
(* number of writers, requests, I/O errors and deaths.  The argument: the  *)
(* lock admits one writer at a time, the draft a writer holds is one       *)
(* catalog operation away from the index on disk, nobody else can change   *)
(* the index meanwhile, and the rewrite installs the draft whole.          *)
(***************************************************************************)
EXTENDS OfflineLibrary, TLAPS

-----------------------------------------------------------------------------
(* The abstract catalog: it never becomes ambiguous, for any sets of names, *)
(* paths, labels, contents and ids, and any slugify.                        *)

(* Two rows that match in one direction match in the other.                *)
LEMMA SameIdentitySymmetric ==
  ASSUME NEW r \in Row, NEW s \in Row, SameIdentity(r, s)
  PROVE  SameIdentity(s, r)
BY DEF SameIdentity, SameImport, SameCapture, Row

(* A save or an import keeps the index unambiguous: the row it puts is the  *)
(* only one of its identity, its id and its file.                           *)
LEMMA PutsUnambiguous ==
  ASSUME NEW a \in Index, NEW b \in Index, Unambiguous(a),
         NEW row \in b.rows, Puts(row, a, b)
  PROVE  Unambiguous(b)
<1> DEFINE same == {r \in a.rows : SameIdentity(r, row)}
<1>1. /\ row \in Row
      /\ HasBucket(b, row.bucket)
      /\ HasBucket(a, row.bucket) \/ row.bucket \notin a.conns
      /\ b.conns = a.conns
      /\ \A n \in Names : n # row.bucket \/ HasBucket(a, n) => b.buckets[n] = a.buckets[n]
      /\ b.rows = (a.rows \ same) \cup {row}
      /\ row.file = EdmxFile(row.bucket, row.id)
      /\ \A r \in same : r.id = row.id /\ r.labelAtCreation = row.labelAtCreation
      /\ same = {} => \A r \in a.rows : r.id # row.id
  BY DEF Puts
<1>2. /\ a.conns \subseteq Names /\ a.rows \subseteq Row
      /\ b.conns \subseteq Names /\ b.rows \subseteq Row
  BY DEF Index
<1>3. DisjointNames(b)
  <2>1. SUFFICES ASSUME NEW n \in b.conns
                 PROVE  ~HasBucket(b, n)
    BY DEF DisjointNames
  <2>2. n \in Names /\ ~HasBucket(a, n)
    BY <1>1, <1>2 DEF Unambiguous, DisjointNames
  <2>3. n # row.bucket
    BY <1>1, <2>2
  <2> QED
    BY <1>1, <2>2, <2>3 DEF HasBucket
<1>4. HousedRows(b)
  <2>1. SUFFICES ASSUME NEW r \in b.rows
                 PROVE  HasBucket(b, r.bucket)
    BY DEF HousedRows
  <2>2. CASE r = row
    BY <1>1, <2>2
  <2>3. CASE r \in a.rows
    <3>1. r.bucket \in Names /\ HasBucket(a, r.bucket)
      BY <1>2, <2>3 DEF Row, Unambiguous, HousedRows
    <3> QED
      BY <1>1, <3>1 DEF HasBucket
  <2> QED
    BY <1>1, <2>2, <2>3
<1>5. NamedFiles(b)
  BY <1>1 DEF Unambiguous, NamedFiles
<1>6. \A r \in a.rows \ same : /\ r.id # row.id
                               /\ r.file # row.file
                               /\ ~SameIdentity(r, row)
                               /\ ~SameIdentity(row, r)
  <2>1. SUFFICES ASSUME NEW r \in a.rows \ same
                 PROVE  r.id # row.id /\ r.file # row.file
                        /\ ~SameIdentity(r, row) /\ ~SameIdentity(row, r)
    OBVIOUS
  <2>2. ~SameIdentity(r, row) /\ ~SameIdentity(row, r)
    BY <1>1, <1>2, <2>1, SameIdentitySymmetric
  <2>3. r.id # row.id
    <3>1. CASE same = {}
      BY <1>1, <3>1
    <3>2. CASE same # {}
      <4>1. PICK s \in same : TRUE
        BY <3>2
      <4>2. s.id = row.id /\ s \in a.rows /\ s # r
        BY <1>1, <4>1
      <4> QED
        BY <4>2 DEF Unambiguous, DistinctRows
    <3> QED
      BY <3>1, <3>2
  <2>4. r.file = EdmxFile(r.bucket, r.id)
    BY DEF Unambiguous, NamedFiles
  <2>5. r.file # row.file
    BY <1>1, <2>3, <2>4 DEF EdmxFile
  <2> QED
    BY <2>2, <2>3, <2>5
<1>7. DistinctRows(b)
  <2>1. SUFFICES ASSUME NEW r \in b.rows, NEW s \in b.rows,
                        r.id = s.id \/ r.file = s.file \/ SameIdentity(r, s)
                 PROVE  r = s
    BY DEF DistinctRows
  <2>2. CASE r \in a.rows \ same /\ s \in a.rows \ same
    BY <2>1, <2>2 DEF Unambiguous, DistinctRows
  <2>3. CASE r = row \/ s = row
    BY <1>1, <1>6, <2>1, <2>3
  <2> QED
    BY <1>1, <2>2, <2>3
<1> QED
  BY <1>3, <1>4, <1>5, <1>7 DEF Unambiguous

(* Every operation of the catalog keeps the index unambiguous.              *)
LEMMA CatalogStepUnambiguous ==
  ASSUME NEW a \in Index, NEW b \in Index, Unambiguous(a), CatalogStep(a, b)
  PROVE  Unambiguous(b)
<1>0. /\ a.conns \subseteq Names
      /\ a.rows \subseteq Row
      /\ a.buckets \in [Names -> Names \cup {NoSource, NoBucket}]
      /\ a = [conns |-> a.conns, buckets |-> a.buckets, rows |-> a.rows]
  BY DEF Index
<1>1. ASSUME NEW row \in b.rows, Puts(row, a, b)
      PROVE  Unambiguous(b)
  BY <1>1, PutsUnambiguous
<1>2. ASSUME NEW row \in a.rows, Drops(row, a, b)
      PROVE  Unambiguous(b)
  <2>1. b.conns = a.conns /\ b.buckets = a.buckets /\ b.rows = a.rows \ {row}
    BY <1>0, <1>2 DEF Drops
  <2> QED
    BY <2>1 DEF Unambiguous, DisjointNames, HousedRows, DistinctRows, NamedFiles, HasBucket
<1>3. ASSUME NEW n \in Names, DropsBucket(n, a, b)
      PROVE  Unambiguous(b)
  <2>1. /\ b.conns = a.conns
        /\ b.buckets = [a.buckets EXCEPT ![n] = NoBucket]
        /\ b.rows = a.rows \ RowsOf(a, n)
    BY <1>0, <1>3 DEF DropsBucket
  <2>2. \A m \in Names : HasBucket(b, m) <=> m # n /\ HasBucket(a, m)
    BY <1>0, <2>1 DEF HasBucket
  <2>3. \A r \in b.rows : r \in a.rows /\ r.bucket \in Names /\ r.bucket # n
    BY <1>0, <2>1 DEF RowsOf, Row
  <2> QED
    BY <1>0, <2>1, <2>2, <2>3
    DEF Unambiguous, DisjointNames, HousedRows, DistinctRows, NamedFiles
<1>4. ASSUME NEW conns \in SUBSET Names, SetsConnections(conns, a, b)
      PROVE  Unambiguous(b)
  <2>1. b.conns = conns /\ b.buckets = a.buckets /\ b.rows = a.rows
    BY <1>0, <1>4 DEF SetsConnections
  <2> QED
    BY <1>4, <2>1
    DEF SetsConnections, Unambiguous, DisjointNames, HousedRows, DistinctRows, NamedFiles, HasBucket
<1> QED
  BY <1>1, <1>2, <1>3, <1>4 DEF CatalogStep

(* What an operation does to a row of the same id: everything but the       *)
(* label, the source and the bytes is handed down.                          *)
LEMMA CatalogStepFreezes ==
  ASSUME NEW a \in Index, NEW b \in Index, Unambiguous(a), CatalogStep(a, b),
         NEW r \in a.rows, NEW s \in b.rows, r.id = s.id
  PROVE  /\ r.bucket = s.bucket /\ r.path = s.path
         /\ r.labelAtCreation = s.labelAtCreation /\ r.file = s.file
<1>0. a.rows \subseteq Row /\ b.rows \subseteq Row
      /\ a = [conns |-> a.conns, buckets |-> a.buckets, rows |-> a.rows]
  BY DEF Index
<1>1. CASE s \in a.rows
  BY <1>1 DEF Unambiguous, DistinctRows
<1>2. CASE s \notin a.rows
  <2>1. PICK row \in b.rows : Puts(row, a, b)
    <3>1. ASSUME NEW row \in a.rows, Drops(row, a, b) PROVE FALSE
      <4>1. b.rows \subseteq a.rows
        BY <1>0, <3>1 DEF Drops
      <4> QED BY <1>2, <4>1
    <3>2. ASSUME NEW n \in Names, DropsBucket(n, a, b) PROVE FALSE
      <4>1. b.rows \subseteq a.rows
        BY <1>0, <3>2 DEF DropsBucket
      <4> QED BY <1>2, <4>1
    <3>3. ASSUME NEW conns \in SUBSET Names, SetsConnections(conns, a, b) PROVE FALSE
      <4>1. b.rows = a.rows
        BY <1>0, <3>3 DEF SetsConnections
      <4> QED BY <1>2, <4>1
    <3> QED BY <3>1, <3>2, <3>3 DEF CatalogStep
  <2> DEFINE same == {t \in a.rows : SameIdentity(t, row)}
  <2>2. /\ s = row
        /\ row.file = EdmxFile(row.bucket, row.id)
        /\ \A t \in same : t.id = row.id /\ t.labelAtCreation = row.labelAtCreation
        /\ same = {} => \A t \in a.rows : t.id # row.id
    BY <1>2, <2>1 DEF Puts
  <2>3. PICK t \in same : t.id = row.id
    BY <2>2
  <2>4. t = r
    BY <2>2, <2>3 DEF Unambiguous, DistinctRows
  <2>5. r.bucket = row.bucket /\ r.path = row.path
    BY <2>3, <2>4 DEF SameIdentity, SameImport, SameCapture
  <2>6. r.file = EdmxFile(r.bucket, r.id)
    BY DEF Unambiguous, NamedFiles
  <2> QED
    BY <2>2, <2>3, <2>4, <2>5, <2>6
<1> QED
  BY <1>1, <1>2
-----------------------------------------------------------------------------
(* The catalog is never ambiguous.                                          *)
THEOREM CatalogUnambiguous == CatalogSpec => []CatalogInv
<1>1. CatalogInit => CatalogInv
  BY DEF CatalogInit, CatalogInv, Unambiguous, DisjointNames, HousedRows, DistinctRows,
         NamedFiles, HasBucket, Index
<1>2. CatalogInv /\ [CatalogNext]_index => CatalogInv'
  <2>1. CASE UNCHANGED index
    BY <2>1 DEF CatalogInv, Unambiguous, DisjointNames, HousedRows, DistinctRows,
                NamedFiles, HasBucket
  <2>2. ASSUME CatalogInv, CatalogNext PROVE CatalogInv'
    <3>1. Unambiguous(index')
      BY <2>2, CatalogStepUnambiguous DEF CatalogInv, CatalogNext
    <3> QED
      BY <2>2, <3>1 DEF CatalogInv, CatalogNext, Unambiguous, DisjointNames, HousedRows,
                        DistinctRows, NamedFiles, HasBucket
  <2> QED
    BY <2>1, <2>2
<1> QED
  BY <1>1, <1>2, PTL DEF CatalogSpec

(* The identity of a row is frozen for as long as its id is in the catalog. *)
THEOREM CatalogFreezesIdentity == CatalogSpec => IdentityFrozen
<1> DEFINE Frozen ==
      \A r \in index.rows, s \in index'.rows :
        r.id = s.id => /\ r.bucket = s.bucket
                       /\ r.path = s.path
                       /\ r.labelAtCreation = s.labelAtCreation
                       /\ r.file = s.file
<1>1. CatalogInv /\ [CatalogNext]_index => [Frozen]_index
  BY CatalogStepFreezes DEF CatalogInv, CatalogNext
<1> QED
  BY <1>1, CatalogUnambiguous, PTL DEF CatalogSpec, IdentityFrozen

-----------------------------------------------------------------------------
(* The transactions. *)

(* The request a writer works on has the shape of its kind.                 *)
LEMMA RequestShape ==
  ASSUME NEW q \in Request
  PROVE  /\ q.kind = "save" => /\ q.bucket \in Names /\ q.source \in Names
                               /\ q.path \in Paths /\ q.label \in Labels
                               /\ q.sha \in Contents
         /\ q.kind = "import" => /\ q.bucket \in Names /\ q.source = NoSource
                                 /\ q.path = NoPath /\ q.label \in Labels
                                 /\ q.sha \in Contents
         /\ q.kind \in {"save", "import"} => q \in Capture
         /\ q.kind = "deleteService" => q.bucket \in Names /\ q.id \in Ids
         /\ q.kind = "deleteBucket" => q.bucket \in Names
         /\ q.kind = "connections" => q.conns \subseteq Names
BY DEF Request, Capture, Deletion, Connections, NoRequest

(* The pieces of an index, and how to recognise one.                        *)
LEMMA IndexFields ==
  ASSUME NEW ix \in Index
  PROVE  /\ ix.conns \subseteq Names
         /\ ix.buckets \in [Names -> Names \cup {NoSource, NoBucket}]
         /\ ix.rows \subseteq Row
         /\ ix = [conns |-> ix.conns, buckets |-> ix.buckets, rows |-> ix.rows]
BY DEF Index

(* The ConfigFile of a missing connections.toml is typed and has no rows.   *)
LEMMA EmptyIndexTyped == EmptyIndex \in Index /\ EmptyIndex.rows = {}
BY DEF EmptyIndex, Index

(* The bucket table after a save or an import has the bucket, and changes   *)
(* no other entry.                                                          *)
LEMMA WithBucketFacts ==
  ASSUME NEW ix \in Index, NEW q, q.bucket \in Names, q.source \in Names \cup {NoSource}
  PROVE  /\ WithBucket(ix, q) \in [Names -> Names \cup {NoSource, NoBucket}]
         /\ WithBucket(ix, q)[q.bucket] # NoBucket
         /\ \A n \in Names : n # q.bucket \/ HasBucket(ix, n)
                               => WithBucket(ix, q)[n] = ix.buckets[n]
BY IndexFields, DistinctAssumption DEF WithBucket, HasBucket

(* An index with its connections, its buckets or its rows replaced by typed  *)
(* ones is typed: the three ways a transaction changes its draft.           *)
LEMMA IndexUpdate ==
  ASSUME NEW ix \in Index, NEW y \in SUBSET Row,
         NEW x \in [Names -> Names \cup {NoSource, NoBucket}]
  PROVE  LET new == [ix EXCEPT !.buckets = x, !.rows = y]
         IN  /\ new.conns = ix.conns
             /\ new.buckets = x
             /\ new.rows = y
             /\ new \in Index
BY DEF Index

(* Both captures: what StageNew and StageOver put into the draft is one     *)
(* catalog operation on the index, and a typed one.                         *)
LEMMA StagedCapture ==
  ASSUME NEW ix \in Index, NEW q, Unambiguous(ix),
         q.bucket \in Names, q.source \in Names \cup {NoSource},
         q.path \in Paths \cup {NoPath}, q.label \in Labels, q.sha \in Contents,
         ~NameTaken(ix, q.bucket),
         NEW id \in Ids, NEW lab \in Labels, NEW file \in Files,
         file = EdmxFile(q.bucket, id),
         NEW same,
         same = {r \in ix.rows : SameIdentity(r, RowFor(q, id, lab, file))},
         \A r \in same : r.id = id /\ r.labelAtCreation = lab,
         same = {} => \A r \in ix.rows : r.id # id
  PROVE  LET new == [ix EXCEPT !.buckets = WithBucket(ix, q),
                               !.rows = (@ \ same) \cup {RowFor(q, id, lab, file)}]
         IN  new \in Index /\ CatalogStep(ix, new)
<1> DEFINE row == RowFor(q, id, lab, file)
           new == [ix EXCEPT !.buckets = WithBucket(ix, q), !.rows = (@ \ same) \cup {row}]
<1>1. row \in Row
  BY DEF RowFor, Row
<1>2. /\ row.id = id /\ row.bucket = q.bucket /\ row.labelAtCreation = lab
      /\ row.file = file /\ row.path = q.path
  BY DEF RowFor
<1>3. (ix.rows \ same) \cup {row} \in SUBSET Row
  BY <1>1, IndexFields
<1>4. /\ new.conns = ix.conns
      /\ new.buckets = WithBucket(ix, q)
      /\ new.rows = (ix.rows \ same) \cup {row}
      /\ new \in Index
  <2> HIDE DEF row
  <2> QED
    BY <1>3, IndexUpdate, WithBucketFacts
<1> HIDE DEF row, new
<1>5. HasBucket(new, row.bucket)
  BY <1>2, <1>4, WithBucketFacts DEF HasBucket
<1>6. \A n \in Names : n # row.bucket \/ HasBucket(ix, n) => new.buckets[n] = ix.buckets[n]
  BY <1>2, <1>4, WithBucketFacts
<1>7. HasBucket(ix, row.bucket) \/ row.bucket \notin ix.conns
  BY <1>2 DEF NameTaken
<1>8. Puts(row, ix, new)
  <2>1. same = {r \in ix.rows : SameIdentity(r, row)}
    BY DEF row
  <2> QED
    BY <1>1, <1>2, <1>4, <1>5, <1>6, <1>7, <2>1 DEF Puts
<1>9. row \in new.rows
  BY <1>4
<1> QED
  BY <1>4, <1>8, <1>9 DEF CatalogStep, new, row

(* What a Load step leaves behind: it returns, or it stages a draft that is *)
(* one catalog operation away from the index.                               *)
Staged(w) ==
  \E ix \in Index, fs \in SUBSET Files, location \in {"edmx", "remove", "toml"} :
    /\ Stage(w, ix, fs, location)
    /\ location = "edmx" => req[w] \in Capture
    /\ CatalogStep(index, ix)
    /\ RowIds(ix) \subseteq usedIds'
    /\ usedIds \subseteq usedIds'
    /\ usedIds' \subseteq Ids

(* The common tail of a save and an import returns early or stages a draft   *)
(* that is one catalog operation away from the index.                       *)
LEMMA PutStages ==
  ASSUME TypeOK, Unambiguous(index), IdsAccounted, NEW w \in Writers, NEW q, NEW same,
         req[w] \in Capture,
         q.bucket \in Names, q.source \in Names \cup {NoSource},
         q.path \in Paths \cup {NoPath}, q.label \in Labels, q.sha \in Contents,
         ~NameTaken(index, q.bucket),
         same = {r \in index.rows : /\ r.bucket = q.bucket
                                    /\ r.path = q.path
                                    /\ q.path = NoPath => r.labelAtCreation = q.label},
         Put(w, q, same)
  PROVE  Return(w) \/ Staged(w)
<1>0. index \in Index /\ index.rows \subseteq Row /\ usedIds \subseteq Ids
      /\ RowIds(index) \subseteq usedIds
  BY IndexFields DEF TypeOK, IdsAccounted
<1>1. \A id, lab, file :
        q.path # NoPath \/ lab = q.label
          => same = {r \in index.rows : SameIdentity(r, RowFor(q, id, lab, file))}
  BY DEF SameIdentity, SameImport, SameCapture, RowFor
<1>2. CASE same = {} /\ StageNew(w, q)
  <2>1. PICK id \in Ids \ usedIds :
          /\ usedIds' = usedIds \cup {id}
          /\ Stage(w, [index EXCEPT !.buckets = WithBucket(index, q),
                                    !.rows = @ \cup {RowFor(q, id, q.label, EdmxFile(q.bucket, id))}],
                   {RowFor(q, id, q.label, EdmxFile(q.bucket, id)).file}, "edmx")
    BY <1>2 DEF StageNew
  <2> DEFINE file == EdmxFile(q.bucket, id)
             row == RowFor(q, id, q.label, file)
             new == [index EXCEPT !.buckets = WithBucket(index, q), !.rows = (@ \ same) \cup {row}]
  <2>2. file \in Files /\ row.file = file /\ row.id = id
    BY SlugAssumption DEF EdmxFile, Files, RowFor
  <2>3. \A r \in index.rows : r.id # id
    BY <1>0, <2>1 DEF RowIds
  <2>4. new \in Index /\ CatalogStep(index, new)
    <3> HIDE DEF file
    <3>1. same = {r \in index.rows : SameIdentity(r, RowFor(q, id, q.label, file))}
      BY <1>1
    <3> QED
      BY <1>0, <1>2, <2>2, <2>3, <3>1, StagedCapture DEF file
  <2>5. new.rows = index.rows \cup {row}
    BY <1>0, <1>2 DEF Index
  <2>6. Stage(w, new, {file}, "edmx")
    BY <1>2, <2>1, <2>2
  <2>7. RowIds(new) \subseteq usedIds'
    <3> HIDE DEF new, row
    <3> QED
      BY <1>0, <2>1, <2>2, <2>5 DEF RowIds
  <2> HIDE DEF new, file
  <2> QED
    BY <1>0, <2>1, <2>2, <2>4, <2>6, <2>7 DEF Staged
<1>3. CASE \E old \in same : StageOver(w, q, old)
  <2>1. PICK old \in same : StageOver(w, q, old)
    BY <1>3
  <2> DEFINE row == RowFor(q, old.id, old.labelAtCreation, old.file)
             new == [index EXCEPT !.buckets = WithBucket(index, q), !.rows = (@ \ same) \cup {row}]
  <2>2. /\ old \in index.rows /\ old \in Row
        /\ old.bucket = q.bucket /\ old.path = q.path
        /\ q.path = NoPath => old.labelAtCreation = q.label
    BY <1>0
  <2>3. same = {old}
    <3>1. SUFFICES ASSUME NEW r \in same PROVE r = old
      BY <2>1
    <3>2. SameIdentity(r, old)
      BY <2>2, <3>1 DEF SameIdentity, SameImport, SameCapture
    <3> QED
      BY <2>2, <3>2 DEF Unambiguous, DistinctRows
  <2>4. /\ old.id \in Ids /\ old.labelAtCreation \in Labels /\ old.file \in Files
        /\ old.file = EdmxFile(q.bucket, old.id)
        /\ row.file = old.file /\ row.id = old.id
    BY <2>2 DEF Row, Unambiguous, NamedFiles, RowFor
  <2>5. new \in Index /\ CatalogStep(index, new)
    <3>1. same = {r \in index.rows : SameIdentity(r, row)}
      BY <1>1, <2>2
    <3> QED
      BY <1>0, <2>3, <2>4, <3>1, StagedCapture
  <2>6. Stage(w, new, {old.file}, "edmx") /\ usedIds' = usedIds
    BY <2>1, <2>3, <2>4 DEF StageOver
  <2>7. RowIds(new) \subseteq usedIds'
    <3>1. new.rows \subseteq index.rows \cup {row}
      BY <1>0 DEF Index
    <3> HIDE DEF new, row
    <3> QED
      BY <1>0, <2>2, <2>4, <2>6, <3>1 DEF RowIds
  <2> HIDE DEF new
  <2> QED
    BY <1>0, <2>4, <2>5, <2>6, <2>7 DEF Staged
<1> QED
  BY <1>2, <1>3 DEF Put

(* The same for every kind of transaction, from its reload to its first     *)
(* change of a file: it returns, or stages one catalog operation.           *)
LEMMA LoadStages ==
  ASSUME TypeOK, Unambiguous(index), IdsAccounted, NEW w \in Writers, Load(w)
  PROVE  Return(w) \/ Staged(w)
<1>0. /\ index \in Index /\ index.rows \subseteq Row /\ usedIds \subseteq Ids
      /\ RowIds(index) \subseteq usedIds
      /\ req[w] \in Request
  BY IndexFields DEF TypeOK, IdsAccounted
<1>1. CASE LoadSave(w)
  <2>1. req[w].kind = "save" /\ (Return(w) \/
          (~NameTaken(index, req[w].bucket) /\
           Put(w, req[w], {r \in index.rows : SameCapture(r, req[w].bucket, req[w].path)})))
    BY <1>1 DEF LoadSave, Loaded
  <2>2. req[w].path # NoPath
    BY <1>0, <2>1, RequestShape, DistinctAssumption
  <2>3. {r \in index.rows : SameCapture(r, req[w].bucket, req[w].path)}
          = {r \in index.rows : /\ r.bucket = req[w].bucket /\ r.path = req[w].path
                                /\ req[w].path = NoPath => r.labelAtCreation = req[w].label}
    BY <2>2 DEF SameCapture
  <2> QED
    BY <1>0, <2>1, <2>3, RequestShape, PutStages
<1>2. CASE LoadImport(w)
  <2>1. req[w].kind = "import" /\ (Return(w) \/
          (~NameTaken(index, req[w].bucket) /\
           Put(w, req[w], {r \in index.rows : SameImport(r, req[w].bucket, req[w].label)})))
    BY <1>2 DEF LoadImport, Loaded
  <2>2. {r \in index.rows : SameImport(r, req[w].bucket, req[w].label)}
          = {r \in index.rows : /\ r.bucket = req[w].bucket /\ r.path = req[w].path
                                /\ req[w].path = NoPath => r.labelAtCreation = req[w].label}
    BY <1>0, <2>1, RequestShape DEF SameImport
  <2> QED
    BY <1>0, <2>1, <2>2, RequestShape, PutStages
<1>3. CASE LoadDeleteService(w)
  <2>1. CASE Return(w)
    BY <2>1
  <2>2. ASSUME NEW r \in index.rows, UNCHANGED usedIds,
               Stage(w, [index EXCEPT !.rows = @ \ {r}], {r.file}, "remove")
        PROVE  Staged(w)
    <3> DEFINE new == [index EXCEPT !.rows = @ \ {r}]
    <3>1. new \in Index /\ new.rows \subseteq index.rows
      BY <1>0 DEF Index
    <3>2. CatalogStep(index, new)
      BY DEF CatalogStep, Drops
    <3>3. {r.file} \in SUBSET Files
      BY <1>0 DEF Row
    <3> HIDE DEF new
    <3>4. RowIds(new) \subseteq usedIds'
      BY <1>0, <2>2, <3>1 DEF RowIds
    <3> QED
      BY <1>0, <2>2, <3>1, <3>2, <3>3, <3>4 DEF Staged, new
  <2> QED
    BY <1>3, <2>1, <2>2 DEF LoadDeleteService
<1>4. CASE LoadDeleteBucket(w)
  <2>1. CASE Return(w)
    BY <2>1
  <2> DEFINE n == req[w].bucket
             gone == RowsOf(index, n)
             new == [index EXCEPT !.buckets[n] = NoBucket, !.rows = @ \ gone]
             fs == {r.file : r \in gone}
  <2>2. ASSUME UNCHANGED usedIds, Stage(w, new, fs, "remove")
        PROVE  Staged(w)
    <3>1. n \in Names
      BY <1>0, <1>4, RequestShape DEF LoadDeleteBucket, Loaded
    <3>2. new \in Index /\ new.rows \subseteq index.rows
      BY <1>0, <3>1 DEF Index
    <3>3. CatalogStep(index, new)
      BY <3>1 DEF CatalogStep, DropsBucket
    <3>4. fs \in SUBSET Files
      BY <1>0 DEF Row, RowsOf
    <3> HIDE DEF new, fs, gone
    <3>5. RowIds(new) \subseteq usedIds'
      BY <1>0, <2>2, <3>2 DEF RowIds
    <3> QED
      BY <1>0, <2>2, <3>2, <3>3, <3>4, <3>5 DEF Staged
  <2> QED
    BY <1>4, <2>1, <2>2 DEF LoadDeleteBucket
<1>5. CASE LoadConnections(w)
  <2>1. CASE Return(w)
    BY <2>1
  <2> DEFINE new == [index EXCEPT !.conns = req[w].conns]
  <2>2. ASSUME UNCHANGED usedIds, Stage(w, new, {}, "toml"),
               \A n \in req[w].conns : ~HasBucket(index, n)
        PROVE  Staged(w)
    <3>1. req[w].conns \in SUBSET Names
      BY <1>0, <1>5, RequestShape DEF LoadConnections, Loaded
    <3>2. new \in Index /\ new.rows = index.rows
      BY <1>0, <3>1 DEF Index
    <3>3. CatalogStep(index, new)
      BY <2>2, <3>1 DEF CatalogStep, SetsConnections
    <3> HIDE DEF new
    <3>4. RowIds(new) \subseteq usedIds'
      BY <1>0, <2>2, <3>2 DEF RowIds
    <3> QED
      BY <1>0, <2>2, <3>2, <3>3, <3>4 DEF Staged
  <2> QED
    BY <1>5, <2>1, <2>2 DEF LoadConnections
<1> QED
  BY <1>1, <1>2, <1>3, <1>4, <1>5 DEF Load
-----------------------------------------------------------------------------
(* The steps that change nothing of the disk index and stage no draft, as    *)
(* one relation: the writer moves, perhaps in or out of the lock.            *)
LEMMA CommandStarts ==
  ASSUME TypeOK, NEW w \in Writers, Command(w)
  PROVE  \E q \in Request : Submit(w, q)
<1>0. index \in Index /\ index.conns \subseteq Names /\ index.rows \subseteq Row
  BY IndexFields DEF TypeOK
<1>1. CASE SaveServiceOffline(w)
  BY <1>0, <1>1 DEF SaveServiceOffline, Request, Capture
<1>2. CASE ImportEdmx(w)
  BY <1>2 DEF ImportEdmx, Request, Capture
<1>3. CASE DeleteOfflineService(w)
  BY <1>0, <1>3 DEF DeleteOfflineService, Request, Deletion, Row
<1>4. CASE RemoveProfile(w)
  <2>1. PICK n \in Names :
          IF HasBucket(index, n) THEN Submit(w, [kind |-> "deleteBucket", bucket |-> n])
          ELSE n \in index.conns
               /\ Submit(w, [kind |-> "connections", conns |-> index.conns \ {n}])
    BY <1>4 DEF RemoveProfile
  <2>2. [kind |-> "deleteBucket", bucket |-> n] \in Request
    BY DEF Request, Deletion
  <2>3. [kind |-> "connections", conns |-> index.conns \ {n}] \in Request
    BY <1>0 DEF Request, Connections
  <2> QED
    BY <2>1, <2>2, <2>3
<1>5. CASE AddProfile(w)
  <2>1. PICK n \in Names : Submit(w, [kind |-> "connections", conns |-> index.conns \cup {n}])
    BY <1>5 DEF AddProfile
  <2>2. [kind |-> "connections", conns |-> index.conns \cup {n}] \in Request
    BY <1>0 DEF Request, Connections
  <2> QED
    BY <2>1, <2>2
<1> QED
  BY <1>1, <1>2, <1>3, <1>4, <1>5 DEF Command

(* Every step keeps the types.                                              *)
LEMMA StepTyped ==
  ASSUME LibraryInv, NEW w \in Writers,
         Command(w) \/ Advance(w) \/ IoError(w) \/ Die(w)
  PROVE  TypeOK'
<1> USE DEF Locations
<1>0. TypeOK /\ Unambiguous(index) /\ IdsAccounted
  BY DEF LibraryInv
<1>1. ASSUME NEW q \in Request, Submit(w, q) PROVE TypeOK'
  BY <1>0, <1>1, LibraryAssumption DEF TypeOK, Submit, disk
<1>2. CASE AcquireLock(w) \/ GiveUp(w) \/ ReclaimStaleLock(w)
  BY <1>0, <1>2 DEF TypeOK, AcquireLock, GiveUp, ReclaimStaleLock, Goto, disk, local,
                    counters, Request
<1>3. CASE Return(w)
  BY <1>0, <1>3 DEF TypeOK, Return, Goto, disk, local, counters
<1>4. CASE Staged(w)
  <2>1. PICK ix \in Index, fs \in SUBSET Files, location \in {"edmx", "remove", "toml"} :
          /\ Stage(w, ix, fs, location)
          /\ location = "edmx" => req[w] \in Capture
          /\ usedIds' \subseteq Ids
    BY <1>4 DEF Staged
  <2> QED
    BY <1>0, <2>1 DEF TypeOK, Stage, Goto, disk
<1>5. CASE WriteEdmx(w)
  <2>1. pc[w] = "edmx" /\ todo[w] \subseteq Files
    BY <1>0, <1>5 DEF TypeOK, WriteEdmx
  <2>2. dirs' \subseteq Dirs
    BY <1>0, <1>5, <2>1 DEF TypeOK, WriteEdmx, Files
  <2>3. files' \in [Files -> Contents \cup {NoFile}]
    <3>1. req[w].sha \in Contents
      BY <1>0, <2>1 DEF TypeOK, Capture
    <3> QED
      BY <1>0, <1>5, <3>1 DEF TypeOK, WriteEdmx
  <2> QED
    BY <1>0, <1>5, <2>1, <2>2, <2>3 DEF TypeOK, WriteEdmx, Goto, counters
<1>6. CASE RemoveFile(w)
  <2>1. PICK f \in todo[w] :
          /\ \/ files' = [files EXCEPT ![f] = NoFile] /\ skipped' = skipped
             \/ files' = files /\ skipped' = skipped \cup {f}
          /\ todo' = [todo EXCEPT ![w] = @ \ {f}]
          /\ touched' = [touched EXCEPT ![w] = @ \cup {f}]
    BY <1>6 DEF RemoveFile
  <2>2. faults' \in 0 .. MaxFaults
    BY <1>0, <1>6, LibraryAssumption DEF TypeOK, RemoveFile
  <2>3. f \in Files
    BY <1>0, <2>1 DEF TypeOK
  <2>4. /\ files' \in [Files -> Contents \cup {NoFile}]
        /\ (torn \cup skipped)' \subseteq Files
        /\ todo' \in [Writers -> SUBSET Files] /\ touched' \in [Writers -> SUBSET Files]
    BY <1>0, <1>6, <2>1, <2>3 DEF TypeOK, RemoveFile
  <2> QED
    BY <1>0, <1>6, <2>2, <2>4 DEF TypeOK, RemoveFile
<1>7. CASE FilesRemoved(w)
  <2>1. dirs' \subseteq dirs
    BY <1>7 DEF FilesRemoved, RemovableDirs
  <2>2. faults' \in 0 .. MaxFaults
    BY <1>0, <1>7, LibraryAssumption DEF TypeOK, FilesRemoved
  <2> QED
    BY <1>0, <1>7, <2>1, <2>2 DEF TypeOK, FilesRemoved, Goto, local
<1>8. CASE WriteToml(w)
  BY <1>0, <1>8 DEF TypeOK, WriteToml, Goto, counters
<1>9. CASE Unlock(w)
  BY <1>0, <1>9, EmptyIndexTyped, LibraryAssumption
  DEF TypeOK, Unlock, Goto, disk, Request
<1>10. CASE IoError(w)
  <2>1. dirs' \subseteq Dirs
    BY <1>0, <1>10 DEF TypeOK, IoError, Files
  <2> QED
    BY <1>0, <1>10, <2>1, LibraryAssumption DEF TypeOK, IoError, Goto
<1>11. CASE Die(w)
  BY <1>0, <1>11, EmptyIndexTyped, LibraryAssumption
  DEF TypeOK, Die, Goto, disk, Request
<1> QED
  BY <1>0, <1>1, <1>2, <1>3, <1>4, <1>5, <1>6, <1>7, <1>8, <1>9, <1>10, <1>11,
     CommandStarts, LoadStages DEF Advance, Change

(* What a step does to the index and to the writer's draft: nothing, or one  *)
(* of staging, committing and clearing.                                      *)
LEMMA StepIndex ==
  ASSUME LibraryInv, NEW w \in Writers,
         Command(w) \/ Advance(w) \/ IoError(w) \/ Die(w)
  PROVE  \/ /\ index' = index
            /\ usedIds \subseteq usedIds'
            /\ \/ draft' = draft /\ pc' = pc
               \/ /\ draft' = draft
                  /\ \E location \in {"idle", "acquire", "load", "unlock"} : Goto(w, location)
               \/ draft' = draft /\ pc[w] \in {"edmx", "remove"} /\ Goto(w, "toml")
               \/ draft' = [draft EXCEPT ![w] = EmptyIndex] /\ Goto(w, "idle")
         \/ Staged(w)
         \/ WriteToml(w)
<1>0. TypeOK /\ Unambiguous(index) /\ IdsAccounted
  BY DEF LibraryInv
<1>1. ASSUME NEW q \in Request, Submit(w, q)
      PROVE  /\ index' = index /\ usedIds' = usedIds /\ draft' = draft
             /\ Goto(w, "acquire")
  BY <1>1 DEF Submit, disk, Goto
<1>2. CASE AcquireLock(w) \/ GiveUp(w) \/ ReclaimStaleLock(w)
  BY <1>2 DEF AcquireLock, GiveUp, ReclaimStaleLock, Goto, disk, local, counters
<1>3. CASE Return(w)
  BY <1>3 DEF Return, Goto, disk, local, counters
<1>4. CASE WriteEdmx(w) \/ RemoveFile(w) \/ FilesRemoved(w)
  BY <1>4 DEF WriteEdmx, RemoveFile, FilesRemoved, Goto, local, counters
<1>5. CASE Unlock(w)
  BY <1>5 DEF Unlock, Goto, disk
<1>6. CASE IoError(w) \/ Die(w)
  BY <1>6 DEF IoError, Die, Goto, disk
<1> QED
  BY <1>0, <1>1, <1>2, <1>3, <1>4, <1>5, <1>6, CommandStarts, LoadStages
  DEF Advance, Change

(* What a step does to the lock: it is entered when absent, left by its      *)
(* holder, cleared of a dead holder, or untouched.                           *)
LEMMA StepLock ==
  ASSUME LibraryInv, NEW w \in Writers,
         Command(w) \/ Advance(w) \/ IoError(w) \/ Die(w)
  PROVE  /\ \A v \in Writers \ {w} : pc'[v] = pc[v]
         /\ \/ lock' = lock /\ (Inside(w)' => Inside(w))
            \/ lock = "absent" /\ lock' = "held"
            \/ Inside(w) /\ ~Inside(w)'
            \/ lock = "abandoned" /\ pc' = pc
<1> USE DEF Inside, Goto
<1>0. TypeOK /\ Unambiguous(index) /\ IdsAccounted /\ pc \in [Writers -> Locations]
  BY DEF LibraryInv, TypeOK
<1>1. ASSUME NEW q \in Request, Submit(w, q)
      PROVE  /\ lock' = lock /\ ~Inside(w)'
             /\ \A v \in Writers \ {w} : pc'[v] = pc[v]
  BY <1>0, <1>1 DEF Submit
<1>2. CASE AcquireLock(w) \/ GiveUp(w) \/ ReclaimStaleLock(w)
  BY <1>0, <1>2 DEF AcquireLock, GiveUp, ReclaimStaleLock
<1>3. CASE Load(w)
  <2>1. pc[w] = "load"
    BY <1>3 DEF Load, LoadSave, LoadImport, LoadDeleteService, LoadDeleteBucket,
                LoadConnections, Loaded
  <2> QED
    BY <1>0, <1>3, <2>1, LoadStages DEF Return, Staged, Stage
<1>4. CASE WriteEdmx(w) \/ RemoveFile(w) \/ FilesRemoved(w) \/ WriteToml(w)
  BY <1>0, <1>4 DEF WriteEdmx, RemoveFile, FilesRemoved, WriteToml
<1>5. CASE Unlock(w)
  BY <1>0, <1>5 DEF Unlock
<1>6. CASE IoError(w)
  BY <1>0, <1>6 DEF IoError
<1>7. CASE Die(w)
  BY <1>0, <1>7 DEF Die
<1> QED
  BY <1>0, <1>1, <1>2, <1>3, <1>4, <1>5, <1>6, <1>7, CommandStarts DEF Advance, Change

(* A step of one writer keeps the invariant: what it stages is current, and  *)
(* a commit can only make the draft of a second holder stale, which OneHolder *)
(* excludes.                                                                *)
LEMMA StepKeepsInv ==
  ASSUME LibraryInv, NEW w \in Writers,
         Command(w) \/ Advance(w) \/ IoError(w) \/ Die(w)
  PROVE  LibraryInv'
<1>0. /\ TypeOK /\ Unambiguous(index) /\ OneHolder /\ IdsAccounted /\ DraftsCurrent
      /\ index \in Index /\ pc \in [Writers -> Locations] /\ draft \in [Writers -> Index]
  BY DEF LibraryInv, TypeOK
<1>1. TypeOK'
  BY StepTyped
<1>2. OneHolder'
  BY <1>0, StepLock DEF OneHolder, Inside
<1> USE DEF Goto
<1>3. CASE WriteToml(w)
  <2>1. /\ index' = draft[w] /\ draft' = draft /\ usedIds' = usedIds
        /\ pc[w] = "toml" /\ pc' = [pc EXCEPT ![w] = "unlock"]
        /\ CatalogStep(index, draft[w]) /\ draft[w] \in Index
    BY <1>0, <1>3 DEF WriteToml, counters, DraftsCurrent
  <2>2. Unambiguous(index')
    BY <1>0, <2>1, CatalogStepUnambiguous
  <2>3. IdsAccounted'
    BY <1>0, <2>1 DEF IdsAccounted, RowIds
  <2>4. \A v \in Writers : pc'[v] \notin {"edmx", "remove", "toml"}
    BY <1>0, <2>1 DEF OneHolder, Inside
  <2> QED
    BY <1>1, <1>2, <2>2, <2>3, <2>4
    DEF LibraryInv, DraftsCurrent, Unambiguous, DisjointNames, HousedRows, DistinctRows,
        NamedFiles, HasBucket
<1>4. CASE Staged(w)
  <2>1. PICK ix \in Index, location \in {"edmx", "remove", "toml"} :
          /\ index' = index /\ draft' = [draft EXCEPT ![w] = ix]
          /\ pc' = [pc EXCEPT ![w] = location]
          /\ CatalogStep(index, ix) /\ RowIds(ix) \subseteq usedIds'
          /\ usedIds \subseteq usedIds'
    BY <1>4 DEF Staged, Stage, disk
  <2>2. IdsAccounted'
    BY <1>0, <2>1 DEF IdsAccounted, RowIds
  <2>3. DraftsCurrent'
    BY <1>0, <2>1 DEF DraftsCurrent
  <2> QED
    BY <1>0, <1>1, <1>2, <2>1, <2>2, <2>3
    DEF LibraryInv, Unambiguous, DisjointNames, HousedRows, DistinctRows, NamedFiles, HasBucket
<1>5. CASE /\ index' = index
           /\ usedIds \subseteq usedIds'
           /\ \/ draft' = draft /\ pc' = pc
              \/ /\ draft' = draft
                 /\ \E location \in {"idle", "acquire", "load", "unlock"} : Goto(w, location)
              \/ draft' = draft /\ pc[w] \in {"edmx", "remove"} /\ Goto(w, "toml")
              \/ draft' = [draft EXCEPT ![w] = EmptyIndex] /\ Goto(w, "idle")
  <2>1. IdsAccounted'
    BY <1>0, <1>5, EmptyIndexTyped DEF IdsAccounted, RowIds
  <2>2. DraftsCurrent'
    BY <1>0, <1>5 DEF DraftsCurrent
  <2> QED
    BY <1>0, <1>1, <1>2, <1>5, <2>1, <2>2
    DEF LibraryInv, Unambiguous, DisjointNames, HousedRows, DistinctRows, NamedFiles, HasBucket
<1> QED
  BY <1>3, <1>4, <1>5, StepIndex

(* The first start finds no buckets, no rows and no lock: the invariant holds.*)
LEMMA InitInv == Init => LibraryInv
<1> SUFFICES ASSUME Init PROVE LibraryInv
  OBVIOUS
<1>1. index \in Index /\ index.rows = {} /\ \A n \in Names : ~HasBucket(index, n)
  BY LibraryAssumption DEF Init, EmptyIndex, Index, HasBucket
<1>2. TypeOK
  BY <1>1, EmptyIndexTyped, LibraryAssumption DEF Init, TypeOK, Locations, Request
<1>3. Unambiguous(index)
  BY <1>1, IndexFields DEF Unambiguous, DisjointNames, HousedRows, DistinctRows, NamedFiles
<1>4. OneHolder /\ DraftsCurrent
  BY DEF Init, OneHolder, DraftsCurrent, Inside
<1>5. IdsAccounted
  BY <1>1, EmptyIndexTyped DEF Init, IdsAccounted, RowIds
<1> QED
  BY <1>2, <1>3, <1>4, <1>5 DEF LibraryInv

(* Every step of the library, or a stutter, keeps the invariant.            *)
LEMMA NextKeepsInv == LibraryInv /\ [Next]_vars => LibraryInv'
<1>1. CASE UNCHANGED vars
  BY <1>1
  DEF vars, LibraryInv, TypeOK, Unambiguous, DisjointNames, HousedRows, DistinctRows,
      NamedFiles, HasBucket, OneHolder, Inside, IdsAccounted, RowIds, DraftsCurrent
<1>2. ASSUME LibraryInv, Next PROVE LibraryInv'
  BY <1>2, StepKeepsInv DEF Next
<1> QED
  BY <1>1, <1>2
-----------------------------------------------------------------------------
(* Whatever the interleaving of commands, I/O errors and deaths: one writer  *)
(* is inside the lock at a time, and what it is about to commit is one        *)
(* operation away from the index on disk, which is unambiguous.               *)
THEOREM LibraryInvariant == Spec => []LibraryInv
BY InitInv, NextKeepsInv, PTL DEF Spec

(* Type correctness of the library.                                           *)
THEOREM LibraryTyped == Spec => []TypeOK
<1>1. LibraryInv => TypeOK
  BY DEF LibraryInv
<1> QED
  BY <1>1, LibraryInvariant, PTL

(* The library on disk implements the atomic catalog.                         *)
THEOREM LibraryImplementsCatalog == Spec => ImplementsCatalog
<1>1. Init => CatalogInit
  BY LibraryAssumption DEF Init, CatalogInit, EmptyIndex, Index, HasBucket
<1>2. LibraryInv /\ [Next]_vars => [CatalogNext]_index
  <2>1. CASE UNCHANGED vars
    BY <2>1 DEF vars
  <2>2. ASSUME LibraryInv, NEW w \in Writers,
               Command(w) \/ Advance(w) \/ IoError(w) \/ Die(w)
        PROVE  index' = index \/ CatalogNext
    <3>1. CASE Staged(w)
      BY <3>1 DEF Staged, Stage, disk
    <3>2. CASE WriteToml(w)
      BY <2>2, <3>2 DEF WriteToml, LibraryInv, TypeOK, DraftsCurrent, CatalogNext
    <3> QED
      BY <2>2, <3>1, <3>2, StepIndex
  <2> QED
    BY <2>1, <2>2 DEF Next
<1> QED
  BY <1>1, <1>2, LibraryInvariant, PTL DEF Spec, CatalogSpec, ImplementsCatalog

(* No name is ever both a connected profile and an offline bucket.            *)
THEOREM LibraryNamesDisjoint == Spec => []NamesDisjoint
<1>1. LibraryInv => NamesDisjoint
  BY DEF LibraryInv, Unambiguous, NamesDisjoint
<1> QED
  BY <1>1, LibraryInvariant, PTL

(* Every cached service has its bucket in the index.                          *)
THEOREM LibraryRowsHaveBuckets == Spec => []RowsHaveBuckets
<1>1. LibraryInv => RowsHaveBuckets
  BY DEF LibraryInv, Unambiguous, RowsHaveBuckets
<1> QED
  BY <1>1, LibraryInvariant, PTL

(* Two rows never share a logical identity, an id or an EDMX file.            *)
THEOREM LibraryOneRowPerIdentity == Spec => []OneRowPerIdentity
<1>1. LibraryInv => OneRowPerIdentity
  BY DEF LibraryInv, Unambiguous, OneRowPerIdentity
<1> QED
  BY <1>1, LibraryInvariant, PTL

(* The identity of a cached service is frozen, across every writer and fault. *)
THEOREM LibraryFreezesIdentity == Spec => IdentityFrozen
BY LibraryImplementsCatalog, CatalogFreezesIdentity DEF ImplementsCatalog

(* Who is inside, before and after a step of one writer.                     *)
LEMMA StepInside ==
  ASSUME LibraryInv, NEW w \in Writers, NEW location \in Locations, Goto(w, location)
  PROVE  Insiders' = IF location \in {"load", "edmx", "remove", "toml", "unlock"}
                     THEN Insiders \cup {w} ELSE Insiders \ {w}
<1>1. pc \in [Writers -> Locations]
  BY DEF LibraryInv, TypeOK
<1> QED
  BY <1>1 DEF Insiders, Inside, Goto

(* A step takes the lock, leaves it, reclaims it, or does nothing to it.     *)
LEMMA StepTakesLock ==
  ASSUME LibraryInv, NEW w \in Writers,
         Command(w) \/ Advance(w) \/ IoError(w) \/ Die(w)
  PROVE  Promised!Next \/ (lock' = lock /\ Insiders' = Insiders)
<1> USE DEF Locations
<1>0. /\ OneHolder /\ Insiders \subseteq Writers
      /\ \A v \in Writers : v \in Insiders <=> Inside(v)
  BY DEF LibraryInv, Insiders
<1>1. lock # "held" => Insiders = {}
  BY <1>0 DEF OneHolder
<1>2. w \in Insiders => Insiders = {w} /\ lock = "held"
  BY <1>0 DEF OneHolder
<1>3. ASSUME NEW q \in Request, Submit(w, q) PROVE lock' = lock /\ Insiders' = Insiders
  <2>1. lock' = lock /\ Goto(w, "acquire") /\ w \notin Insiders
    BY <1>0, <1>3 DEF Submit, Goto, Inside
  <2> QED
    BY <2>1, StepInside
<1>4. CASE AcquireLock(w)
  <2>1. lock = "absent" /\ lock' = "held" /\ Goto(w, "load")
    BY <1>4 DEF AcquireLock
  <2>2. Insiders' = {w} /\ Insiders = {}
    BY <1>1, <2>1, StepInside
  <2> QED
    BY <2>1, <2>2 DEF Promised!Next, Promised!Enter
<1>5. CASE GiveUp(w)
  <2>1. lock' = lock /\ Goto(w, "idle") /\ w \notin Insiders
    BY <1>0, <1>5 DEF GiveUp, Inside
  <2> QED
    BY <2>1, StepInside
<1>6. CASE ReclaimStaleLock(w)
  <2>1. lock = "abandoned" /\ lock' = "absent" /\ Insiders' = Insiders
    BY <1>6 DEF ReclaimStaleLock, Insiders, Inside
  <2> QED
    BY <1>1, <2>1 DEF Promised!Next, Promised!Reclaim
<1>7. CASE Load(w) \/ Change(w) \/ IoError(w)
  <2>1. CASE pc' = pc /\ lock' = lock
    BY <2>1 DEF Insiders, Inside
  <2>2. CASE w \in Insiders /\ lock' = lock
             /\ \E location \in {"edmx", "remove", "toml", "unlock"} : Goto(w, location)
    BY <2>2, StepInside
  <2>3. CASE Load(w)
    <3>1. w \in Insiders
      BY <1>0, <2>3 DEF Load, LoadSave, LoadImport, LoadDeleteService, LoadDeleteBucket,
                        LoadConnections, Loaded, Inside
    <3>2. Return(w) \/ Staged(w)
      BY <2>3, LoadStages DEF LibraryInv
    <3>3. lock' = lock /\ \E location \in {"edmx", "remove", "toml", "unlock"} : Goto(w, location)
      BY <3>2 DEF Return, Staged, Stage
    <3> QED
      BY <2>2, <3>1, <3>3
  <2>4. CASE WriteEdmx(w)
    BY <1>0, <2>2, <2>4 DEF WriteEdmx, Inside
  <2>5. CASE RemoveFile(w)
    BY <2>1, <2>5 DEF RemoveFile
  <2>6. CASE FilesRemoved(w)
    BY <1>0, <2>2, <2>6 DEF FilesRemoved, Inside
  <2>7. CASE WriteToml(w)
    BY <1>0, <2>2, <2>7 DEF WriteToml, Inside
  <2>8. CASE IoError(w)
    BY <1>0, <2>2, <2>8 DEF IoError, Inside
  <2> QED
    BY <1>7, <2>3, <2>4, <2>5, <2>6, <2>7, <2>8 DEF Change
<1>8. CASE Unlock(w)
  <2>1. w \in Insiders /\ lock' \in {"absent", "abandoned"} /\ Goto(w, "idle")
    BY <1>0, <1>8 DEF Unlock, Inside
  <2>2. Insiders' = {} /\ Insiders = {w} /\ lock = "held"
    BY <1>2, <2>1, StepInside
  <2> QED
    BY <2>1, <2>2 DEF Promised!Next, Promised!Leave
<1>9. CASE Die(w)
  <2>1. Goto(w, "idle") /\ lock' = IF w \in Insiders THEN "abandoned" ELSE lock
    BY <1>0, <1>9 DEF Die
  <2>2. CASE w \in Insiders
    <3>1. Insiders' = {} /\ Insiders = {w} /\ lock = "held" /\ lock' = "abandoned"
      BY <1>2, <2>1, <2>2, StepInside
    <3> QED
      BY <3>1 DEF Promised!Next, Promised!Leave
  <2>3. CASE w \notin Insiders
    BY <2>1, <2>3, StepInside
  <2> QED
    BY <2>2, <2>3
<1> QED
  BY <1>3, <1>4, <1>5, <1>6, <1>7, <1>8, <1>9, CommandStarts DEF LibraryInv, Advance

(* The transactions take and leave the lock as WriterLock has it, whatever    *)
(* fails and whoever dies.                                                    *)
THEOREM LibraryTakesLock == Spec => TakesLock
<1>1. Init => Promised!Init
  BY DEF Init, Promised!Init, Insiders, Inside
<1>2. LibraryInv /\ [Next]_vars => [Promised!Next]_<<lock, Insiders>>
  <2>1. CASE UNCHANGED vars
    BY <2>1 DEF vars, Insiders, Inside
  <2>2. ASSUME LibraryInv, NEW w \in Writers,
               Command(w) \/ Advance(w) \/ IoError(w) \/ Die(w)
        PROVE  [Promised!Next]_<<lock, Insiders>>
    BY <2>2, StepTakesLock
  <2> QED
    BY <2>1, <2>2 DEF Next
<1> QED
  BY <1>1, <1>2, LibraryInvariant, PTL DEF Spec, TakesLock, Promised!Spec
-----------------------------------------------------------------------------
(***************************************************************************)
(* The EDMX files and connections.toml agree, for any number of writers,   *)
(* buckets that share a directory, I/O errors and deaths.  The argument:   *)
(* the draft of a transaction differs from the index only in rows whose    *)
(* files the transaction changes (FilesStaged), nobody else changes either *)
(* meanwhile, and a transaction that does not get to its rewrite leaves    *)
(* its files in `torn`.                                                    *)
(***************************************************************************)

(* What a writer inside the lock can rely on: it is alone.                 *)
LEMMA OthersOut ==
  ASSUME LibraryInv, FilesInv, NEW w \in Writers, Inside(w)
  PROVE  /\ \A v \in Writers \ {w} : /\ pc[v] \notin {"load", "edmx", "remove", "toml", "unlock"}
                                     /\ touched[v] = {}
         /\ InFlight = touched[w]
<1>1. ASSUME NEW v \in Writers \ {w}
      PROVE  /\ pc[v] \notin {"load", "edmx", "remove", "toml", "unlock"}
             /\ touched[v] = {}
  BY DEF LibraryInv, OneHolder, Inside, FilesInv, FilesStaged
<1>2. touched \in [Writers -> SUBSET Files]
  BY DEF LibraryInv, TypeOK
<1>3. InFlight = touched[w]
  BY <1>1, <1>2 DEF InFlight
<1> QED
  BY <1>1, <1>3

(* A transaction that has decided: its draft and its files.                 *)
StagedFiles(w) ==
  \E ix \in Index, fs \in SUBSET Files, location \in {"edmx", "remove", "toml"} :
    /\ Stage(w, ix, fs, location)
    /\ DraftFiles(w, ix, fs, location)
    /\ location = "toml" => fs = {}

(* Both captures: the one row that goes or comes has the one file that is   *)
(* written.                                                                 *)
LEMMA CaptureDraft ==
  ASSUME LibraryInv, FilesInv, NEW w \in Writers, NEW q, q = req[w],
         q.kind \in {"save", "import"},
         q.bucket \in Names, q.source \in Names \cup {NoSource},
         q.path \in Paths \cup {NoPath}, q.label \in Labels, q.sha \in Contents,
         q.path = NoPath \/ ~SourceMismatch(index, q),
         NEW id \in Ids, NEW lab \in Labels, NEW file \in Files,
         NEW same \in SUBSET index.rows,
         \A r \in same : r.bucket = q.bucket,
         \A r \in index.rows : r.file = file <=> r \in same,
         NEW new, new = [index EXCEPT !.buckets = WithBucket(index, q),
                                      !.rows = (@ \ same) \cup {RowFor(q, id, lab, file)}]
  PROVE  DraftFiles(w, new, {file}, "edmx")
<1> DEFINE row == RowFor(q, id, lab, file)
<1>0. /\ index \in Index /\ index.rows \subseteq Row
      /\ HousedRows(index) /\ Attributed(index)
  BY IndexFields DEF LibraryInv, TypeOK, Unambiguous, FilesInv, AttributedBucketsKeepSource
<1>1. row \in Row /\ row.file = file /\ row.bucket = q.bucket /\ row.path = q.path
      /\ row.source = q.source /\ row.sha = q.sha
  BY DEF RowFor, Row
<1> HIDE DEF row
<1>2. /\ new.buckets = WithBucket(index, q)
      /\ new.rows = (index.rows \ same) \cup {row}
  BY <1>0, <1>1, WithBucketFacts DEF Index, row
<1>3. Attributed(new)
  <2>1. SUFFICES ASSUME NEW r \in new.rows, r.path # NoPath
                 PROVE  new.buckets[r.bucket] \in {NoSource, r.source}
    BY DEF Attributed
  <2>2. CASE r = row
    BY <1>0, <1>1, <1>2, <2>1, <2>2 DEF WithBucket, SourceMismatch, Index
  <2>3. CASE r \in index.rows
    <3>1. HasBucket(index, r.bucket) /\ index.buckets[r.bucket] \in {NoSource, r.source}
      BY <1>0, <2>1, <2>3 DEF HousedRows, Attributed
    <3>2. r.bucket \in Names
      BY <1>0, <2>3 DEF Row
    <3> QED
      BY <1>0, <1>2, <3>1, <3>2, WithBucketFacts
  <2> QED
    BY <1>2, <2>1, <2>2, <2>3
<1>4. \A r \in Row : r.file \notin {file} => (r \in new.rows <=> r \in index.rows)
  BY <1>1, <1>2
<1>5. \A r \in index.rows : r.file \in {file} => req[w].bucket = r.bucket
  OBVIOUS
<1>6. \A r \in new.rows : r.file \in {file} => r.sha = req[w].sha
  BY <1>1, <1>2
<1>7. \A f \in {file} : \E r \in new.rows : r.file = f
  BY <1>1, <1>2
<1> HIDE DEF row
<1> QED
  BY <1>3, <1>4, <1>5, <1>6, <1>7 DEF DraftFiles

(* The common tail of a save and an import.                                 *)
LEMMA PutDraft ==
  ASSUME LibraryInv, FilesInv, NEW w \in Writers, NEW q, q = req[w],
         q.kind \in {"save", "import"},
         q.bucket \in Names, q.source \in Names \cup {NoSource},
         q.path \in Paths \cup {NoPath}, q.label \in Labels, q.sha \in Contents,
         q.path = NoPath \/ ~SourceMismatch(index, q),
         NEW same, same \subseteq index.rows, \A r \in same : r.bucket = q.bucket,
         \A r, s \in same : SameIdentity(r, s),
         Put(w, q, same)
  PROVE  Return(w) \/ StagedFiles(w)
<1>0. /\ index \in Index /\ index.rows \subseteq Row /\ usedIds \subseteq Ids
      /\ RowIds(index) \subseteq usedIds /\ NamedFiles(index) /\ DistinctRows(index)
  BY IndexFields DEF LibraryInv, TypeOK, IdsAccounted, Unambiguous
<1>1. CASE same = {} /\ StageNew(w, q)
  <2>1. PICK id \in Ids \ usedIds :
          Stage(w, [index EXCEPT !.buckets = WithBucket(index, q),
                                 !.rows = @ \cup {RowFor(q, id, q.label, EdmxFile(q.bucket, id))}],
                {RowFor(q, id, q.label, EdmxFile(q.bucket, id)).file}, "edmx")
    BY <1>1 DEF StageNew
  <2> DEFINE file == EdmxFile(q.bucket, id)
             row == RowFor(q, id, q.label, file)
             new == [index EXCEPT !.buckets = WithBucket(index, q), !.rows = (@ \ same) \cup {row}]
  <2>2. file \in Files /\ row.file = file /\ row \in Row
    BY SlugAssumption DEF EdmxFile, Files, RowFor, Row
  <2>3. \A r \in index.rows : r.file # file
    <3>1. SUFFICES ASSUME NEW r \in index.rows PROVE r.file # file
      OBVIOUS
    <3>2. r.id # id /\ r.file = EdmxFile(r.bucket, r.id)
      BY <1>0, <2>1 DEF RowIds, NamedFiles
    <3> QED
      BY <3>2 DEF EdmxFile
  <2>4. new \in Index
    <3>1. (index.rows \ same) \cup {row} \in SUBSET Row
      BY <1>0, <2>2
    <3> HIDE DEF row
    <3> QED
      BY <1>0, <3>1, IndexUpdate, WithBucketFacts
  <2>5. DraftFiles(w, new, {file}, "edmx")
    <3> HIDE DEF file
    <3> QED
      BY <1>1, <2>2, <2>3, CaptureDraft
  <2>6. Stage(w, new, {file}, "edmx")
    <3>1. new = [index EXCEPT !.buckets = WithBucket(index, q), !.rows = @ \cup {row}]
      BY <1>0, <1>1 DEF Index
    <3> HIDE DEF new
    <3> QED
      BY <2>1, <2>2, <3>1
  <2> HIDE DEF new, file
  <2> QED
    BY <2>2, <2>4, <2>5, <2>6 DEF StagedFiles
<1>2. CASE \E old \in same : StageOver(w, q, old)
  <2>1. PICK old \in same : StageOver(w, q, old)
    BY <1>2
  <2> DEFINE row == RowFor(q, old.id, old.labelAtCreation, old.file)
             new == [index EXCEPT !.buckets = WithBucket(index, q), !.rows = (@ \ {old}) \cup {row}]
  <2>2. /\ old \in index.rows /\ old \in Row /\ old.bucket = q.bucket
        /\ old.id \in Ids /\ old.labelAtCreation \in Labels /\ old.file \in Files
        /\ row \in Row /\ row.file = old.file
    BY <1>0 DEF Row, RowFor
  <2>3. \A r \in index.rows : r.file = old.file <=> r \in {old}
    BY <1>0, <2>2 DEF DistinctRows
  <2>4. new \in Index
    <3>1. (index.rows \ {old}) \cup {row} \in SUBSET Row
      BY <1>0, <2>2
    <3> HIDE DEF row
    <3> QED
      BY <1>0, <3>1, IndexUpdate, WithBucketFacts
  <2>5. DraftFiles(w, new, {old.file}, "edmx")
    <3>1. {old} \in SUBSET index.rows /\ \A r \in {old} : r.bucket = q.bucket
      BY <2>2
    <3> QED
      BY <2>2, <2>3, <3>1, CaptureDraft
  <2>6. Stage(w, new, {old.file}, "edmx")
    BY <2>1, <2>2 DEF StageOver
  <2> HIDE DEF new
  <2> QED
    BY <2>2, <2>4, <2>5, <2>6 DEF StagedFiles
<1> QED
  BY <1>1, <1>2 DEF Put

(* Removals: the rows that go have the files that go.                       *)
LEMMA RemovalDraft ==
  ASSUME LibraryInv, FilesInv, NEW w \in Writers,
         req[w].kind \notin {"none", "connections"},
         NEW gone \in SUBSET index.rows, \A r \in gone : r.bucket = req[w].bucket,
         NEW new \in Index, new.rows = index.rows \ gone,
         \A r \in new.rows : new.buckets[r.bucket] = index.buckets[r.bucket]
  PROVE  DraftFiles(w, new, {r.file : r \in gone}, "remove")
<1> DEFINE fs == {r.file : r \in gone}
<1>0. DistinctRows(index) /\ Attributed(index)
  BY DEF LibraryInv, Unambiguous, FilesInv, AttributedBucketsKeepSource
<1>1. \A r \in index.rows : r.file \in fs => r \in gone
  BY <1>0 DEF DistinctRows
<1>2. \A r \in gone : r.file \in fs
  OBVIOUS
<1> HIDE DEF fs
<1>3. Attributed(new)
  BY <1>0 DEF Attributed
<1>4. DraftFiles(w, new, fs, "remove")
  BY <1>1, <1>2, <1>3 DEF DraftFiles
<1> QED
  BY <1>4 DEF fs

(* Every transaction decides on a draft and files that fit each other.      *)
LEMMA LoadDrafts ==
  ASSUME LibraryInv, FilesInv, NEW w \in Writers, Load(w)
  PROVE  Return(w) \/ StagedFiles(w)
<1>0. /\ index \in Index /\ index.rows \subseteq Row
      /\ req[w] \in Request
      /\ HousedRows(index)
  BY IndexFields DEF LibraryInv, TypeOK, Unambiguous
<1>1. CASE LoadSave(w)
  <2> DEFINE same == {r \in index.rows : SameCapture(r, req[w].bucket, req[w].path)}
  <2>1. req[w].kind = "save" /\ (Return(w) \/ (~SourceMismatch(index, req[w]) /\ Put(w, req[w], same)))
    BY <1>1 DEF LoadSave, Loaded
  <2>2. same \subseteq index.rows /\ \A r \in same : r.bucket = req[w].bucket
    BY DEF SameCapture
  <2>3. \A r, s \in same : SameIdentity(r, s)
    BY <1>0, <2>1, RequestShape, DistinctAssumption DEF SameCapture, SameIdentity
  <2> HIDE DEF same
  <2> QED
    BY <1>0, <2>1, <2>2, <2>3, RequestShape, PutDraft
<1>2. CASE LoadImport(w)
  <2> DEFINE same == {r \in index.rows : SameImport(r, req[w].bucket, req[w].label)}
  <2>1. req[w].kind = "import" /\ (Return(w) \/ Put(w, req[w], same))
    BY <1>2 DEF LoadImport, Loaded
  <2>2. same \subseteq index.rows /\ \A r \in same : r.bucket = req[w].bucket
    BY DEF SameImport
  <2>3. \A r, s \in same : SameIdentity(r, s)
    BY DEF SameImport, SameIdentity
  <2> HIDE DEF same
  <2> QED
    BY <1>0, <2>1, <2>2, <2>3, RequestShape, PutDraft
<1>3. CASE LoadDeleteService(w)
  <2>1. req[w].kind = "deleteService"
    BY <1>3 DEF LoadDeleteService, Loaded
  <2>2. ASSUME NEW r \in index.rows, r.bucket = req[w].bucket,
               Stage(w, [index EXCEPT !.rows = @ \ {r}], {r.file}, "remove")
        PROVE  StagedFiles(w)
    <3> DEFINE new == [index EXCEPT !.rows = @ \ {r}]
    <3>1. /\ new \in Index /\ new.rows = index.rows \ {r} /\ new.buckets = index.buckets
          /\ {r} \in SUBSET index.rows /\ {s.file : s \in {r}} = {r.file}
      BY <1>0 DEF Index
    <3>2. {r.file} \in SUBSET Files
      BY <1>0 DEF Row
    <3>3. Stage(w, new, {r.file}, "remove")
      BY <2>2
    <3> HIDE DEF new
    <3>4. DraftFiles(w, new, {r.file}, "remove")
      <4>1. DraftFiles(w, new, {s.file : s \in {r}}, "remove")
        BY <2>1, <2>2, <3>1, RemovalDraft
      <4> QED
        BY <3>1, <4>1
    <3> QED
      BY <3>1, <3>2, <3>3, <3>4 DEF StagedFiles
  <2> QED
    BY <1>3, <2>2 DEF LoadDeleteService
<1>4. CASE LoadDeleteBucket(w)
  <2> DEFINE n == req[w].bucket
             gone == RowsOf(index, n)
             new == [index EXCEPT !.buckets[n] = NoBucket, !.rows = @ \ gone]
             fs == {r.file : r \in gone}
  <2>1. req[w].kind = "deleteBucket" /\ n \in Names
    BY <1>0, <1>4, RequestShape DEF LoadDeleteBucket, Loaded
  <2>2. Return(w) \/ Stage(w, new, fs, "remove")
    BY <1>4 DEF LoadDeleteBucket
  <2>3. /\ new \in Index /\ new.rows = index.rows \ gone
        /\ new.buckets = [index.buckets EXCEPT ![n] = NoBucket]
    BY <1>0, <2>1 DEF Index
  <2>4. gone \in SUBSET index.rows /\ (\A r \in gone : r.bucket = n)
        /\ \A r \in index.rows \ gone : r.bucket # n
    BY DEF RowsOf
  <2>5. fs \in SUBSET Files
    BY <1>0 DEF Row, RowsOf
  <2> HIDE DEF gone, new, n
  <2>6. \A r \in new.rows : new.buckets[r.bucket] = index.buckets[r.bucket]
    BY <1>0, <2>3, <2>4, IndexFields
  <2>7. DraftFiles(w, new, fs, "remove")
    BY <2>1, <2>3, <2>4, <2>6, RemovalDraft DEF n
  <2> HIDE DEF fs
  <2> QED
    BY <2>2, <2>3, <2>5, <2>7 DEF StagedFiles
<1>5. CASE LoadConnections(w)
  <2> DEFINE new == [index EXCEPT !.conns = req[w].conns]
  <2>1. Return(w) \/ Stage(w, new, {}, "toml")
    BY <1>5 DEF LoadConnections
  <2>2. req[w].conns \in SUBSET Names
    BY <1>0, <1>5, RequestShape DEF LoadConnections, Loaded
  <2>3. new \in Index /\ new.rows = index.rows /\ new.buckets = index.buckets
    BY <1>0, <2>2 DEF Index
  <2> HIDE DEF new
  <2>4. DraftFiles(w, new, {}, "toml")
    BY <2>3 DEF DraftFiles, Attributed, FilesInv, AttributedBucketsKeepSource
  <2> QED
    BY <2>1, <2>3, <2>4 DEF StagedFiles
<1> QED
  BY <1>1, <1>2, <1>3, <1>4, <1>5 DEF Load
-----------------------------------------------------------------------------
(* The steps of one writer.                                                 *)

(* Steps outside a transaction's changes: the writer's files, if any, are   *)
(* accounted for in `torn`, and it holds no draft afterwards.               *)
Quiet(w) ==
  /\ UNCHANGED <<index, files, skipped>>
  /\ \A v \in Writers \ {w} : /\ pc'[v] = pc[v] /\ req'[v] = req[v]
                              /\ draft'[v] = draft[v]
                              /\ todo'[v] = todo[v] /\ touched'[v] = touched[v]
  /\ pc'[w] \notin {"edmx", "remove", "toml"} /\ touched'[w] = {}
  /\ torn' = torn \cup touched[w]

LEMMA QuietSteps ==
  ASSUME LibraryInv, FilesInv, NEW w \in Writers,
         \/ \E q \in Request : Submit(w, q)
         \/ AcquireLock(w) \/ GiveUp(w) \/ ReclaimStaleLock(w)
         \/ pc[w] = "load" /\ Return(w)
         \/ Unlock(w) \/ IoError(w) \/ Die(w)
  PROVE  Quiet(w)
<1>0. /\ pc \in [Writers -> Locations] /\ req \in [Writers -> Request]
      /\ draft \in [Writers -> Index] /\ todo \in [Writers -> SUBSET Files]
      /\ touched \in [Writers -> SUBSET Files] /\ torn \subseteq Files
  BY DEF LibraryInv, TypeOK
<1>1. pc[w] \notin {"remove", "toml"} => touched[w] = {}
  BY DEF FilesInv, FilesStaged
<1> USE DEF Quiet, Goto, disk, local, counters
<1>2. CASE \E q \in Request : Submit(w, q)
  BY <1>0, <1>1, <1>2 DEF Submit
<1>3. CASE AcquireLock(w) \/ GiveUp(w) \/ ReclaimStaleLock(w)
  BY <1>0, <1>1, <1>3 DEF AcquireLock, GiveUp, ReclaimStaleLock
<1>4. CASE pc[w] = "load" /\ Return(w)
  BY <1>0, <1>1, <1>4 DEF Return
<1>5. CASE Unlock(w)
  BY <1>0, <1>1, <1>5 DEF Unlock
<1>6. CASE IoError(w)
  BY <1>0, <1>1, <1>6 DEF IoError
<1>7. CASE Die(w)
  BY <1>0, <1>1, <1>7 DEF Die
<1> QED
  BY <1>2, <1>3, <1>4, <1>5, <1>6, <1>7

LEMMA QuietKeeps ==
  ASSUME LibraryInv, FilesInv, NEW w \in Writers, Quiet(w)
  PROVE  FilesInv'
<1>0. touched \in [Writers -> SUBSET Files]
  BY DEF LibraryInv, TypeOK
<1>1. InFlight \cup torn \subseteq InFlight' \cup torn'
  BY DEF InFlight, Quiet
<1>2. FilesStaged'
  BY DEF Quiet, FilesInv, FilesStaged, DraftFiles, Attributed
<1>3. AttributedBucketsKeepSource'
  BY DEF Quiet, FilesInv, AttributedBucketsKeepSource, Attributed
<1>4. IndexMatchesFiles'
  BY <1>1 DEF Quiet, FilesInv, IndexMatchesFiles
<1>5. OrphansExplained'
  BY <1>1 DEF Quiet, FilesInv, OrphansExplained
<1> QED
  BY <1>2, <1>3, <1>4, <1>5 DEF FilesInv

LEMMA StageKeeps ==
  ASSUME LibraryInv, FilesInv, NEW w \in Writers, pc[w] = "load", StagedFiles(w)
  PROVE  FilesInv'
<1>0. /\ pc \in [Writers -> Locations] /\ draft \in [Writers -> Index]
      /\ todo \in [Writers -> SUBSET Files] /\ touched \in [Writers -> SUBSET Files]
  BY DEF LibraryInv, TypeOK
<1>1. PICK ix \in Index, fs \in SUBSET Files, location \in {"edmx", "remove", "toml"} :
        /\ DraftFiles(w, ix, fs, location) /\ (location = "toml" => fs = {})
        /\ draft' = [draft EXCEPT ![w] = ix] /\ todo' = [todo EXCEPT ![w] = fs]
        /\ pc' = [pc EXCEPT ![w] = location]
        /\ UNCHANGED <<index, files, dirs, req, touched, torn, skipped>>
  BY DEF StagedFiles, Stage, Goto, disk
<1>2. touched[w] = {}
  BY DEF FilesInv, FilesStaged
<1>3. DraftFiles(w, draft[w], todo[w] \cup touched[w], pc[w])'
  BY <1>0, <1>1, <1>2 DEF DraftFiles, Attributed
<1>4. ASSUME NEW v \in Writers \ {w}
      PROVE  /\ draft'[v] = draft[v] /\ todo'[v] = todo[v] /\ pc'[v] = pc[v]
             /\ pc[v] \notin {"edmx", "remove", "toml"}
  BY <1>0, <1>1, OthersOut DEF Inside
<1>5. FilesStaged'
  BY <1>0, <1>1, <1>2, <1>3, <1>4 DEF FilesInv, FilesStaged
<1> QED
  BY <1>1, <1>5 DEF FilesInv, AttributedBucketsKeepSource, Attributed, IndexMatchesFiles,
                    OrphansExplained, InFlight

(* The steps that change files: of the invariant they can disturb only the  *)
(* writer's own part and what is said of its files.                         *)
LEMMA WriteKeeps ==
  ASSUME LibraryInv, FilesInv, NEW w \in Writers, WriteEdmx(w)
  PROVE  FilesInv'
<1>0. /\ pc \in [Writers -> Locations] /\ draft \in [Writers -> Index]
      /\ todo \in [Writers -> SUBSET Files] /\ touched \in [Writers -> SUBSET Files]
      /\ files \in [Files -> Contents \cup {NoFile}]
      /\ index \in Index /\ index.rows \subseteq Row /\ draft[w].rows \subseteq Row
  BY IndexFields DEF LibraryInv, TypeOK
<1>1. /\ pc[w] = "edmx" /\ pc' = [pc EXCEPT ![w] = "toml"]
      /\ files' = [f \in Files |-> IF f \in todo[w] THEN req[w].sha ELSE files[f]]
      /\ dirs' = dirs \cup {f[1] : f \in todo[w]}
      /\ touched' = [touched EXCEPT ![w] = todo[w]]
      /\ todo' = [todo EXCEPT ![w] = {}]
      /\ UNCHANGED <<index, req, draft, torn, skipped>>
  BY DEF WriteEdmx, Goto
<1>2. /\ DraftFiles(w, draft[w], todo[w] \cup touched[w], "edmx") /\ touched[w] = {}
      /\ FilesStaged
  BY <1>1 DEF FilesInv, FilesStaged
<1>3. /\ \A v \in Writers \ {w} : /\ pc[v] \notin {"edmx", "remove", "toml"} /\ touched[v] = {}
                                  /\ pc'[v] = pc[v] /\ touched'[v] = touched[v]
      /\ InFlight = {} /\ InFlight' = todo[w]
  <2>1. InFlight = touched[w] /\ \A v \in Writers \ {w} : pc[v] \notin {"edmx", "remove", "toml"} /\ touched[v] = {}
    BY <1>1, OthersOut DEF Inside
  <2>2. touched' \in [Writers -> SUBSET Files] /\ touched'[w] = todo[w]
    BY <1>0, <1>1
  <2>3. \A v \in Writers \ {w} : pc'[v] = pc[v] /\ touched'[v] = touched[v]
    BY <1>0, <1>1
  <2>4. InFlight' = todo[w]
    BY <2>1, <2>2, <2>3 DEF InFlight
  <2> QED
    BY <1>2, <2>1, <2>3, <2>4
<1>4. FilesStaged'
  <2>1. DraftFiles(w, draft[w], todo[w] \cup touched[w], pc[w])'
    BY <1>0, <1>1, <1>2 DEF DraftFiles, Attributed
  <2>2. \A r \in draft'[w].rows : r.file \in touched'[w] => files'[r.file] = r.sha
    BY <1>0, <1>1, <1>2 DEF DraftFiles
  <2>3. \A f \in touched'[w] : \E r \in draft'[w].rows : r.file = f
    BY <1>0, <1>1, <1>2 DEF DraftFiles
  <2>4. pc'[w] = "toml" /\ todo'[w] = {}
    BY <1>0, <1>1
  <2> QED
    BY <1>2, <1>3, <2>1, <2>2, <2>3, <2>4 DEF FilesStaged
<1>5. AttributedBucketsKeepSource'
  BY <1>1 DEF FilesInv, AttributedBucketsKeepSource, Attributed
<1>6. \A f \in Files : f \notin todo[w] => files'[f] = files[f]
  BY <1>1
<1>7. IndexMatchesFiles'
  BY <1>0, <1>1, <1>3, <1>6 DEF FilesInv, IndexMatchesFiles, Row
<1>8. OrphansExplained'
  BY <1>1, <1>3, <1>6 DEF FilesInv, OrphansExplained
<1> QED
  BY <1>4, <1>5, <1>7, <1>8 DEF FilesInv

LEMMA RemoveKeeps ==
  ASSUME LibraryInv, FilesInv, NEW w \in Writers, RemoveFile(w)
  PROVE  FilesInv'
<1>0. /\ pc \in [Writers -> Locations] /\ draft \in [Writers -> Index]
      /\ todo \in [Writers -> SUBSET Files] /\ touched \in [Writers -> SUBSET Files]
      /\ files \in [Files -> Contents \cup {NoFile}]
      /\ index \in Index /\ index.rows \subseteq Row
  BY IndexFields DEF LibraryInv, TypeOK
<1>1. PICK f \in todo[w] :
        /\ pc[w] = "remove"
        /\ \/ files' = [files EXCEPT ![f] = NoFile] /\ skipped' = skipped
           \/ files' = files /\ skipped' = skipped \cup {f}
        /\ todo' = [todo EXCEPT ![w] = @ \ {f}]
        /\ touched' = [touched EXCEPT ![w] = @ \cup {f}]
        /\ UNCHANGED <<index, dirs, pc, req, draft, torn>>
  BY DEF RemoveFile
<1>2. /\ DraftFiles(w, draft[w], todo[w] \cup touched[w], "remove") /\ FilesStaged
      /\ \A g \in touched[w] : files[g] = NoFile \/ g \in skipped \/ \E r \in draft[w].rows : r.file = g
  BY <1>1 DEF FilesInv, FilesStaged
<1>3. /\ \A v \in Writers \ {w} : /\ pc[v] \notin {"edmx", "remove", "toml"}
                                  /\ touched'[v] = touched[v]
      /\ InFlight = touched[w] /\ InFlight' = touched[w] \cup {f}
  <2>1. InFlight = touched[w] /\ \A v \in Writers \ {w} : pc[v] \notin {"edmx", "remove", "toml"} /\ touched[v] = {}
    BY <1>1, OthersOut DEF Inside
  <2>2. /\ touched'[w] = touched[w] \cup {f}
        /\ \A v \in Writers \ {w} : touched'[v] = touched[v]
    BY <1>0, <1>1
  <2>3. InFlight' = touched[w] \cup {f}
    BY <2>1, <2>2 DEF InFlight
  <2> QED
    BY <2>1, <2>2, <2>3
<1>4. /\ \A g \in Files : g # f => files'[g] = files[g]
      /\ f \in Files /\ skipped \subseteq skipped'
      /\ \/ files'[f] = NoFile
         \/ f \in skipped' /\ files'[f] = files[f]
  BY <1>0, <1>1
<1>5. FilesStaged'
  <2>0. (todo[w] \cup touched[w])' = todo[w] \cup touched[w]
        /\ touched'[w] = touched[w] \cup {f}
    BY <1>0, <1>1
  <2>1. DraftFiles(w, draft[w], todo[w] \cup touched[w], pc[w])'
    BY <1>0, <1>1, <1>2, <2>0 DEF DraftFiles, Attributed
  <2>2. \A r \in draft'[w].rows : r.file \notin touched'[w]
    BY <1>1, <1>2, <2>0 DEF DraftFiles
  <2>3. \A g \in touched'[w] : files'[g] = NoFile \/ g \in skipped'
    BY <1>0, <1>1, <1>2, <1>4, <2>0, <2>2
  <2> QED
    BY <1>1, <1>2, <1>3, <2>1, <2>2, <2>3 DEF FilesStaged
<1>6. AttributedBucketsKeepSource'
  BY <1>1 DEF FilesInv, AttributedBucketsKeepSource, Attributed
<1>7. IndexMatchesFiles'
  BY <1>0, <1>1, <1>3, <1>4 DEF FilesInv, IndexMatchesFiles, Row
<1>8. OrphansExplained'
  BY <1>1, <1>3, <1>4 DEF FilesInv, OrphansExplained
<1> QED
  BY <1>5, <1>6, <1>7, <1>8 DEF FilesInv

LEMMA RemovedKeeps ==
  ASSUME LibraryInv, FilesInv, NEW w \in Writers, FilesRemoved(w)
  PROVE  FilesInv'
<1>0. pc \in [Writers -> Locations]
  BY DEF LibraryInv, TypeOK
<1>1. /\ pc[w] = "remove" /\ todo[w] = {} /\ pc' = [pc EXCEPT ![w] = "toml"]
      /\ UNCHANGED <<index, files, req, draft, todo, touched, torn, skipped>>
  BY DEF FilesRemoved, Goto, local
<1>2. FilesStaged'
  BY <1>0, <1>1 DEF FilesInv, FilesStaged, DraftFiles, Attributed
<1> QED
  BY <1>1, <1>2 DEF FilesInv, AttributedBucketsKeepSource, Attributed,
                    IndexMatchesFiles, OrphansExplained, InFlight

LEMMA CommitKeeps ==
  ASSUME LibraryInv, FilesInv, NEW w \in Writers, WriteToml(w)
  PROVE  FilesInv'
<1>0. /\ pc \in [Writers -> Locations] /\ draft \in [Writers -> Index]
      /\ todo \in [Writers -> SUBSET Files] /\ touched \in [Writers -> SUBSET Files]
      /\ draft[w].rows \subseteq Row
  BY IndexFields DEF LibraryInv, TypeOK
<1>1. /\ pc[w] = "toml" /\ index' = draft[w] /\ torn' = torn \ touched[w]
      /\ touched' = [touched EXCEPT ![w] = {}] /\ pc' = [pc EXCEPT ![w] = "unlock"]
      /\ UNCHANGED <<files, dirs, req, draft, todo, skipped>>
  BY DEF WriteToml, Goto
<1>2. /\ DraftFiles(w, draft[w], touched[w], "toml") /\ FilesStaged
      /\ \A r \in draft[w].rows : r.file \in touched[w] => files[r.file] = r.sha
      /\ \A f \in touched[w] : files[f] = NoFile \/ f \in skipped \/ \E r \in draft[w].rows : r.file = f
  <2>1. todo[w] \cup touched[w] = touched[w]
    BY <1>1 DEF FilesInv, FilesStaged
  <2> QED
    BY <1>1, <2>1 DEF FilesInv, FilesStaged
<1>3. /\ \A v \in Writers : pc'[v] \notin {"edmx", "remove", "toml"} /\ touched'[v] = {}
      /\ InFlight = touched[w] /\ InFlight' = {}
  <2>1. InFlight = touched[w] /\ \A v \in Writers \ {w} : pc[v] \notin {"edmx", "remove", "toml"} /\ touched[v] = {}
    BY <1>1, OthersOut DEF Inside
  <2>2. \A v \in Writers : pc'[v] \notin {"edmx", "remove", "toml"} /\ touched'[v] = {}
    BY <1>0, <1>1, <2>1
  <2>3. InFlight' = {}
    BY <2>2 DEF InFlight
  <2> QED
    BY <2>1, <2>2, <2>3
<1>4. FilesStaged'
  BY <1>3 DEF FilesStaged
<1>5. AttributedBucketsKeepSource'
  BY <1>1, <1>2 DEF DraftFiles, Attributed, AttributedBucketsKeepSource
<1>6. \A r \in draft[w].rows : r.file \notin touched[w] => r \in index.rows
  BY <1>0, <1>2 DEF DraftFiles
<1>7. \A r \in index.rows : r.file \notin touched[w] => r \in draft[w].rows
  <2>1. index.rows \subseteq Row
    BY IndexFields DEF LibraryInv, TypeOK
  <2> QED
    BY <1>2, <2>1 DEF DraftFiles
<1>8. IndexMatchesFiles'
  BY <1>1, <1>2, <1>3, <1>6 DEF FilesInv, IndexMatchesFiles
<1>9. OrphansExplained'
  BY <1>1, <1>2, <1>3, <1>7 DEF FilesInv, OrphansExplained
<1> QED
  BY <1>4, <1>5, <1>8, <1>9 DEF FilesInv

(* The kinds of steps of a writer.                                          *)
LEMMA StepCases ==
  ASSUME LibraryInv, FilesInv, NEW w \in Writers,
         Command(w) \/ Advance(w) \/ IoError(w) \/ Die(w)
  PROVE  \/ Quiet(w)
         \/ pc[w] = "load" /\ StagedFiles(w)
         \/ WriteEdmx(w) \/ RemoveFile(w) \/ FilesRemoved(w) \/ WriteToml(w)
<1>1. Load(w) => pc[w] = "load"
  BY DEF Load, LoadSave, LoadImport, LoadDeleteService, LoadDeleteBucket, LoadConnections, Loaded
<1>2. Command(w) => \E q \in Request : Submit(w, q)
  BY CommandStarts DEF LibraryInv
<1>3. Load(w) => Return(w) \/ StagedFiles(w)
  BY LoadDrafts
<1> QED
  BY <1>1, <1>2, <1>3, QuietSteps DEF Advance, Change

LEMMA InitFiles == Init => FilesInv
<1> SUFFICES ASSUME Init PROVE FilesInv
  OBVIOUS
<1>1. index.rows = {}
  BY DEF Init, EmptyIndex
<1> QED
  BY <1>1 DEF Init, FilesInv, FilesStaged, AttributedBucketsKeepSource, Attributed,
              IndexMatchesFiles, OrphansExplained

LEMMA NextKeepsFiles == LibraryInv /\ FilesInv /\ [Next]_vars => FilesInv'
<1>1. ASSUME FilesInv, UNCHANGED vars PROVE FilesInv'
  <2>1. FilesStaged'
    BY <1>1 DEF vars, FilesInv, FilesStaged, DraftFiles, Attributed
  <2>2. AttributedBucketsKeepSource'
    BY <1>1 DEF vars, FilesInv, AttributedBucketsKeepSource, Attributed
  <2>3. InFlight' \cup torn' = InFlight \cup torn
    BY <1>1 DEF vars, InFlight
  <2>4. IndexMatchesFiles' /\ OrphansExplained'
    BY <1>1, <2>3 DEF vars, FilesInv, IndexMatchesFiles, OrphansExplained
  <2> QED
    BY <2>1, <2>2, <2>4 DEF FilesInv
<1>2. ASSUME LibraryInv, FilesInv, Next PROVE FilesInv'
  BY <1>2, StepCases, QuietKeeps, StageKeeps, WriteKeeps, RemoveKeeps, RemovedKeeps, CommitKeeps
  DEF Next
<1> QED
  BY <1>1, <1>2
-----------------------------------------------------------------------------
(* Whatever the interleaving, the I/O errors and the deaths: files and index *)
(* agree, and what a writer holds back is all in its draft.                  *)
THEOREM LibraryFilesInvariant == Spec => []FilesInv
<1>1. Init => LibraryInv /\ FilesInv
  BY InitInv, InitFiles
<1>2. LibraryInv /\ FilesInv /\ [Next]_vars => LibraryInv' /\ FilesInv'
  BY NextKeepsInv, NextKeepsFiles
<1> QED
  BY <1>1, <1>2, PTL DEF Spec

(* A row's EDMX file holds the bytes whose hash the row records, except for  *)
(* files of a transaction under way or broken off (save.rs, delete.rs).      *)
THEOREM LibraryIndexMatchesFiles == Spec => []IndexMatchesFiles
<1>1. FilesInv => IndexMatchesFiles
  BY DEF FilesInv
<1> QED
  BY <1>1, LibraryFilesInvariant, PTL

(* An EDMX file no row points at is left by a transaction that broke off     *)
(* between file and index, or by a delete that passed over a path it could   *)
(* not resolve (storage.rs, delete.rs, canonicalize_under).                  *)
THEOREM LibraryOrphansExplained == Spec => []OrphansExplained
<1>1. FilesInv => OrphansExplained
  BY DEF FilesInv
<1> QED
  BY <1>1, LibraryFilesInvariant, PTL

(* A bucket attributed to a connected profile holds captures of that profile *)
(* only (save.rs, the source check under the lock).                          *)
THEOREM LibraryKeepsSource == Spec => []AttributedBucketsKeepSource
<1>1. FilesInv => AttributedBucketsKeepSource
  BY DEF FilesInv
<1> QED
  BY <1>1, LibraryFilesInvariant, PTL

(* Of an indexed file, a step changes the bytes only for the bucket that the *)
(* request of the writer names (storage.rs, one file per row).               *)
THEOREM LibraryLeavesOthers == Spec => OtherBucketsUntouched
<1>1. LibraryInv /\ FilesInv /\ [Next]_vars =>
        [\A r \in index.rows :
           files'[r.file] # files[r.file] =>
             \E w \in Writers : req[w].kind \notin {"none", "connections"}
                               /\ req[w].bucket = r.bucket]_vars
  <2>1. SUFFICES ASSUME LibraryInv, FilesInv, NEW w \in Writers,
                        Command(w) \/ Advance(w) \/ IoError(w) \/ Die(w),
                        NEW r \in index.rows, files'[r.file] # files[r.file]
                 PROVE  req[w].kind \notin {"none", "connections"} /\ req[w].bucket = r.bucket
    BY DEF Next
  <2>2. r.file \in Files /\ files \in [Files -> Contents \cup {NoFile}]
    BY <2>1, IndexFields DEF LibraryInv, TypeOK, Row
  <2>3. pc[w] \in {"edmx", "remove"} /\ r.file \in todo[w]
    <3>1. CASE Quiet(w) \/ StagedFiles(w) \/ FilesRemoved(w) \/ WriteToml(w)
      BY <2>1, <3>1 DEF Quiet, StagedFiles, Stage, disk, FilesRemoved, WriteToml
    <3>2. CASE WriteEdmx(w)
      BY <2>1, <2>2, <3>2 DEF WriteEdmx
    <3>3. CASE RemoveFile(w)
      BY <2>1, <2>2, <3>3 DEF RemoveFile
    <3> QED
      BY <2>1, <3>1, <3>2, <3>3, StepCases
  <2>4. DraftFiles(w, draft[w], todo[w] \cup touched[w], pc[w])
    BY <2>1, <2>3 DEF FilesInv, FilesStaged
  <2> QED
    BY <2>3, <2>4 DEF DraftFiles
<1> QED
  BY <1>1, LibraryInvariant, LibraryFilesInvariant, PTL DEF Spec, OtherBucketsUntouched

(* File first, index second: a row that points at no file is made by a       *)
(* running delete and by nothing else (save.rs, storage.rs).                 *)
THEOREM LibrarySavesNeverDangle == Spec => SavesNeverDangle
<1>1. LibraryInv /\ FilesInv /\ [Next]_vars =>
        [\A r \in index'.rows :
           files'[r.file] = NoFile => \/ \E s \in Dangling : s.file = r.file
                                     \/ \E w \in Writers : pc[w] = "remove"]_vars
  <2>1. SUFFICES ASSUME LibraryInv, FilesInv, NEW w \in Writers,
                        Command(w) \/ Advance(w) \/ IoError(w) \/ Die(w),
                        NEW r \in index'.rows, files'[r.file] = NoFile, pc[w] # "remove"
                 PROVE  r \in Dangling
    BY DEF Next
  <2>2. /\ r \in index'.rows /\ files'[r.file] = NoFile /\ r \in Row
        /\ index \in Index /\ index.rows \subseteq Row
        /\ draft[w].rows \subseteq Row
        /\ files \in [Files -> Contents \cup {NoFile}]
    <3>1. LibraryInv'
      BY <2>1, NextKeepsInv DEF Next
    <3>2. index' \in Index /\ index \in Index /\ draft[w] \in Index
      BY <2>1, <3>1 DEF LibraryInv, TypeOK
    <3>3. index'.rows \subseteq Row /\ index.rows \subseteq Row /\ draft[w].rows \subseteq Row
      BY <3>2, IndexFields
    <3> QED
      BY <2>1, <3>2, <3>3 DEF LibraryInv, TypeOK, Dangling
  <2>3. r.file \in Files /\ r.sha \in Contents /\ r.sha # NoFile
    BY <2>2, DistinctAssumption DEF Row
  <2>4. CASE Quiet(w) \/ StagedFiles(w)
    BY <2>2, <2>4 DEF Quiet, StagedFiles, Stage, disk, Dangling
  <2>5. CASE WriteEdmx(w)
    <3>1. req[w].sha \in Contents
      BY <2>1, <2>5 DEF WriteEdmx, LibraryInv, TypeOK, Capture
    <3> QED
      BY <2>2, <2>3, <2>5, <3>1, DistinctAssumption DEF WriteEdmx, Dangling
  <2>6. CASE RemoveFile(w) \/ FilesRemoved(w)
    BY <2>1, <2>6 DEF RemoveFile, FilesRemoved
  <2>7. CASE WriteToml(w)
    <3>1. /\ pc[w] = "toml" /\ r \in draft[w].rows /\ files[r.file] = NoFile
      BY <2>2, <2>7 DEF WriteToml
    <3>2. /\ DraftFiles(w, draft[w], todo[w] \cup touched[w], "toml") /\ todo[w] = {}
          /\ r.file \in touched[w] => files[r.file] = r.sha
      BY <2>1, <3>1 DEF FilesInv, FilesStaged
    <3> QED
      BY <2>2, <2>3, <3>1, <3>2 DEF DraftFiles, Dangling
  <2> QED
    BY <2>1, <2>4, <2>5, <2>6, <2>7, StepCases
<1> QED
  BY <1>1, LibraryInvariant, LibraryFilesInvariant, PTL DEF Spec, SavesNeverDangle
=============================================================================
