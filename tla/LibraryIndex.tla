---------------------------- MODULE LibraryIndex ----------------------------
(***************************************************************************)
(* The data of connections.toml: the connected profiles, the offline       *)
(* buckets and the rows of cached services, with the lookups that every    *)
(* operation on the offline library shares.  Names, service paths, labels  *)
(* and file contents are opaque values; a content stands for the bytes and *)
(* for their sha256, which the code only ever compares.                    *)
(***************************************************************************)
CONSTANTS
  Names,      \* profile names, connected and offline alike
  Paths,      \* SAP service paths (path A captures)
  Labels,     \* display labels after trimming, capping and derivation
  Contents,   \* possible bytes of an EDMX document
  Ids,        \* service ids: slug plus a hex suffix that is never reissued
  Dirs,       \* bucket directories under {config}/offline
  SlugOf,     \* the lossy slugify: two names may share a directory
  NoSource,   \* the empty source_profile of the Imported kind of bucket
  NoBucket,   \* "this name is not an offline profile"
  NoPath,     \* source_service_path = None (path B rows)
  NoFile      \* the file does not exist

ASSUME SlugAssumption == SlugOf \in [Names -> Dirs]

ASSUME DistinctAssumption ==
  /\ NoSource \notin Names
  /\ NoBucket \notin Names \cup {NoSource}
  /\ NoPath \notin Paths
  /\ NoFile \notin Contents

Files == Dirs \X Ids

\* OfflineService; `source` is a history field, the profile the bytes came from,
\* which the code keeps on the bucket only.
Row == [id               : Ids,
        bucket           : Names,
        label            : Labels,
        labelAtCreation  : Labels,
        path             : Paths \cup {NoPath},
        source           : Names \cup {NoSource},
        file             : Files,
        sha              : Contents]

(***************************************************************************)
(* ConfigFile.  A file that does not exist reads as the empty one.         *)
(***************************************************************************)
Index == [conns   : SUBSET Names,
          buckets : [Names -> Names \cup {NoSource, NoBucket}],
          rows    : SUBSET Row]

EmptyIndex == [conns   |-> {},
               buckets |-> [n \in Names |-> NoBucket],
               rows    |-> {}]

HasBucket(ix, n) == ix.buckets[n] # NoBucket

RowsOf(ix, n) == {r \in ix.rows : r.bucket = n}

\* Mutant: the directory is the bucket's name itself.
EdmxFileUnslugged(bucket, id) == <<bucket, id>>

\* Mutant: one file for all rows of a bucket.
EdmxFileOnePerBucket(bucket, id) == <<SlugOf[bucket], CHOOSE i \in Ids : TRUE>>

EdmxFile(bucket, id) == <<SlugOf[bucket], id>>

\* Mutant: a capture is looked up in every bucket.
SameCaptureAnywhere(r, bucket, path) == r.path = path

(***************************************************************************)
(* The logical identity a save or an import overwrites: the bucket and the *)
(* service path for a capture, the bucket and the label at creation for an *)
(* import.  The two kinds of rows never match each other.                  *)
(***************************************************************************)
SameCapture(r, bucket, path) == r.bucket = bucket /\ r.path = path

SameImport(r, bucket, label) ==
  /\ r.bucket = bucket
  /\ r.path = NoPath
  /\ r.labelAtCreation = label

SameIdentity(r, s) ==
  IF s.path = NoPath THEN SameImport(r, s.bucket, s.labelAtCreation)
                     ELSE SameCapture(r, s.bucket, s.path)
=============================================================================
