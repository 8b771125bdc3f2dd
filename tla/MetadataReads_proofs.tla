------------------------- MODULE MetadataReads_proofs -------------------------
(***************************************************************************)
(* No command takes a bucket to the network, and no read gives the bytes   *)
(* of another service, for any number of writers and readers.  The         *)
(* argument: writers behave as in OfflineLibrary whatever readers do, so   *)
(* no name is ever both a profile and a bucket, and a client is made of    *)
(* one copy of the index, in which the name is a profile; and a file keeps *)
(* the id of its row in its name and agrees with it unless a writer is     *)
(* there.                                                                  *)
(***************************************************************************)
EXTENDS MetadataReads, OfflineLibrary_proofs

(* The steps of readers are stutters of the library. *)
LEMMA ReadsLeaveLibrary == SpecReads => Spec
<1>1. InitReads => Init
  BY DEF InitReads
<1>2. [NextReads]_allVars => [Next]_vars
  <2> SUFFICES ASSUME NextReads PROVE Next \/ UNCHANGED vars
    BY DEF allVars
  <2>1. CASE Write
    BY <2>1 DEF Write
  <2>2. ASSUME NEW r \in Readers, Read(r) PROVE UNCHANGED vars
    BY <2>2 DEF Read, GoLive, ListBucket, FindRow, Refuse, LoadIndex, BuildClient, ReadFile
  <2> QED
    BY <2>1, <2>2 DEF NextReads
<1> QED
  BY <1>1, <1>2, PTL DEF SpecReads, Spec

(* An answer keeps what it says of the index it was made from. *)
ReadsInv == answer = [r \in Readers |-> answer[r]] /\ NoNetworkForBuckets

(* A reader that ends sets its own answer only. *)
LEMMA FinishSetsOwn ==
  ASSUME ReadsInv, NEW r \in Readers, NEW a, Finish(r, a),
         a.kind = "live" => ~a.bucket
  PROVE  ReadsInv'
BY DEF ReadsInv, Finish, NoNetworkForBuckets

(* No command goes to the network for a name that is a bucket when it makes  *)
(* its client, whatever writers did since the name was looked up.            *)
THEOREM NoBucketGoesOnline == SpecReads => []NoNetworkForBuckets
<1>1. InitReads => ReadsInv
  BY DEF InitReads, ReadsInv, NoNetworkForBuckets, NoAnswer
<1>2. NamesDisjoint /\ ReadsInv /\ [NextReads]_allVars => ReadsInv'
  <2> SUFFICES ASSUME NamesDisjoint, ReadsInv, [NextReads]_allVars PROVE ReadsInv'
    OBVIOUS
  <2>1. CASE UNCHANGED answer
    BY <2>1 DEF ReadsInv, NoNetworkForBuckets
  <2>2. ASSUME NEW r \in Readers, NEW q \in Ask, ListBucket(r, q) PROVE ReadsInv'
    BY <2>2, FinishSetsOwn DEF ListBucket
  <2>3. ASSUME NEW r \in Readers, NEW q \in Ask, Refuse(r, q) PROVE ReadsInv'
    BY <2>3, FinishSetsOwn DEF Refuse, Error
  <2>4. ASSUME NEW r \in Readers, BuildClient(r) PROVE ReadsInv'
    <3>1. PICK n \in wanted[r] :
            Finish(r, IF n \in index.conns THEN [kind |-> "live", bucket |-> HasBucket(index, n)]
                      ELSE Error)
      BY <2>4 DEF BuildClient
    <3>2. n \in index.conns => ~HasBucket(index, n)
      BY DEF NamesDisjoint, DisjointNames
    <3> QED
      BY <3>1, <3>2, FinishSetsOwn DEF Error
  <2>5. ASSUME NEW r \in Readers, ReadFile(r) PROVE ReadsInv'
    BY <2>5, FinishSetsOwn DEF ReadFile
  <2> QED
    BY <2>1, <2>2, <2>3, <2>4, <2>5
    DEF NextReads, Write, Read, GoLive, FindRow, allVars, readerVars
<1>3. ReadsInv => NoNetworkForBuckets
  BY DEF ReadsInv
<1> QED
  BY <1>1, <1>2, <1>3, ReadsLeaveLibrary, LibraryNamesDisjoint, PTL DEF SpecReads
-----------------------------------------------------------------------------
(* What writers store, they store under the id it was captured for.         *)
LEMMA WriteGives ==
  ASSUME LibraryInv, FilesInv, ContentsGiven, Write
  PROVE  ContentsGiven' /\ given \subseteq given'
<1>1. PICK w \in Writers : Command(w) \/ Advance(w) \/ IoError(w) \/ Die(w)
  BY DEF Write, Next
<1>2. given' = given \cup {<<x.id, x.sha>> : x \in UNION {draft'[v].rows : v \in Writers}}
  BY DEF Write
<1>3. \A v \in Writers : \A x \in draft'[v].rows : <<x.id, x.sha>> \in given'
  BY <1>2
<1>4. \A x \in index'.rows : <<x.id, x.sha>> \in given'
  <2>1. index' = index \/ index' = draft[w]
    BY <1>1, StepIndex DEF Staged, Stage, disk, WriteToml
  <2> QED
    BY <1>2, <2>1 DEF ContentsGiven
<1>5. ASSUME NEW f \in Files, files'[f] # NoFile
      PROVE  <<f[2], files'[f]>> \in given'
  <2>1. CASE files'[f] = files[f]
    BY <1>2, <1>5, <2>1 DEF ContentsGiven
  <2>2. CASE WriteEdmx(w) /\ files'[f] # files[f]
    <3>1. /\ pc[w] = "edmx" /\ f \in todo[w] /\ files'[f] = req[w].sha
      BY <2>2 DEF WriteEdmx
    <3>2. /\ DraftFiles(w, draft[w], todo[w] \cup touched[w], "edmx")
          /\ CatalogStep(index, draft[w]) /\ Unambiguous(index)
          /\ index \in Index /\ draft[w] \in Index
      BY <3>1 DEF FilesInv, FilesStaged, LibraryInv, DraftsCurrent, TypeOK
    <3>3. PICK x \in draft[w].rows : x.file = f /\ x.sha = req[w].sha
      BY <3>1, <3>2 DEF DraftFiles
    <3>4. x.file = EdmxFile(x.bucket, x.id)
      BY <3>2, CatalogStepUnambiguous DEF Unambiguous, NamedFiles
    <3>5. f[2] = x.id
      BY <3>3, <3>4 DEF EdmxFile
    <3> QED
      BY <1>2, <3>1, <3>3, <3>5 DEF ContentsGiven
  <2>3. CASE RemoveFile(w) /\ files'[f] # files[f]
    BY <1>5, <2>3 DEF RemoveFile, LibraryInv, TypeOK
  <2>4. CASE Quiet(w) \/ StagedFiles(w) \/ FilesRemoved(w) \/ WriteToml(w)
    BY <2>1, <2>4 DEF Quiet, StagedFiles, Stage, disk, FilesRemoved, WriteToml
  <2> QED
    BY <1>1, <2>1, <2>2, <2>3, <2>4, StepCases
<1> QED
  BY <1>2, <1>3, <1>4, <1>5 DEF ContentsGiven

LEMMA WriteKeepsReaders ==
  ASSUME LibraryInv, FilesInv, ReadersInv, Write
  PROVE  ReadersInv'
<1>1. ContentsGiven' /\ given \subseteq given'
  BY WriteGives DEF ReadersInv
<1>2. /\ UNCHANGED <<rpc, row, answer>>
      /\ disturbed' = [r \in Readers |->
           disturbed[r] \/ /\ rpc[r] = "file"
                           /\ \E x \in row[r] : Busy(x) \/ Busy(x)' \/ files'[x.file] # files[x.file]]
  BY DEF Write
<1>3. disturbed' \in [Readers -> BOOLEAN]
  BY <1>2 DEF ReadersInv
<1>4. \A r \in Readers : \A x \in row[r] :
        /\ rpc[r] = "file" /\ ~disturbed'[r] => ~disturbed[r] /\ files'[x.file] = files[x.file]
        /\ rpc[r] = "idle" => (disturbed'[r] <=> disturbed[r])
  BY <1>2 DEF ReadersInv
<1>5. ReadsOwnBytes'
  BY <1>1, <1>2, <1>4 DEF ReadersInv, ReadsOwnBytes
<1> QED
  BY <1>1, <1>2, <1>3, <1>4, <1>5 DEF ReadersInv

(* A reader's step leaves the others alone.                                 *)
LEMMA ReadKeepsReaders ==
  ASSUME LibraryInv, FilesInv, ReadersInv, NEW r \in Readers, Read(r)
  PROVE  ReadersInv'
<1>0. /\ rpc \in [Readers -> {"idle", "client", "file"}] /\ row \in [Readers -> SUBSET Row]
      /\ answer = [s \in Readers |-> answer[s]] /\ disturbed \in [Readers -> BOOLEAN]
      /\ ContentsGiven
  BY DEF ReadersInv
<1>1. UNCHANGED <<index, files, draft, given>>
  BY DEF Read, GoLive, ListBucket, FindRow, Refuse, LoadIndex, BuildClient, ReadFile, vars
<1>2. ContentsGiven'
  BY <1>0, <1>1 DEF ContentsGiven
<1>3. CASE row' = [row EXCEPT ![r] = {}] /\ UNCHANGED disturbed
           /\ (\A s \in Readers \ {r} : rpc'[s] = rpc[s] /\ answer'[s] = answer[s])
           /\ rpc' \in [Readers -> {"idle", "client", "file"}]
           /\ answer' = [s \in Readers |-> answer'[s]]
  <2>1. /\ row' \in [Readers -> SUBSET Row]
        /\ \A s \in Readers : \A x \in row'[s] :
             /\ x \in row[s] /\ row'[s] = row[s] /\ rpc'[s] = rpc[s] /\ answer'[s] = answer[s]
             /\ disturbed'[s] = disturbed[s]
    BY <1>0, <1>3
  <2>2. ReadsOwnBytes'
    BY <1>1, <2>1 DEF ReadersInv, ReadsOwnBytes
  <2> QED
    BY <1>0, <1>1, <1>2, <1>3, <2>1, <2>2 DEF ReadersInv
<1>4. CASE \E q \in Ask : GoLive(r, q) \/ ListBucket(r, q) \/ Refuse(r, q)
  <2>1. row' = [row EXCEPT ![r] = {}] /\ UNCHANGED disturbed
    BY <1>4 DEF GoLive, ListBucket, Refuse
  <2>2. /\ \E a : answer' = answer \/ answer' = [answer EXCEPT ![r] = a]
        /\ \E l \in {"idle", "client"} : rpc' = [rpc EXCEPT ![r] = l]
    BY <1>4 DEF GoLive, ListBucket, Refuse, Finish
  <2> QED
    BY <1>0, <1>3, <2>1, <2>2
<1>5. CASE \E q \in Ask : FindRow(r, q)
  <2>0. PICK q \in Ask : FindRow(r, q)
    BY <1>5
  <2>1. PICK x \in RowsFor(index, q) :
          /\ row' = [row EXCEPT ![r] = {x}] /\ disturbed' = [disturbed EXCEPT ![r] = Busy(x)]
          /\ rpc' = [rpc EXCEPT ![r] = "file"] /\ UNCHANGED answer
    BY <2>0 DEF FindRow
  <2>2. /\ x \in index.rows /\ x \in Row /\ x.file = EdmxFile(x.bucket, x.id)
        /\ ~Busy(x) => files[x.file] = x.sha
    <3>1. x \in index.rows
      BY DEF RowsFor, ByIdOrPath, ByLabel, RowsOf
    <3>2. index.rows \subseteq Row
      BY IndexFields DEF LibraryInv, TypeOK
    <3> QED
      BY <3>1, <3>2 DEF LibraryInv, Unambiguous, NamedFiles, FilesInv, IndexMatchesFiles, Busy
  <2>3. Busy(x) \in BOOLEAN
    BY DEF Busy
  <2> QED
    BY <1>0, <1>1, <1>2, <2>1, <2>2, <2>3 DEF ReadersInv, ReadsOwnBytes
<1>6. CASE BuildClient(r)
  <2>1. /\ rpc[r] = "client" /\ UNCHANGED <<row, disturbed>>
        /\ \E a : Finish(r, a)
    BY <1>6 DEF BuildClient
  <2>2. row[r] = {}
    BY <1>0, <2>1 DEF ReadersInv
  <2> QED
    BY <1>0, <1>1, <1>2, <2>1, <2>2 DEF ReadersInv, ReadsOwnBytes, Finish
<1>7. CASE ReadFile(r)
  <2>1. PICK x \in row[r] :
          /\ rpc[r] = "file" /\ UNCHANGED <<row, disturbed>>
          /\ Finish(r, IF files[x.file] = NoFile THEN [kind |-> "missing"]
                       ELSE [kind |-> "edmx", bytes |-> files[x.file]])
    BY <1>7 DEF ReadFile
  <2> DEFINE a == IF files[x.file] = NoFile THEN [kind |-> "missing"]
                  ELSE [kind |-> "edmx", bytes |-> files[x.file]]
  <2>2. /\ row[r] = {x} /\ x \in Row /\ x.file = EdmxFile(x.bucket, x.id)
        /\ ~disturbed[r] => files[x.file] = x.sha
    BY <1>0, <2>1 DEF ReadersInv
  <2>3. x.file \in Files /\ x.file[2] = x.id /\ x.sha # NoFile
    BY <2>2, DistinctAssumption DEF Row, EdmxFile
  <2>4. /\ a.kind \in {"edmx", "missing"}
        /\ a.kind = "edmx" => <<x.id, a.bytes>> \in given
        /\ ~disturbed[r] => a = [kind |-> "edmx", bytes |-> x.sha]
    BY <1>0, <2>2, <2>3 DEF ContentsGiven
  <2>5. answer' = [answer EXCEPT ![r] = a] /\ rpc' = [rpc EXCEPT ![r] = "idle"]
    BY <2>1 DEF Finish
  <2> HIDE DEF a
  <2>6. ReadsOwnBytes'
    BY <1>0, <1>1, <2>1, <2>2, <2>4, <2>5 DEF ReadersInv, ReadsOwnBytes
  <2> QED
    BY <1>0, <1>1, <1>2, <2>1, <2>5, <2>6 DEF ReadersInv
<1> QED
  BY <1>4, <1>5, <1>6, <1>7 DEF Read

(* A read without a lock gives bytes that were captured for the row it found *)
(* (offline/read.rs), and what the row records unless a writer was there.    *)
THEOREM ReadersGetOwnBytes == SpecReads => []ReadsOwnBytes
<1>1. InitReads => ReadersInv
  <2> SUFFICES ASSUME InitReads PROVE ReadersInv
    OBVIOUS
  <2>1. ContentsGiven
    BY EmptyIndexTyped DEF InitReads, Init, EmptyIndex, ContentsGiven
  <2> QED
    BY <2>1 DEF InitReads, ReadersInv, ReadsOwnBytes
<1>2. LibraryInv /\ FilesInv /\ ReadersInv /\ [NextReads]_allVars => ReadersInv'
  <2> SUFFICES ASSUME LibraryInv, FilesInv, ReadersInv, [NextReads]_allVars PROVE ReadersInv'
    OBVIOUS
  <2>1. CASE UNCHANGED allVars
    BY <2>1 DEF allVars, readerVars, vars, ReadersInv, ContentsGiven, ReadsOwnBytes
  <2>2. CASE NextReads
    BY <2>2, WriteKeepsReaders, ReadKeepsReaders DEF NextReads
  <2> QED
    BY <2>1, <2>2
<1>3. ReadersInv => ReadsOwnBytes
  BY DEF ReadersInv
<1> QED
  BY <1>1, <1>2, <1>3, ReadsLeaveLibrary, LibraryInvariant, LibraryFilesInvariant, PTL DEF SpecReads
=============================================================================
