--------------------------- MODULE OfflineLibrary ---------------------------
(***************************************************************************)
(* The offline library on disk and the writers that change it: threads of  *)
(* the desktop app and CLI runs that save a service, import an EDMX file,  *)
(* delete a service or a bucket, or rewrite the connected profiles.  Every *)
(* one is a transaction under SaveLock: reload connections.toml, decide,   *)
(* change EDMX files, rewrite connections.toml.  A writer may fail at      *)
(* every file operation and die between any two of them.                   *)
(*                                                                         *)
(* The lock is the file connections.toml.lock, which does not know its     *)
(* owner.  Here a stale file is removed only after its creator died; the   *)
(* module SaveLock models the protocol itself and when that fails.         *)
(***************************************************************************)
EXTENDS Naturals, OfflineCatalog

CONSTANTS
  Writers,      \* threads and processes that run transactions
  Valid,        \* the contents validate_edmx accepts
  InitConns,    \* connected profiles at the start
  MaxRequests,  \* bound: operations started
  MaxFaults     \* bound: I/O errors and deaths

ASSUME LibraryAssumption ==
  /\ Valid \subseteq Contents
  /\ InitConns \subseteq Names
  /\ MaxRequests \in Nat
  /\ MaxFaults \in Nat

\* `index` of OfflineCatalog is the file connections.toml itself.
VARIABLES
  files,      \* the EDMX files under {config}/offline
  dirs,       \* the bucket directories that exist
  lock,       \* the lock file: "absent", "held", "abandoned" by a dead writer
  pc,         \* where each writer is
  req,        \* its request
  draft,      \* its ConfigFile after the changes, not yet written
  todo,       \* EDMX files it still has to write or remove
  touched,    \* history: EDMX files it has changed, or passed over, since it took the lock
  torn,       \* history: files touched by a transaction that never wrote the index
  skipped,    \* history: files a delete passed over, since their path did not resolve
  usedIds,    \* history: ids handed out, which the hash never repeats
  requests,   \* counter of MaxRequests
  faults      \* counter of MaxFaults

disk == <<index, files, dirs>>
local == <<req, draft, todo, touched>>
counters == <<usedIds, requests, faults>>
vars == <<index, files, dirs, lock, pc, req, draft, todo, touched, torn, skipped,
          usedIds, requests, faults>>

Capture == [kind : {"save"}, bucket : Names, source : Names,
            path : Paths, label : Labels, sha : Contents]
           \cup [kind : {"import"}, bucket : Names, source : {NoSource},
                 path : {NoPath}, label : Labels, sha : Contents]
Deletion == [kind : {"deleteService"}, bucket : Names, id : Ids]
            \cup [kind : {"deleteBucket"}, bucket : Names]
Connections == [kind : {"connections"}, conns : SUBSET Names]
NoRequest == [kind |-> "none"]
Request == Capture \cup Deletion \cup Connections \cup {NoRequest}

Locations == {"idle", "acquire", "load", "edmx", "remove", "toml", "unlock"}
Inside(w) == pc[w] \in {"load", "edmx", "remove", "toml", "unlock"}

Init ==
  /\ index = [EmptyIndex EXCEPT !.conns = InitConns]
  /\ files = [f \in Files |-> NoFile]
  /\ dirs = {}
  /\ lock = "absent"
  /\ pc = [w \in Writers |-> "idle"]
  /\ req = [w \in Writers |-> NoRequest]
  /\ draft = [w \in Writers |-> EmptyIndex]
  /\ todo = [w \in Writers |-> {}]
  /\ touched = [w \in Writers |-> {}]
  /\ torn = {}
  /\ skipped = {}
  /\ usedIds = {}
  /\ requests = 0
  /\ faults = 0
-----------------------------------------------------------------------------
(***************************************************************************)
(* The commands up to the lock.  Each loads the config first; what it      *)
(* decides from that copy may be out of date when it gets the lock.        *)
(***************************************************************************)
Submit(w, q) ==
  /\ pc[w] = "idle"
  /\ requests < MaxRequests
  /\ requests' = requests + 1
  /\ pc' = [pc EXCEPT ![w] = "acquire"]
  /\ req' = [req EXCEPT ![w] = q]
  /\ UNCHANGED <<disk, lock, draft, todo, touched, torn, skipped, usedIds, faults>>

\* Save for offline from a connected profile; $metadata is fetched before the lock.
SaveServiceOffline(w) ==
  \E bucket \in Names, source \in index.conns, path \in Paths, label \in Labels, sha \in Contents :
    Submit(w, [kind |-> "save", bucket |-> bucket, source |-> source,
               path |-> path, label |-> label, sha |-> sha])

\* Import of an EDMX file into a bucket.
ImportEdmx(w) ==
  \E bucket \in Names, label \in Labels, sha \in Contents :
    Submit(w, [kind |-> "import", bucket |-> bucket, source |-> NoSource,
               path |-> NoPath, label |-> label, sha |-> sha])

\* Delete of one row the user sees listed.
DeleteOfflineService(w) ==
  \E r \in index.rows : Submit(w, [kind |-> "deleteService", bucket |-> r.bucket, id |-> r.id])

\* Remove of a profile, which dispatches on the kind of the name.
RemoveProfile(w) ==
  \E n \in Names :
    IF HasBucket(index, n) THEN Submit(w, [kind |-> "deleteBucket", bucket |-> n])
    ELSE /\ n \in index.conns
         /\ Submit(w, [kind |-> "connections", conns |-> index.conns \ {n}])

\* Add or edit of a connected profile: the name must not be a bucket's.
AddProfile(w) ==
  \E n \in Names :
    /\ n \in index.conns \/ ~HasBucket(index, n)
    /\ Submit(w, [kind |-> "connections", conns |-> index.conns \cup {n}])
-----------------------------------------------------------------------------
Goto(w, location) == pc' = [pc EXCEPT ![w] = location]

\* Mutant: a lock file that exists does not stop the writer.
AcquireLockUnguarded(w) ==
  /\ pc[w] = "acquire"
  /\ lock' = "held"
  /\ Goto(w, "load")
  /\ UNCHANGED <<disk, local, torn, skipped, counters>>

AcquireLock(w) ==
  /\ pc[w] = "acquire"
  /\ lock = "absent"
  /\ lock' = "held"
  /\ Goto(w, "load")
  /\ UNCHANGED <<disk, local, torn, skipped, counters>>

\* LockContention after LOCK_MAX_ATTEMPTS.
GiveUp(w) ==
  /\ pc[w] = "acquire"
  /\ lock # "absent"
  /\ Goto(w, "idle")
  /\ req' = [req EXCEPT ![w] = NoRequest]
  /\ UNCHANGED <<disk, lock, draft, todo, touched, torn, skipped, counters>>

\* Mutant: a lock file is reclaimed whatever its age.
ReclaimAnyLock(w) ==
  /\ pc[w] = "acquire"
  /\ lock # "absent"
  /\ lock' = "absent"
  /\ UNCHANGED <<disk, pc, local, torn, skipped, counters>>

ReclaimStaleLock(w) ==
  /\ pc[w] = "acquire"
  /\ lock = "abandoned"
  /\ lock' = "absent"
  /\ UNCHANGED <<disk, pc, local, torn, skipped, counters>>

(***************************************************************************)
(* Reload under the lock and decide: an early return, or a draft of the    *)
(* index and the EDMX files to write or remove before it is written.       *)
(***************************************************************************)
Return(w) ==
  /\ Goto(w, "unlock")
  /\ UNCHANGED <<disk, lock, local, torn, skipped, counters>>

Stage(w, ix, fs, location) ==
  /\ draft' = [draft EXCEPT ![w] = ix]
  /\ todo' = [todo EXCEPT ![w] = fs]
  /\ Goto(w, location)
  /\ UNCHANGED <<disk, lock, req, touched, torn, skipped, requests, faults>>

Loaded(w, kind) == pc[w] = "load" /\ req[w].kind = kind

\* Mutant: step 3a is left out.
SourceMismatchIgnored(ix, q) == FALSE

\* A capture into a bucket attributed to another connected profile.
SourceMismatch(ix, q) ==
  /\ HasBucket(ix, q.bucket)
  /\ ix.buckets[q.bucket] # NoSource
  /\ ix.buckets[q.bucket] # q.source

\* Mutant: step 3b does not look at the connected profiles.
NameTakenIgnored(ix, bucket) == FALSE

\* The bucket would be new, but a connected profile has its name.
NameTaken(ix, bucket) == ~HasBucket(ix, bucket) /\ bucket \in ix.conns

\* config.offline_profiles after the bucket is found or created.
WithBucket(ix, q) ==
  IF HasBucket(ix, q.bucket) THEN ix.buckets
                             ELSE [ix.buckets EXCEPT ![q.bucket] = q.source]

\* The byte-identical short-circuit: the row claims these bytes and the disk agrees.
Unchanged(r, q) == r.sha = q.sha /\ files[r.file] = q.sha

RowFor(q, id, labelAtCreation, file) ==
  [id |-> id, bucket |-> q.bucket, label |-> q.label, labelAtCreation |-> labelAtCreation,
   path |-> q.path, source |-> q.source, file |-> file, sha |-> q.sha]

\* Mutant: the index is written and the EDMX file is not.
StageNewIndexFirst(w, q) ==
  \E id \in Ids \ usedIds :
    LET row == RowFor(q, id, q.label, EdmxFile(q.bucket, id))
        ix == [index EXCEPT !.buckets = WithBucket(index, q), !.rows = @ \cup {row}]
    IN  /\ Stage(w, ix, {row.file}, "toml")
        /\ usedIds' = usedIds \cup {id}

\* A first save: a fresh id, an EDMX file named after it, a row pushed.
StageNew(w, q) ==
  \E id \in Ids \ usedIds :
    LET row == RowFor(q, id, q.label, EdmxFile(q.bucket, id))
        ix == [index EXCEPT !.buckets = WithBucket(index, q), !.rows = @ \cup {row}]
    IN  /\ usedIds' = usedIds \cup {id}
        /\ Stage(w, ix, {row.file}, "edmx")

\* Mutant: the row is pushed, not replaced.
StageOverPushes(w, q, old) ==
  LET row == RowFor(q, old.id, old.labelAtCreation, old.file)
      ix == [index EXCEPT !.buckets = WithBucket(index, q), !.rows = @ \cup {row}]
  IN  Stage(w, ix, {row.file}, "edmx") /\ UNCHANGED usedIds

\* A re-save: the row found keeps its id, its file and its label at creation.
StageOver(w, q, old) ==
  LET row == RowFor(q, old.id, old.labelAtCreation, old.file)
      ix == [index EXCEPT !.buckets = WithBucket(index, q), !.rows = (@ \ {old}) \cup {row}]
  IN  Stage(w, ix, {row.file}, "edmx") /\ UNCHANGED usedIds

Put(w, q, same) ==
  IF same = {} THEN StageNew(w, q)
  ELSE \E old \in same : IF Unchanged(old, q) THEN Return(w) ELSE StageOver(w, q, old)

LoadSave(w) ==
  /\ Loaded(w, "save")
  /\ LET q == req[w] IN
     IF q.sha \notin Valid \/ SourceMismatch(index, q) \/ NameTaken(index, q.bucket)
     THEN Return(w)
     ELSE Put(w, q, {r \in index.rows : SameCapture(r, q.bucket, q.path)})

LoadImport(w) ==
  /\ Loaded(w, "import")
  /\ LET q == req[w] IN
     IF q.sha \notin Valid \/ NameTaken(index, q.bucket)
     THEN Return(w)
     ELSE Put(w, q, {r \in index.rows : SameImport(r, q.bucket, q.label)})

\* Mutant: the row goes, its file stays.
LoadDeleteServiceKeepsFile(w) ==
  /\ Loaded(w, "deleteService")
  /\ LET found == {r \in index.rows : r.bucket = req[w].bucket /\ r.id = req[w].id} IN
     \/ found = {} /\ Return(w)
     \/ \E r \in found : /\ Stage(w, [index EXCEPT !.rows = @ \ {r}], {}, "remove")
                         /\ UNCHANGED usedIds

LoadDeleteService(w) ==
  /\ Loaded(w, "deleteService")
  /\ LET found == {r \in index.rows : r.bucket = req[w].bucket /\ r.id = req[w].id} IN
     \/ found = {} /\ Return(w)
     \/ \E r \in found : /\ Stage(w, [index EXCEPT !.rows = @ \ {r}], {r.file}, "remove")
                         /\ UNCHANGED usedIds

\* Mutant: the bucket goes, its rows stay.
LoadDeleteBucketKeepsRows(w) ==
  /\ Loaded(w, "deleteBucket")
  /\ LET n == req[w].bucket IN
     IF HasBucket(index, n)
     THEN /\ Stage(w, [index EXCEPT !.buckets[n] = NoBucket],
                   {r.file : r \in RowsOf(index, n)}, "remove")
          /\ UNCHANGED usedIds
     ELSE Return(w)

LoadDeleteBucket(w) ==
  /\ Loaded(w, "deleteBucket")
  /\ LET n == req[w].bucket
         gone == RowsOf(index, n)
         ix == [index EXCEPT !.buckets[n] = NoBucket, !.rows = @ \ gone]
     IN  IF HasBucket(index, n)
         THEN Stage(w, ix, {r.file : r \in gone}, "remove") /\ UNCHANGED usedIds
         ELSE Return(w)

\* save_connections: only the connections table comes from the caller's copy.
LoadConnections(w) ==
  /\ Loaded(w, "connections")
  /\ IF \E n \in req[w].conns : HasBucket(index, n)
     THEN Return(w)
     ELSE /\ Stage(w, [index EXCEPT !.conns = req[w].conns], {}, "toml")
          /\ UNCHANGED usedIds
-----------------------------------------------------------------------------
(***************************************************************************)
(* The EDMX files.  A write goes to a temporary sibling and is renamed, so *)
(* the file changes in one step; only the directory may be left behind.    *)
(***************************************************************************)
WriteEdmx(w) ==
  /\ pc[w] = "edmx"
  /\ files' = [f \in Files |-> IF f \in todo[w] THEN req[w].sha ELSE files[f]]
  /\ dirs' = dirs \cup {f[1] : f \in todo[w]}
  /\ touched' = [touched EXCEPT ![w] = todo[w]]
  /\ todo' = [todo EXCEPT ![w] = {}]
  /\ Goto(w, "toml")
  /\ UNCHANGED <<index, lock, req, draft, torn, skipped, counters>>

\* Mutant: the loop does not get past a file.
RemoveFileAgain(w) ==
  /\ pc[w] = "remove"
  /\ \E f \in todo[w] : files' = [files EXCEPT ![f] = NoFile]
  /\ UNCHANGED <<index, dirs, lock, pc, local, torn, skipped, counters>>

\* The row of a file whose path canonicalize_under cannot resolve, for whatever reason,
\* is dropped all the same; its file stays.
RemoveFile(w) ==
  /\ pc[w] = "remove"
  /\ \E f \in todo[w] :
       /\ \/ files' = [files EXCEPT ![f] = NoFile] /\ UNCHANGED <<skipped, faults>>
          \/ /\ faults < MaxFaults
             /\ faults' = faults + 1
             /\ skipped' = skipped \cup {f}
             /\ UNCHANGED files
       /\ todo' = [todo EXCEPT ![w] = @ \ {f}]
       /\ touched' = [touched EXCEPT ![w] = @ \cup {f}]
  /\ UNCHANGED <<index, dirs, lock, pc, req, draft, torn, usedIds, requests>>

\* remove_dir takes an empty directory only: buckets may share a slug.
RemovableDirs(bucket) ==
  {d \in dirs : d = SlugOf[bucket] /\ \A id \in Ids : files[<<d, id>>] = NoFile}

\* Mutant: remove_dir_all, with the files.
FilesRemovedRecursive(w) ==
  /\ pc[w] = "remove"
  /\ todo[w] = {}
  /\ LET slug == SlugOf[req[w].bucket] IN
     /\ dirs' = dirs \ {slug}
     /\ files' = [f \in Files |-> IF f[1] = slug THEN NoFile ELSE files[f]]
  /\ Goto(w, "toml")
  /\ UNCHANGED <<index, lock, local, torn, skipped, counters>>

\* Then the bucket's directory, which stays if its path does not resolve.
FilesRemoved(w) ==
  /\ pc[w] = "remove"
  /\ todo[w] = {}
  /\ \/ /\ dirs' = IF req[w].kind = "deleteBucket" THEN dirs \ RemovableDirs(req[w].bucket) ELSE dirs
        /\ UNCHANGED faults
     \/ /\ req[w].kind = "deleteBucket" /\ faults < MaxFaults
        /\ faults' = faults + 1
        /\ UNCHANGED dirs
  /\ Goto(w, "toml")
  /\ UNCHANGED <<index, files, lock, local, torn, skipped, usedIds, requests>>

\* The atomic rewrite of connections.toml: the transaction commits.
WriteToml(w) ==
  /\ pc[w] = "toml"
  /\ index' = draft[w]
  /\ torn' = torn \ touched[w]
  /\ touched' = [touched EXCEPT ![w] = {}]
  /\ Goto(w, "unlock")
  /\ UNCHANGED <<files, dirs, lock, req, draft, todo, skipped, counters>>

\* Drop of the lock guard, on every return path.  The removal is best effort: when
\* it fails the file stays behind like that of a dead writer.
Unlock(w) ==
  /\ pc[w] = "unlock"
  /\ \/ lock' = "absent" /\ UNCHANGED faults
     \/ lock' = "abandoned" /\ faults < MaxFaults /\ faults' = faults + 1
  /\ Goto(w, "idle")
  /\ req' = [req EXCEPT ![w] = NoRequest]
  /\ draft' = [draft EXCEPT ![w] = EmptyIndex]
  /\ todo' = [todo EXCEPT ![w] = {}]
  /\ UNCHANGED <<disk, touched, torn, skipped, usedIds, requests>>
-----------------------------------------------------------------------------
\* An I/O error in a read, a write, a removal or remove_dir returns at once; a failed
\* write may have created the directory, and what changed before stays changed.
IoError(w) ==
  /\ pc[w] \in {"load", "edmx", "remove", "toml"}
  /\ faults < MaxFaults
  /\ faults' = faults + 1
  /\ dirs' \in {dirs} \cup (IF pc[w] = "edmx" THEN {dirs \cup {f[1] : f \in todo[w]}} ELSE {})
  /\ torn' = torn \cup touched[w]
  /\ touched' = [touched EXCEPT ![w] = {}]
  /\ Goto(w, "unlock")
  /\ UNCHANGED <<index, files, lock, req, draft, todo, skipped, usedIds, requests>>

\* The writer's process dies; its lock file stays until somebody finds it stale.
Die(w) ==
  /\ pc[w] # "idle"
  /\ faults < MaxFaults
  /\ faults' = faults + 1
  /\ lock' = IF Inside(w) THEN "abandoned" ELSE lock
  /\ torn' = torn \cup touched[w]
  /\ Goto(w, "idle")
  /\ req' = [req EXCEPT ![w] = NoRequest]
  /\ draft' = [draft EXCEPT ![w] = EmptyIndex]
  /\ todo' = [todo EXCEPT ![w] = {}]
  /\ touched' = [touched EXCEPT ![w] = {}]
  /\ UNCHANGED <<disk, skipped, usedIds, requests>>

Command(w) == \/ SaveServiceOffline(w) \/ ImportEdmx(w) \/ DeleteOfflineService(w)
              \/ RemoveProfile(w) \/ AddProfile(w)

Load(w) == \/ LoadSave(w) \/ LoadImport(w) \/ LoadDeleteService(w)
           \/ LoadDeleteBucket(w) \/ LoadConnections(w)

Change(w) == WriteEdmx(w) \/ RemoveFile(w) \/ FilesRemoved(w) \/ WriteToml(w)

Advance(w) == \/ AcquireLock(w) \/ GiveUp(w) \/ ReclaimStaleLock(w)
              \/ Load(w) \/ Change(w) \/ Unlock(w)

Next == \E w \in Writers : Command(w) \/ Advance(w) \/ IoError(w) \/ Die(w)

Spec == Init /\ [][Next]_vars

(* A writer that runs keeps running: the transaction is straight-line code  *)
(* and the wait for the lock is bounded by LOCK_MAX_ATTEMPTS.               *)
FairSpec == Spec /\ \A w \in Writers : WF_vars(Advance(w))
-----------------------------------------------------------------------------
(* Types, and that only a save or an import ever gets to writing an EDMX     *)
(* file.                                                                     *)
TypeOK ==
  /\ index \in Index
  /\ files \in [Files -> Contents \cup {NoFile}]
  /\ dirs \subseteq Dirs
  /\ lock \in {"absent", "held", "abandoned"}
  /\ pc \in [Writers -> Locations]
  /\ req \in [Writers -> Request]
  /\ \A w \in Writers : pc[w] = "edmx" => req[w] \in Capture
  /\ draft \in [Writers -> Index]
  /\ todo \in [Writers -> SUBSET Files]
  /\ touched \in [Writers -> SUBSET Files]
  /\ torn \cup skipped \subseteq Files
  /\ usedIds \subseteq Ids
  /\ requests \in 0 .. MaxRequests
  /\ faults \in 0 .. MaxFaults

(***************************************************************************)
(* Why it works: one writer at a time is inside the lock, and the draft it *)
(* is about to commit is one catalog operation away from the index as it   *)
(* is now, not as it was when the command started.                         *)
(***************************************************************************)
OneHolder ==
  /\ \A v, w \in Writers : Inside(v) /\ Inside(w) => v = w
  /\ \A w \in Writers : Inside(w) => lock = "held"

RowIds(ix) == {r.id : r \in ix.rows}

IdsAccounted ==
  /\ RowIds(index) \subseteq usedIds
  /\ \A w \in Writers : RowIds(draft[w]) \subseteq usedIds

DraftsCurrent ==
  \A w \in Writers : pc[w] \in {"edmx", "remove", "toml"} => CatalogStep(index, draft[w])

(* No lost update: whatever a writer is about to commit was computed from    *)
(* the connections.toml it replaces, and that file is unambiguous.           *)
LibraryInv ==
  TypeOK /\ Unambiguous(index) /\ OneHolder /\ IdsAccounted /\ DraftsCurrent

(***************************************************************************)
(* The same for the EDMX files: what a writer holds back from the index is  *)
(* all in its draft, and the draft differs from the index only in rows of   *)
(* files that the writer has changed or is about to change.                 *)
(***************************************************************************)
Attributed(ix) == \A r \in ix.rows : \/ r.path = NoPath
                                      \/ ix.buckets[r.bucket] \in {NoSource, r.source}

\* A draft and the files to change before it is written, once they are decided on.
DraftFiles(w, ix, fs, location) ==
  /\ Attributed(ix)
  /\ \A r \in Row : r.file \notin fs => (r \in ix.rows <=> r \in index.rows)
  /\ \A r \in index.rows : r.file \in fs => req[w].bucket = r.bucket
  /\ fs # {} => req[w].kind \notin {"none", "connections"}
  /\ location = "edmx" => /\ \A r \in ix.rows : r.file \in fs => r.sha = req[w].sha
                          /\ \A f \in fs : \E r \in ix.rows : r.file = f
  /\ location = "remove" => \A r \in ix.rows : r.file \notin fs

FilesStaged ==
  \A w \in Writers :
    /\ pc[w] \in {"edmx", "remove", "toml"} =>
         /\ DraftFiles(w, draft[w], todo[w] \cup touched[w], pc[w])
         /\ \A r \in draft[w].rows : r.file \in touched[w] => files[r.file] = r.sha
         /\ \A f \in touched[w] : files[f] = NoFile \/ f \in skipped \/ \E r \in draft[w].rows : r.file = f
    /\ pc[w] \notin {"remove", "toml"} => touched[w] = {}
    /\ pc[w] = "toml" => todo[w] = {}

(* The transactions implement the catalog: every change of connections.toml *)
(* is one whole catalog operation on the value it replaces, whatever other   *)
(* writers, I/O errors and deaths come between reload and rewrite.           *)
ImplementsCatalog == CatalogSpec

(* A bucket attributed to a connected profile holds captures of that profile  *)
(* only, whatever bucket of its name was deleted and created before.          *)
AttributedBucketsKeepSource == Attributed(index)

(* Every row's EDMX file holds the bytes whose hash the row records, except  *)
(* while a transaction has changed the file and not yet the index, or after  *)
(* one died or failed in between.                                            *)
InFlight == UNION {touched[w] : w \in Writers}
IndexMatchesFiles ==
  \A r \in index.rows : r.file \in InFlight \cup torn \/ files[r.file] = r.sha

(* An EDMX file no row points at was left behind by a transaction that broke *)
(* off between the file and the index, or by a delete that dropped its row   *)
(* though the path did not resolve: nothing else leaks files, even where two *)
(* buckets share a directory.                                                *)
OrphansExplained ==
  \A f \in Files : \/ files[f] = NoFile
                   \/ f \in InFlight \cup torn \cup skipped
                   \/ \E r \in index.rows : r.file = f

(* Files and index agree, and stay so whatever step comes next.              *)
FilesInv ==
  /\ FilesStaged
  /\ AttributedBucketsKeepSource
  /\ IndexMatchesFiles
  /\ OrphansExplained

(* A step changes an EDMX file only for the bucket some running request      *)
(* names; the cached services of every other bucket keep their bytes.        *)
OtherBucketsUntouched ==
  [][\A r \in index.rows :
        files'[r.file] # files[r.file] =>
          \E w \in Writers : req[w].kind \notin {"none", "connections"} /\ req[w].bucket = r.bucket]_vars

(* The write order of a save never makes the index point at a file that does *)
(* not exist: only a running delete takes the file of an indexed row away.   *)
Dangling == {r \in index.rows : files[r.file] = NoFile}
SavesNeverDangle ==
  [][\A r \in index'.rows :
        files'[r.file] = NoFile => \/ \E s \in Dangling : s.file = r.file
                                  \/ \E w \in Writers : pc[w] = "remove"]_vars

(* The transactions take the lock that SaveLock implements: whatever fails   *)
(* or dies, its file tells whether somebody is inside, and a file left       *)
(* behind is not taken away under a living writer.                           *)
Insiders == {w \in Writers : Inside(w)}
Promised == INSTANCE WriterLock WITH Users <- Writers, holders <- Insiders
TakesLock == Promised!Spec

(* Every command that asked for the lock returns to its caller.              *)
CommandsReturn == \A w \in Writers : pc[w] = "acquire" ~> pc[w] = "idle"

(* storage.rs: a process death must not leave the index pointing at a file   *)
(* that does not exist.                                                      *)
NoDanglingAfterDeath ==
  (\A w \in Writers : ~Inside(w)) => Dangling = {}
=============================================================================
