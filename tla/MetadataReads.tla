--------------------------- MODULE MetadataReads ---------------------------
(***************************************************************************)
(* The commands that read metadata, beside the writers of OfflineLibrary.  *)
(* A reader takes no lock.  It loads connections.toml, decides from that   *)
(* copy whether the name stands for a live system or for a bucket          *)
(* (MetadataSource::resolve), and later loads it again to make a client,   *)
(* or opens the EDMX file that the copy names.                             *)
(***************************************************************************)
EXTENDS OfflineLibrary

CONSTANTS
  Readers,   \* commands of the desktop and of the CLI that read
  MaxReads   \* bound: reads started

ASSUME ReadsAssumption == MaxReads \in Nat

VARIABLES
  rpc,        \* where each reader is: "idle", "client", "file"
  wanted,     \* the profile it makes a client for, as a set of at most one
  row,        \* the row it found, as a set of at most one
  answer,     \* its last answer
  disturbed,  \* history: a writer has been at its row since it loaded the index
  given,      \* history: <<id, contents>> some capture wanted to store
  reads       \* counter of MaxReads

readerVars == <<rpc, wanted, row, answer, disturbed, given, reads>>
allVars == <<vars, readerVars>>

(* "services" lists, "metadata" reads, "query" needs the system.  A service *)
(* is asked for by its id, by its path, or -- CLI only -- by its label.     *)
Ask == [by : {"desktop", "cli"}, what : {"services", "metadata", "query"},
        name : Names, ident : Ids \cup Paths \cup Labels]
NoAnswer == [kind |-> "none"]
Error == [kind |-> "error"]

InitReads ==
  /\ Init
  /\ rpc = [r \in Readers |-> "idle"] /\ wanted = [r \in Readers |-> {}]
  /\ row = [r \in Readers |-> {}] /\ answer = [r \in Readers |-> NoAnswer]
  /\ disturbed = [r \in Readers |-> FALSE]
  /\ given = {} /\ reads = 0

-----------------------------------------------------------------------------
(* Where a name leads, in one copy of the index. *)

Connected(ix, q) == q.name \in ix.conns
Collision(ix, q) == Connected(ix, q) /\ HasBucket(ix, q.name)

(* The desktop refuses a name that is in both tables; the CLI takes it for *)
(* the connected profile.                                                  *)
Source(ix, q) ==
  IF q.by = "desktop" /\ Collision(ix, q) THEN "none"
  ELSE IF Connected(ix, q) THEN "live"
  ELSE IF HasBucket(ix, q.name) THEN "bucket" ELSE "none"

(* A row by id or path; failing that the CLI takes a label no two rows have. *)
ByIdOrPath(ix, q) == {x \in RowsOf(ix, q.name) : x.id = q.ident \/ x.path = q.ident}
ByLabel(ix, q) == {x \in RowsOf(ix, q.name) : x.label = q.ident}
RowsFor(ix, q) ==
  IF ByIdOrPath(ix, q) # {} THEN ByIdOrPath(ix, q)
  ELSE IF q.by = "cli" /\ (\A x, y \in ByLabel(ix, q) : x = y) THEN ByLabel(ix, q) ELSE {}

(* A writer is between an EDMX file and the index, or was when it failed.   *)
Busy(x) == x.file \in InFlight \cup torn

Finish(r, a) == /\ rpc' = [rpc EXCEPT ![r] = "idle"]
                /\ answer' = [answer EXCEPT ![r] = a]

(* The first load, and what the copy says. *)
LoadIndex(r, q) ==
  /\ rpc[r] = "idle" /\ reads < MaxReads
  /\ reads' = reads + 1
  /\ UNCHANGED <<vars, given>>

GoLive(r, q) ==
  /\ LoadIndex(r, q) /\ Source(index, q) = "live"
  /\ wanted' = [wanted EXCEPT ![r] = {q.name}]
  /\ rpc' = [rpc EXCEPT ![r] = "client"] /\ row' = [row EXCEPT ![r] = {}]
  /\ UNCHANGED <<answer, disturbed>>

(* get_services, render_offline_services: the rows of the bucket. *)
ListBucket(r, q) ==
  /\ LoadIndex(r, q) /\ Source(index, q) = "bucket" /\ q.what = "services"
  /\ Finish(r, [kind |-> "rows", rows |-> RowsOf(index, q.name)])
  /\ row' = [row EXCEPT ![r] = {}] /\ UNCHANGED <<wanted, disturbed>>

FindRow(r, q) ==
  /\ LoadIndex(r, q) /\ Source(index, q) = "bucket" /\ q.what = "metadata"
  /\ \E x \in RowsFor(index, q) :
       /\ row' = [row EXCEPT ![r] = {x}]
       /\ disturbed' = [disturbed EXCEPT ![r] = Busy(x)]
  /\ rpc' = [rpc EXCEPT ![r] = "file"] /\ UNCHANGED <<wanted, answer>>

(* No such name, two tables, no such row, or a query of a bucket. *)
Refuse(r, q) ==
  /\ LoadIndex(r, q)
  /\ \/ Source(index, q) = "none"
     \/ Source(index, q) = "bucket" /\ q.what = "query"
     \/ Source(index, q) = "bucket" /\ q.what = "metadata" /\ RowsFor(index, q) = {}
  /\ Finish(r, Error) /\ row' = [row EXCEPT ![r] = {}] /\ UNCHANGED <<wanted, disturbed>>

(* client_from_profile, resolve_connection: the profile as it is now. *)
BuildClient(r) ==
  /\ rpc[r] = "client"
  /\ \E n \in wanted[r] :
       Finish(r, IF n \in index.conns THEN [kind |-> "live", bucket |-> HasBucket(index, n)]
                 ELSE Error)
  /\ wanted' = [wanted EXCEPT ![r] = {}]
  /\ UNCHANGED <<vars, row, disturbed, given, reads>>

(* read_offline_metadata: the file the copy named, as it is now. *)
ReadFile(r) ==
  /\ rpc[r] = "file"
  /\ \E x \in row[r] :
       Finish(r, IF files[x.file] = NoFile THEN [kind |-> "missing"]
                 ELSE [kind |-> "edmx", bytes |-> files[x.file]])
  /\ UNCHANGED <<vars, wanted, row, disturbed, given, reads>>

(* A writer's step, as far as readers are concerned. *)
Write ==
  /\ Next
  /\ disturbed' = [r \in Readers |->
        disturbed[r] \/ /\ rpc[r] = "file"
                        /\ \E x \in row[r] : Busy(x) \/ Busy(x)' \/ files'[x.file] # files[x.file]]
  /\ given' = given \cup {<<x.id, x.sha>> : x \in UNION {draft'[w].rows : w \in Writers}}
  /\ UNCHANGED <<rpc, wanted, row, answer, reads>>

Read(r) ==
  \/ \E q \in Ask : GoLive(r, q) \/ ListBucket(r, q) \/ FindRow(r, q) \/ Refuse(r, q)
  \/ BuildClient(r) \/ ReadFile(r)
NextReads == Write \/ \E r \in Readers : Read(r)
SpecReads == InitReads /\ [][NextReads]_allVars

-----------------------------------------------------------------------------
(* No command goes to the network for a name that is a bucket when it makes *)
(* its client, whatever the name was when the command looked it up and      *)
(* whatever writers did in between (offline/mod.rs: "Fail-closed for name   *)
(* collisions", "the no-network guarantee").                                *)
NoNetworkForBuckets ==
  \A r \in Readers : answer[r].kind = "live" => ~answer[r].bucket

(* A read without a lock gets bytes that were captured for the very row it  *)
(* found, never those of another service; they are the bytes the row        *)
(* records, and the file is there, unless a writer was at that row while    *)
(* the read was under way or had died there before.                         *)
ReadsOwnBytes ==
  \A r \in Readers : \A x \in row[r] :
    rpc[r] = "idle" =>
      /\ answer[r].kind \in {"edmx", "missing"}
      /\ answer[r].kind = "edmx" => <<x.id, answer[r].bytes>> \in given
      /\ ~disturbed[r] => answer[r] = [kind |-> "edmx", bytes |-> x.sha]

(* Why it works: every content that a draft, a row or a file has was wanted  *)
(* for its id, a file has its row's id in its name, and until a writer comes *)
(* to a row that was found, its file holds what the row records.             *)
ContentsGiven ==
  /\ \A w \in Writers : \A x \in draft[w].rows : <<x.id, x.sha>> \in given
  /\ \A x \in index.rows : <<x.id, x.sha>> \in given
  /\ \A f \in Files : files[f] # NoFile => <<f[2], files[f]>> \in given

ReadersInv ==
  /\ rpc \in [Readers -> {"idle", "client", "file"}]
  /\ row \in [Readers -> SUBSET Row]
  /\ answer = [r \in Readers |-> answer[r]]
  /\ disturbed \in [Readers -> BOOLEAN]
  /\ ContentsGiven
  /\ \A r \in Readers : \A x \in row[r] :
       /\ row[r] = {x} /\ rpc[r] # "client"
       /\ x.file = EdmxFile(x.bucket, x.id)
       /\ rpc[r] = "file" /\ ~disturbed[r] => files[x.file] = x.sha
  /\ ReadsOwnBytes
=============================================================================
