# Verification of SAP OData Explorer

TLA+ models of the parts of SAP OData Explorer where an order of events, or of
the parts of a document, can go wrong; TLC runs that check them on small
instances; and TLAPS proofs of what holds for every instance. Source paths
below are relative to the repository.

    tlc -config OfflineLibrary.cfg MCOfflineLibrary          # a run
    tlapm TabRequests_proofs.tla                             # a proof

`PROJECT.json` lists the components, the runs, the code each definition stands
for, the hazards each property is for, and the theorems.

## 1. Inventory

The program is a Rust core library (`crates/core`), a command line
(`crates/cli`), and a Tauri desktop app (`tauri-app/src-tauri`, the backend
commands, and `tauri-app/src`, the JavaScript front end). It reads OData
services of SAP systems, and keeps `$metadata` documents for offline use.

| Component | State it keeps | Operations | Talks to | What is hard | What makes it correct |
|---|---|---|---|---|---|
| Offline library (`core/offline/{save,import_file,delete}.rs`) | rows and buckets in `connections.toml`, EDMX files, bucket directories | save, import, delete service, delete bucket | config store, storage, lock; called by desktop commands and CLI | several processes, stale copies of the config, I/O errors and deaths between file and index | an index that is never ambiguous; rows whose identity is frozen; files that agree with rows |
| Save lock (`core/offline/save.rs`, `SaveLock`) | a mutex per process, the file `connections.toml.lock` | acquire, reclaim, Drop | file system | waiters that race for a stale file, slow holders, deaths | one holder; every acquire ends |
| Config store (`core/config.rs`) | `connections.toml`, the OS keyring, `config.toml` | load, save_connections, keyring with plaintext fallback, carry-over of credentials, portable set-up | lock, keyring, session store | two writers of whole tables; keyring, sessions and file changed apart; any of the three may fail | plaintext only by consent; no credential lost or left behind |
| Storage (`core/offline/{storage,paths}.rs`) | temporary siblings | atomic write and rename, boot sweep, safe join | file system | a death between write and rename, a sweep beside a writer | files change in one step; the sweep takes only leftovers |
| Offline readers (`core/offline/{read,mod}.rs`) | none | resolve a name, list, read metadata | index and files without the lock; the client for live names | a name that changes its meaning, a file replaced or deleted between index and read | a read fails cleanly or is of its own row; a bucket never goes to the network |
| EDMX import (`core/offline/{import,url_sanitize}.rs`) | none | validate, derive label, clean URLs | – | – | refuses what is not an EDMX document |
| HTTP client (`core/{client,auth,sspi,diagnostics}.rs`) | `session_established`, cookie jar, trace ring | preflight, get, redirects by hand, error and hint | SAP system, identity provider | a logon that expires between requests, answers that say less than they mean, redirect loops | a verdict that is true of the system; an end to every command |
| Browser session (`core/session.rs`, sign-in in `main.rs`) | sessions in memory and in the keyring | sign in, sign out, load, clear | sign-in window, client | a window that outlives its profile; a stored session read by name | no session without its profile and system |
| Desktop backend (`src-tauri/src/main.rs`) | browser sessions in memory | the commands the front end invokes | all of the core | commands run beside each other | – |
| Command line (`cli/src/main.rs`) | none | the same operations as another process | core | runs beside the desktop app | – |
| Desktop tabs and requests (`tauri-app/src/{api,tabs,state,services,executor,resultCache,auth,app}.js`) | tabs, the mirrors of the active one, generations of requests | every command of a tab | backend commands, views | answers in any order after tab, profile, service and entity changes | an answer lands only where it belongs |
| History and favorites (`history.js`, `favorites.js`) | lists in localStorage | add, replay, star | tabs | a replay that waits for a describe | bounded lists, replay in its own context |
| Views (`results.js`, `describe.js`, ...) | none of their own | rendering | tabs | – | – |
| Catalog (`core/catalog.rs`) | none | read two catalogs, list, resolve a name | client | one catalog fails, lists a name twice, or gives no URL | the name resolves to what the list shows |
| Query builder (`core/query.rs`) and pager (`format.js`, `results.js`, `executor.js`) | the page on screen | literal, key, filter, list and search encoding; next and previous page | client, CLI, desktop | two levels of escapes; pages cut by `$top` and by the service | the service reads what was meant; pages meet |
| Metadata parser (`core/metadata`) | the model of a document | parse types, merge annotations, labels, inheritance | readers, lint, views | annotations in any schema, any order, twice or qualified | what the document says, wherever it says it |
| Fiori lint (`core/lint`) | none | profile, rules, exit code | parser, CLI, desktop | over two dozen rules over optional parts; filters after the verdict | a clean exit vouches for the views |

The hazards, line by line with the properties that catch them, are in
`PROJECT.json`; a hazard without a property says what is missing.

## 2. Modules

| Module | What it is |
|---|---|
| `LibraryIndex` | the data of `connections.toml` and the lookups all operations share |
| `OfflineCatalog` | **abstract specification**: the index changes by one whole operation at a time |
| `OfflineLibrary` | the transactions under the lock, with files, I/O errors and deaths; implements `OfflineCatalog`, takes `WriterLock` |
| `WriterLock` | **abstract specification**: the lock that the transactions take, and who is inside |
| `SaveLock` | the lock protocol itself; implements `WriterLock` until a waiter races |
| `TabRequests` | the tabs of the desktop app and late answers |
| `MetadataReads` | the commands that read, beside the writers of `OfflineLibrary`, which it extends |
| `ProfileStore` | connected profiles, keyring and sessions under commands of the desktop and the CLI |
| `GatewayCall` | **abstract specification**: what one command against a SAP system promises |
| `SapAnswers`, `ServiceCatalog` | what the client makes of an answer; the list and the resolution of services |
| `SapSession` | one client with preflight, redirects, errors, hints and trace; implements `GatewayCall` |
| `MetadataModel`, `AnnotationMerge`, `FioriLint` | the parsed model, the merge of annotations, the lint rules, as operators |
| `MetadataCommands` | a document read pass by pass, and `lint` on the result |
| `QueryBuilder`, `QueryPages` | URLs, and a service's reading of them; query bar, pager, picker and CLI |
| `MC*` | constants for TLC |
| `*_proofs` | theorems about `OfflineLibrary` (with `OfflineCatalog`), `SaveLock`, `TabRequests`, `ProfileStore`, `MetadataReads`, `SapSession`, `MetadataCommands`, `QueryPages` |

### Offline library

`index` is the file `connections.toml`; `files` and `dirs` are what is under
`{config}/offline`; `lock` is the lock file. A writer (a thread of the desktop
app or a CLI run) has a program counter, its request and its `draft`, the
`ConfigFile` it will write. The command (`SaveServiceOffline`, `ImportEdmx`,
`DeleteOfflineService`, `RemoveProfile`, `AddProfile`) reads the index before it
has the lock, so what it asks for may be out of date. Under the lock a `Load*`
action reloads and decides, in the order of the code: validation, the source
check (save.rs step 3a), the name check (3b), the row of the same identity, the
byte-identical short-circuit. Then the EDMX files change (`WriteEdmx`, or
`RemoveFile` once per file and `FilesRemoved` for the directory), and
`WriteToml` commits. `IoError` may come at each of these steps and returns at
once, `Die` takes the process; both leave the disk as it is. `torn` remembers
the files they left changed.

Abstracted: names, paths, labels and contents are opaque values. `SlugOf` stands
for `slugify`, which is lossy, so that two buckets may share a directory. `Ids`
are a slug with a random suffix and never come twice (`usedIds`). The `source`
of a row is a history field: the code records it on the bucket only. A write to
a temporary sibling and the rename are one step, because nothing reads the
temporary file. A delete passes over a file whose path does not resolve, or is
refused, and drops its row all the same; `skipped` remembers the file, which stays.

In this module a lock file is reclaimed only after its writer died or failed to
remove it. `WriterLock` states that as a contract of three steps, enter, leave and
reclaim, over the state of the lock file and who is inside. The library counts on it
(`TakesLock`), and `SaveLock` keeps it until a waiter races (`ImplementsLock`): with
the contract the library is correct, and the run `save_lock_exclusion` shows where
the protocol breaks it.

### Save lock

One action per step of `SaveLock::acquire`: the process mutex, `create_new`, the
look at the age, `remove_file` by name, the sleep, and the two steps of Drop.
`Tick` is one sleep of 50 ms; `StaleAfter` is 30 s in that unit (600) and
`MaxAttempts` is 100, of which the runs keep the order, 3 and 2.
`PromptHolders` assumes that a living holder is done before its file is stale.
`seen` are the waiters that have found the present file stale, and `raced`
remembers that one removed another file than that. `LockNow` and `Holding` are what
`WriterLock` sees: no file, a file of somebody inside, or one that was left behind.

### Tabs and requests

`view[t]` holds the fields of a tab object, `mirror` the fields of `state` that
stand for the active tab and what is on screen. Each asynchronous command of the
front end is two actions: the code up to its `await` (`SearchCatalog`,
`ResolveService`, `LoadService`, `SelectEntity`, `ExecuteQuery`,
`LoadRowNavigation`, `RemoveProfile`) and the code after it (`Got*`,
`QueryError`, `ProfileRemoved`, `ProfileError`), with `Drop` for an error or for
`if (!scope.active()) return`. A command with two awaits has three actions.
JavaScript runs each of them without interruption, so an action is atomic, and
between them anything may happen. `current` holds the commands whose captured
generation is still that of their tab, which is what `tabScope` compares; a bump
(`Outdated`) takes those of its level and the inner ones out. `TraceTo` is the
trace `timedInvoke` files before the command goes on.

`sidebarOf` is the profile whose services or entity sets the sidebar lists.
`ShowCatalog` shows a list, or the note that it is empty, which keeps the result.

Abstracted: the sidebar is what it lists, answers are named by what was asked
for, and any command may fail. `ProfileSwitchWins` is about the catalog, the
sidebar, the rows and the describe info; the HTTP trace has a run of its own
(`tab_requests_latetrace`), and of related rows nothing is stated. `nested` is the tab whose related rows are on
screen. The list that `get_profiles` returns is taken as it is when it lands.
Only the commands that change what a tab keeps are there; see section 6.

### Metadata reads

`MetadataReads` adds readers to `OfflineLibrary`; writers and readers share the
index and the files. A read is `LoadIndex` and the branch that
`MetadataSource::resolve` takes in that copy (`GoLive`, `ListBucket`, `FindRow`,
`Refuse`); then `BuildClient` loads the configuration again for a live name, or
`ReadFile` opens the file the copy named. `disturbed` remembers that a writer was
at the reader's row in between. The contents of an answer are compared with what
was captured for the row, not with what the index says, which is the promise a
reader of the program has. A path check that fails is the missing file.

### Profiles

The stores are `connections` (the table of the file), `keyring`, `persisted`
(sessions in the keyring) and `memory` (sessions of the desktop process). A
command loads the file when it begins, decides what it has to do (`todo`) and
which table it will write (`draft`), and then takes one step per store operation,
in the order of the code, since each may fail and others may run in between. The
steps are shared by the commands as the operations are in `config.rs` and
`session.rs`. Names, systems, languages and users are opaque; `target` stands for
the URL and client that `same_session_target` compares; `plain` is the user whose
password the file holds. `Blank` is an empty user field, under which
`profile add --password` stores a password too. `consented` is a history of what
users agreed to, `abandoned` of the passwords whose profile the wizard has replaced.
`CredentialsBelong` says nothing of these two kinds of entries (`Tracked`), which
do stay behind, nor of the sessions in memory, nor of commands that overlap or fail.
Only the CLI looks a session up in the keyring when it makes a client
(`MakeClient`); the desktop looks into its memory, which changes nothing.
`save_connections` is one step, for it has the save lock.

### Client

`SapSession` is one `SapClient` under each program of CLI and desktop: test,
list, resolve, metadata, query, and their sequences. `Send` is a preflight until
`established`, else the request; `Answered` lets the system and the identity
provider say anything they may at `logon` and `registered`: a system that has not
looked at the logon may answer 403, 404 or 500 to anybody, an unregistered path is
404 or 403, and so is a set or a key that a service does not have (`Inner`). With
`front`, a proxy or an error handler before the system answers what it likes, with
an HTML page or without. `FollowRedirect`,
`PreflightEnds`, `RequestEnds`, `BodyFails` and `Lost` are the branches of
`ensure_session`, `send_with_sso_redirects` and `read_text_response`.
`SapAnswers` has the errors and hints in the order of the tests of
`response_error` and `response_hint`. The user's logon may come and go at any
time. `GatewayCall` sees nothing of this: a command starts, ends with a verdict,
and the verdict has to be true of what the system was while the command ran. It
names what it does not promise: a page of the `front` may be taken for a logon page
or a missing service, a 404 for a set or key inside a service is reported as a
missing service, a refusal may mean that there was no Windows ticket, and nothing is
said of "connected". `ConnectedMeansLoggedOn` and `HtmlMeansSessionGone` state what
the comments of the code say of the last and the first of these (section 4). The
refinement needs no mapping beyond `running`, which is `todo # <<>>`. A body is
known by what the code searches it for. The trace ring has 2 places instead of
64, ids wrap at 3 instead of 2^64, and redirects end after 2 hops instead of 10.

### Metadata and lint

A document is types with their own properties, sets, inline `sap:*` attributes
and a sequence of notes, one per annotation, spread over schemas. `ReadNote`
applies a note the way `annotations.rs` does to its slots: replace, keep the
first, accumulate, prefer the unqualified; a currency without a path and a
capability flag without a value empty the slot (`Empties`). A presentation variant,
also one inside a `SelectionPresentationVariant`, is a note per part. `ReadModel`, `EndSchema` and
`Finished` are the passes of `parse_metadata`: the types, type-level arrangements
at the end of each schema, then labels, then inheritance by copying. `Lint` is `cmd_lint` with each rule a
condition on the model. The properties are stated on the document, with
definitions that know nothing of passes, but for two things the code does not do:
an arrangement default reaches the texts given up to the end of its schema, and a
restriction counts where its property is declared (section 4). `AnnotationPaths` are the paths with an `@`, which the lint accepts
unread. Terms with the same shape of payload and
the same rule of merging share their operators; the payload of a note is its
paths and one mark.

### Queries and pages

A text is a sequence of `Symbols`, of which the special ones have a meaning in a
URL or in OData; `Code` gives each of these its percent-code, which no text a user
types has as one symbol. `Numeral` writes the numbers up to `RowCount + Largest`. `Build` writes as `query.rs`
does, and the reading operators (`ValuesOf`, `Decoded`, `Inner`, `Operands`) are
those of a server, which splits before it decodes. `QueryPages` has the bar, the
newest query, the page on screen with what the pager believes of it (`PagingInfo`
of `format.js`), and what it really is (`from`, `to`, and the filter it came with).
A service answers a filter with `Matching` rows, so that a filter edited between two
pages makes them pages of different lists; its tokens are row offsets, numbers that
are none, or keys. `PagesMeet` compares pages of one filter, and what a search text
arrives as is said for V4 only where it has no quote inside. One-shot requests, which
leave no state, are sent while the bar is empty, and the bar is edited while no
query waits: both commute with the rest.

## 3. Runs

`pass` runs are exhaustive; their bounds are the constants `Max*`.

| Run | Question | Instance |
|---|---|---|
| `offline_library` | index invariants, files against rows, identity, foreign buckets; does the library implement the catalog, and take the lock as `WriterLock` has it; does every command return | 2 writers, 1 connected profile, 2 buckets in one directory, 2 contents, 3 ids; 3 operations, 1 fault |
| `save_lock` | who may hold the lock together; does the file implement `WriterLock` until a race; does every acquire end | 2 desktop threads and a CLI run; 4 acquires, 2 faults |
| `tab_requests_onetab` | does a late answer land in a tab that has moved on | 1 tab, 2 profiles, 2 services that share an entity set name, 2 searches; 4 commands |
| `tab_requests_tabs` | tab switches while answers come | 2 tabs, 2 profiles, 1 service; 3 commands |
| `metadata_reads` | does a lock-free read return another service's bytes, or take a bucket to the network | the library with 2 names in one directory, 2 valid contents and an invalid one, 2 ids, 3 operations, 1 fault; 1 reader, 1 read |
| `profile_store` | do credentials and sessions follow profiles through failures and overlaps | 1 name, 2 systems, 2 languages, 2 users and none, 8 dialog contents; main thread, async command and a CLI run; 4 commands, 2 faults |
| `sap_session` | is every verdict and hint true, and every preview of its own response; does every command end | 3 authentications, 7 programs, every kind of answer, with and without a proxy in front, 2 pairs of catalogs, 1 change of the logon, 1 command |
| `fiori_metadata` | does the order of a document matter; what does a clean lint exit promise | a base type and a derived one with a set each, 40 annotations of which any 2 in any order, alone or after a clean list report, up to 2 schemas, V2 with and V4 with and without inline attributes; 3 command lines |
| `query_pages` | does what a user types arrive; do pages meet | 3 rows, or the 2 a filter leaves, `$top` 2, `$skip` 1, texts with every special symbol, 2 keys, 4 services: unpaged, paged by row offsets, by numbers that are no offsets, by opaque keys |

Why the bounds are enough: a conflict needs two writers; a third operation makes
a row, removes or re-saves it and lets another see the stale copy; a fault in any of its
steps leaves what the others have to cope with (the proofs are for any number). For the lock, three threads in two processes are a holder,
a waiter beside it in its process, and one in another. For tabs, a race is
between two commands; the other two set up the service and the entity set that
a query needs. A read is disturbed by what happens between its two looks, and
three operations delete a row, create another under its path and save into it.
Profiles of different names share no state but the table, which is replaced
whole; two systems and two users let every comparison of the code go both ways,
and four commands are a profile, a session or password for it, an edit, and
whatever overlaps the edit. A client starts anew with each command, so one
command is enough, and one change of the logon comes at any of its requests. The
effect of two annotations on each other is what the merge decides; more than two
only repeat it, except on a list report, which the second draft provides. Three
rows are two or three pages of each service that pages, with a last one that is not
full where two rows fit; the filter leaves fewer rows than were there before.

Deadlock is checked where the system cannot stop (`query_pages`) and not in the
other models, which may stop with their operations used up.

Three runs, `offline_library_dangling`, `save_lock_exclusion` and
`tab_requests_latetrace`, each check one property which TLC finds violated: they
show where the code does not do what a comment of it says; section 4.

### Fairness

`OfflineLibrary!FairSpec`: weak fairness of each writer's next step inside a
command, since that is straight-line code, and a wait for the lock ends after
`LOCK_MAX_ATTEMPTS`. Commands, errors and deaths are not fair.
`SaveLock!FairSpec`: weak fairness of each thread's steps inside acquire and
Drop, and of time. `TakeMutex` needs no strong fairness, because a bound on the
number of acquires makes the mutex free in the end; this says nothing of the
fairness of `std::sync::Mutex` under endless demand.
`SapSession!FairSpec`: weak fairness of the client's steps together with an answer
or `Lost`, for every request has a timeout (`client.rs`) unless the user has
switched the read timeout off (`read_timeout_from_env`); `Begin` and the user's
logon are not fair. The other models have no fairness and no liveness property.

## 4. Where the code and its comments differ

| Run | The comment | What the code does |
|---|---|---|
| `offline_library_dangling` | a death leaves no row whose file is gone (storage.rs:9-13) | deletes remove files before the index is rewritten |
| `save_lock_exclusion` | two processes cannot hold the lock (save.rs:67-69) | two waiters reclaim one stale file by name |
| `tab_requests_latetrace` | responses for the previous profile do not land (app.js:125) | the HTTP trace of a command lands in its tab after a profile switch (api.js:78) |

Seven more statements stand in the modules beside the properties that except their
case. Each says what a comment, a message or the changelog says, no run or theorem
claims it, and TLC refutes it with the configuration named here (on the `MC` module
of the same name), within a minute:

| Statement, configuration | The comment | What the code does |
|---|---|---|
| `ConnectedMeansLoggedOn`, `SapSession_connected.cfg` | `ensure_session` establishes a session with the server (client.rs:238) | a preflight answered with 404 or 500 counts as established, and a connection test reports success (client.rs:325) |
| `HtmlMeansSessionGone`, `SapSession_html.cfg` | an HTML page instead of OData means that the session is gone (client.rs:613-614) | the page of a proxy or of an error handler is taken for it as well, though `response_hint` knows such pages (client.rs:833-836) |
| `RemovalClears`, `ProfileStore_removed.cfg` | a removal without warnings has cleared the credentials (cli main.rs:1757) | a password under an empty user name is stored (1669-1675) and not removed (1744) |
| `RemovedSessionsStayGone`, `ProfileStore_resurrected.cfg` | the session goes with its profile (cli main.rs:1749-1750) | a sign-in that ends after the removal stores it again (src-tauri main.rs:523) |
| `DefaultsReachEveryText`, `MetadataCommands_latetext.cfg` | a type's text arrangement applies to texts declared later in the file (annotations.rs:44-46) | it is applied at the end of its schema (annotations.rs:566) |
| `RestrictionsReachInherited`, `MetadataCommands_inherited.cfg` | a derived type has inherited properties with their annotations (CHANGELOG.md:76) | a restriction of its set drops those of inherited properties (annotations.rs:619) |
| `SearchIsOnePhrase`, `QueryPages_search.cfg` | V4 gets the search phrase in double quotes (query.rs:205) | a quote inside the text ends the phrase (query.rs:210-211) |

Seen while modelling, without a run of their own. In the library:

- A capture from a second system replaces the first one's row of the same path in
  the imports bucket (save.rs:309); save.rs:304-305 has captures of several
  sources coexist there.
- A re-save writes a new `label` (save.rs:470), which the contract calls frozen
  (save.rs:18-21).
- A waiter gives up after about 5 s, a lock file is stale after 30 s, so that for
  25 s after a crash every writer reports a contention nobody causes
  (save.rs:179-180 says that it is real).
- `sweep_offline_dir` has no caller outside tests, although storage.rs:18-20 has a
  load-time sweep find the orphans of a crash.
- For a name in both tables the CLI's dispatch goes live (cli main.rs:655), while
  `MetadataSource::resolve` fails closed. `NamesDisjoint` keeps this from mattering
  as long as nobody edits the file by hand.

In the front end:

- A query sent while a service name is resolved lands after the path has changed:
  services.js:400 sets it without a new generation, against api.js:31-34.
- A search answered from the cache takes no scope (services.js:139), so that a
  load's entity sets replace the catalog, against api.js:37.
- A removal clears the mirrors of whichever tab is active when it ends
  (auth.js:162), against state.js:21-22.
- Describe info is filed under the context at its arrival (services.js:518); after
  a service path came up without a new generation that is not the one it was
  asked for.
- Behind opaque skiptokens the pager takes the offset for 0; with a count, "next"
  on the last page goes back to the second. "prev" steps by `$top` and skips rows
  when the service sends fewer, or `$top` was lowered. A token that is a number and
  no row offset is taken for one. After an edit of the filter the old `$skip` or
  token goes out with the new filter. `PagesMeet` excepts these by name.
- A replay of a history entry without `$top` sets it to 20 (history.js:175) and
  adds a second entry.
- The prefill of the value-help picker cuts a literal at a doubled apostrophe
  (valueList.js).

In the client and the profiles:

- With SSO, a login page to the preflight establishes the session too.
- Every 404 is reported as a missing service (client.rs:642-657), also that of a
  missing entity set or key.
- A raw metadata request whose session expires after the preflight hands over the
  login page.
- Redirects of a browser profile to the identity provider are followed before
  `ensure_session` looks at them, though client.rs:97-101 calls them the signal.
- Listing and resolution turn a refused logon into a warning or "not found".
- A sign-in that ends after the sign-out of its profile stores the session again;
  an edit of the language leaves the session in memory under the old key.
- Overlapping commands replace each other's whole connections table. Removal
  deletes the credentials before a save that can fail. The wizard drops the
  plaintext and `insecure_tls` fields of the profile it replaces, and leaves its
  keyring entry. `CredentialsBelong` and `PasswordsStayReachable` except these
  by name.

In parser and lint:

- Annotations of an inherited property given through the derived type are dropped;
  two types with one simple name in two schemas are merged.
- A second `ISOCurrency` without a path, or capability flag without a value, takes
  the value of the first away (annotations.rs:186, 242-246); `NothingLost` says so.
- The lint accepts any path with an `@` in it (rules.rs:420), and of a path with
  several segments it looks at the first.
- No lint rule looks for unknown properties in a selection variant or in
  `RequestAtLeast`.

## 5. Proofs

The proofs assume the `ASSUME`s of the modules: distinct special values (`None`
is no profile), natural bounds, forms with a password for Basic only, catalogs that are lists of
entries, and for the
lock that attempts run out before a file is stale; for queries that percent-codes
and numerals are each their own symbol, that a property name given to `--in` holds
no special symbol, that `--in` has a value, and that a filter leaves no more rows than
there are. They hold for every number of
writers, readers, names, ids, threads, tabs and commands, and for catalogs,
documents and texts of any length.

**Catalog.** `CatalogUnambiguous` and `CatalogFreezesIdentity`: each operation
keeps `Unambiguous`, and a row under an id keeps its identity. These are facts
of one catalog step, used again below.

**Library.** `LibraryInvariant` proves `LibraryInv`. `ImplementsCatalog` says
that `WriteToml` is a catalog step, which needs `DraftsCurrent`: the draft of a
writer between reload and commit is one catalog step from the index *as it is
now*. That is inductive only with `OneHolder` (nobody else commits meanwhile)
and `IdsAccounted` (a fresh id is fresh in drafts too). From it follow the
refinement, `NamesDisjoint`, `RowsHaveBuckets`, `OneRowPerIdentity` and
`IdentityFrozen`, the last through the refinement.

**Files.** `LibraryFilesInvariant` proves `FilesInv`. Its heart is `FilesStaged`:
between reload and rewrite a draft has exactly the rows of the index, except for
those of the files the writer has changed or will change (`todo` and `touched`);
of these, the ones already written hold what the draft says, the ones already
removed have no row in it, and all of them are in the bucket of the request.
It is inductive only on top of `LibraryInv`: since one writer holds the lock, no
other commits or writes a file meanwhile, and a fresh id is nobody's file. A
commit then makes every row right but those of `torn` transactions, which is
`LibraryIndexMatchesFiles`; whatever file has no row is torn, in flight, or was
passed over by a delete (`LibraryOrphansExplained`). `LibraryKeepsSource` needs the attribution of drafts as
well. Two are action properties: `LibraryLeavesOthers` (the bytes of other buckets
stay) and `LibrarySavesNeverDangle` (no save rewrites the index before its file
is there).

**Lock.** `MutexInv` (a thread inside acquire holds its process's mutex) gives
`ExclusiveInProcess` with no assumption about time. `LockInv` adds who made the
file, and that a file found stale is abandoned; with `PromptHolders` it gives
`HolderKeepsFile` and `ExclusiveUnlessRaced`. `SaveLockImplementsLock` goes through
the steps until a race: `HoldersOfFile` says that the file tells who is inside, so
that `create_new` where no file is enters alone, and what a waiter found stale and is
still there was left behind. Its other half is `LibraryTakesLock`: with `OneHolder`
the transactions, however they end, are steps of the same contract. `WriterLock` is
what the two models share; the steps of `SaveLock` are not run inside the library.

**Tabs.** `TypeCorrect`, and `BackgroundTabs` from it. `TabInvariant` proves
`TabInv`, whose heart is `CurrentFits`: a command that is still current was
started with the profile its tab has; a current query has its entity set, is
newer than the tab's result, and is the only one of the tab. Without it
`ProfileSwitchWins` is not inductive, for nothing would relate an answer to the
tab it is about to land in. `QuietStep` and `QuietStart` prove it once for all
steps that leave the tabs alone. It gives `MirrorsAgree`, `ProfileSwitchWins`,
`EntitySelectionWins` and, as an action property, `NewestQueryWins`. None of them
is about the HTTP trace, which does come late.

**Profiles.** `PlaintextNeedsConsent` needs `PlainInv`: a table that any command still has to
save, however old its copy, holds plaintext passwords only of the users it names,
who agreed (`Sound`); and where a password may still have to fall back to the
file, the draft names the user it belongs to. That is inductive since consent is
never taken back (`ConsentStays`), so that a stale copy stays as good as it was.
`ProfileTypes` is its type invariant. `CredentialsAccounted` and `PasswordsKept`
prove `CredentialsBelong` and `PasswordsStayReachable` from `AloneInv`, which is
about the one command that runs while none has overlapped. `Accounted` looks from
each credential to the steps the command has still to take: an entry of the
keyring or a session belongs to the table as it will be saved, or the step that
deletes it is still in `todo`. `SparesOwn` says that the password an edit will
delete is not that of the profile as it will be saved, and that the deletion is
its last step; `abandoned` takes up what the wizard leaves behind, as the property
does. Neither property is inductive alone, because between two steps of one
command the stores do disagree.

**Reads.** `ReadersGetOwnBytes` proves `ReadsOwnBytes` from `ReadersInv`. Its part
`ContentsGiven` says that the contents in any file, in any row of the index and in
any draft were given for that id, at some time; since ids never come twice, a file
cannot hold the bytes of another service, even when it was replaced between
the index and the read. The second part relates an undisturbed reader to its file:
it still has what its row says. When the row is found, that is `IndexMatchesFiles`
(`FilesInv`), since no writer is at the row. `NoBucketGoesOnline`:
the second load that makes the client is of an
index where names are disjoint (`LibraryNamesDisjoint`, which carries over since
readers change nothing of the library), whatever the first one said.

**Client.** `SessionImplementsCall`: every run of `SapSession` is one of
`GatewayCall`, over any number of commands, hops and changes of the logon and
for catalogs of any length. `SessionInv` carries what the client has learnt
from one request to the next: an answer on its way up tells something of the
system while the command ran (`Telling`), a request at the identity provider
tells that the logon was not accepted, and fetched lists, candidates and a call
for a V4 group tell that it was. `CallDoneOnward` proves once, for whatever a
call ends in, that a command goes on or ends with a verdict that is true; each
way of ending a call then only has to show its outcome (`ErrorOutcome`,
`PlainOutcome`). Without `SessionInv` a list fetched before the session expired
would be data from nowhere. `ClientInv` adds two parts, and gives three theorems.
`TraceInv` says that the ids in the ring are consecutive modulo `IdRange`, ending
below the next one, and that each entry has the body of its own request; since
the ring is shorter than the range, a preview is attached to one entry only
(`PreviewsStayOwn`), also when the counter wraps. `ResolveInv` follows a resolution
through its two catalogs: the V4 one is asked only for a name that V2 does not
have with a URL, and a group only for its first entry. `ResolvesAsListed` compares
this with the list on screen, which puts entries with a URL first and drops later ones
of the same name and version; `LeadsShown` says of any list of entries that what
is shown first under a name is its first entry with a URL. `SessionTypes` is the type invariant.

**Metadata.** The three theorems assume that the document is valid metadata:
`InheritsAlike` that no type is below itself (`Acyclic`), `ParsesAsMeant` that none
declares what it inherits (`NoneRedeclared`), `CleanLintVouches` both;
`MCMetadataCommands` states both of its document. The library's induction theorems cannot be used (they take an
operator), so `SetInduction` derives from the well-foundedness of `<` that a set of
naturals with 0 that has each successor is all of them; by it the recursive
functions of the model exist and can be taken apart (`WalkExists`,
`DefaultsExist`). `InheritsAlike`: in an acyclic document the bases of a base are the end
of the bases of its heirs (`ChainOfBase`), so both look for the owner of a property in
the same place (`OwnerAlike`); `HeirInv` carries to the end that the parsed model
is one with its base types applied. `ParsesAsMeant`: `ReadInv` says that while the
document is read every slot of the model holds what the notes so far say. For
views and texts a slot has at most the one value that counts (`ViewHeld`,
`TextHeld`), and what counts changes with a note as the slot does
(`EffectiveGrows`, `TextGrows`). Arrangements are one schema behind: the
defaults of this schema still wait, and are those of its notes in their order
(`DefaultsHeld`); at its end they reach the texts there are by then
(`ArrangementDefaulted`), and no later one reaches further back, since notes are read
schema by schema (`Ordered`). Nothing is lost but by a later note that has no value to
write (`Empties`), since merging empties a slot for no other and only adds to a united
one (`MergeList`, `MergeUnites`). Labels and base types leave
the slots of own properties alone (`FinishedValue`); there `NoneRedeclared` is
needed, for a redeclared property takes the values of its base.
`CleanLintVouches` proves `CleanMeansUsable` from `LintInv`, which adds to `ReadInv` what
the slots of sort orders, hidden and restricted properties hold (`Vouched`): the first
sort order, the last word about hiding, and a lost attribute wherever an inline attribute
or a set's restriction takes it away, which no later note gives back. With
`InheritsAlike` a rule sees at the heir what was said where the property is declared
(`LossSeen`, `HiddenSeen`; a loss that a set of the heir says of it is none the rule
sees, and none the property claims), so a gate that is not tripped leaves every rule silent
(`RulesSilent`), and silent rules mean usable views (`SilentUsable`).

**Queries.** The hard part is what texts put together symbol by symbol are when
they are taken apart again, for which there is no induction over data; as in the
metadata, `SetInduction` takes its place. `Walks` describes a concatenation by the
places where its parts end (`FlattenWalk`), `Laid` a list joined by separators.
A part lies where the walk says (`WalkLies`) and nothing lies elsewhere
(`LaidCovers`), so splitting gives the parts back when none has the separator
(`SplitJoined`), or, where quotes and parentheses count, when each part is closed
(`LaidOperands`). `DecodedEnc` and `EncWithout` say that encoding loses nothing and
leaves no special symbol that is to be encoded. From these, `ValuesOfBuild` and
`PathRead` say that a service finds in a built URL each option, the key and the
navigation as given, whatever they contain. One level further in, `DoubledIs` says
that a literal with doubled apostrophes has an even number of them and reads back
as it was, `Parenthesised` that a whole expression in parentheses is one operand,
and `Combined` that a filter with `--in` is the two that were meant, the second a choice
among the literals; a filter without `--in` arrives as typed, whatever it is, and one
that is no whole expression beside `--in` is claimed nothing of.
`RequestsArriveAlways` shows for each action that sends that what it builds is what
was meant (`RequestRead`). `PagesMeetAlways` rests on `PagerInv`: the page on screen
and the query that waits agree with the rows there are. `Offers` says where the pager
believes itself to be; `Leads` that a "next" that is under way begins at the end of
the page it left, as long as the filter is the same. Without the second, an answer
would be related to nothing.

`TabInv`, `LockInv`, `FilesInv`, `ReadersInv`, `AloneInv`, `ClientInv`, `ReadInv` and `Vouched`
were checked with TLC on the instances of section 3 before they were proved. Theorems that no run lists:
`LibraryInv` and `RowsHaveBuckets`, whose parts that matter to a user are properties
of `offline_library`; `ExclusiveUnlessRaced`, which `HolderKeepsFile` implies
(all holders are the creator of one file); and the types of `ProfileStore`.

**Only model-checked.** Liveness (`CommandsReturn`, `AcquireReturns`,
`CommandEnds`), which is beyond this prover. Every other property of a passing run
is a theorem.

## 6. Not modelled, and what is left

Not modelled, because nothing in it depends on an order of events: the rendering
of tables, JSON, descriptions and annotations, wording, size caps, packaging, and
what `PROJECT.json` names in the notes of each component. In particular:

- Portable set-up and the search for the configuration directory: one process,
  once.
- The CSRF token, which is fetched with the preflight and which no request sends
  back; charset decoding; the redaction of traces.
- Two requests of one client at a time: the program makes a client per command,
  and a command waits for each of its requests.
- History and favorites: synchronous edits of two capped lists. A replay is a
  describe and a query, both of which `TabRequests` has.
- Of the tabs: sign-in and sign-out, the sample service, the refresh of a
  service, and the related rows (`GotNavigation` is there, no property is stated).
- `$expand` and `$orderby`, which are encoded like `$select`; custom parameters.
- Functions, associations and the list of raw annotations of a document.
- The slug and the label that an import derives, and why a path does not resolve;
  that it does not is modelled where it matters (`RemoveFile`).

Left, in order of importance:

1. `OfflineLibrary` over the steps of `SaveLock`, for what a raced reclaim does to
   the index. While nobody races, `WriterLock` is all the library needs.
2. Replay, sign-in and the picker in `TabRequests`.
