# A TLA+ model of Crabinet

Crabinet is a self-hosted file server: one Rust process that serves directories of
the host ("shares") to signed-in users over HTTP. This directory holds TLA+ modules for
the parts of it whose correctness depends on the order of events, the TLC
configurations that check them on small instances, and proofs, checked by TLAPS, of
the properties that matter most for every instance.

`PROJECT.json` lists the runs, the source lines behind each definition, the hazards of
the code and what covers them. Paths below are relative to `src/`, the repository.

## 1. The system

| Part | State it keeps | Operations | How it meets the others |
|---|---|---|---|
| **Trash** (`src/filesystem/trash.rs`, handlers in `src/mutations.rs`) | `.crabinet/trash` of each share: payload `<id>` and sidecar `<id>.json` (pending, live, purging); the collection's saved directory position | move to Trash, delete permanently, restore, purge, empty, hourly collection, startup recovery, listing | All but the listing hold the share's commit lock |
| **File publication** (`PendingWrite`, `src/filesystem.rs`) | staging files `.index-tmp-…` and `.index-rep-…` in `.crabinet/staging`, the guard that removes them | stage, publish a new file, replace a file by an atomic exchange, undo the exchange, recover staging at startup | Used by uploads, saves, new files and archives, under the commit lock |
| **Write requests and quota** (`src/mutations.rs`) | one commit lock per share, two gates, the request's staged files and running usage | upload of several files, text save, create file or folder, move, quota measurement | Takes a lease, streams without the lock, publishes in one blocking call that owns the lock |
| **Request gates** (`SubjectGate`, `src/browse.rs`) | a semaphore of permits and a count for each subject | acquire, drop | Uploads, saves, listings, downloads, archives, folder sizes, events, blocking work |
| **Virtual paths and capabilities** (`src/filesystem.rs`) | a directory handle for each share | parse a path, walk it without following links, validate a handle | Every filesystem operation |
| **Local archives** (`src/archives.rs`, `src/filesystem/archive.rs`, `src/zip.rs`) | the worker's lease, deadline and cancel flag, a tree in staging | stream a folder as ZIP, compress, extract, publish a tree | Commit lock, quota, staging |
| **Browsing and downloads** (`src/browse.rs`) | cursors, watchers of event streams | list, read ranges, subscribe | Gates; re-checks the session while a stream is open |
| **Previews** (`src/preview.rs`) | none | say what a file is and serve it inline | Limits of the configuration |
| **Folder sizes** (`src/folder_sizes.rs`) | cached sizes with a generation per share | get, insert, invalidate | Invalidated after each mutation and by event streams |
| **Sessions and sign-in** (`src/auth.rs`) | table of sessions (created, last seen, expires), a row of settings for each user, rate limiters, a pool of verifiers | sign in, authenticate and renew, sign out, rotate, prune, change settings | Every request |
| **Passkeys, OIDC** (`src/auth/passkeys.rs`, `src/oidc.rs`) | ceremonies in memory; consumed login states | register, assert; start, callback | Issue sessions |
| **Search index** (`src/search.rs`) | a table of entries, watches, pending work per share | passes, notifications, queries | Invalidated after each mutation |
| **Thumbnails** (`src/thumbnail.rs`, `src/thumbnail/`) | files in a cache directory and an index in memory, single-flight locks, a memory budget | ask, render, put, evict, forget | Blocking pool |
| **Client addresses** (`src/client_address.rs`) | trusted networks | find the client behind proxies | Source of rate limits |
| **Configuration** (`src/config.rs`, `src/main.rs`) | startup settings | load, validate, start | All |
| **Connections, web client** | connection permits; state of the views | | |

What is hard in it, and hard to test:

* the process may die, and any system call may fail, between two calls that change a
  directory; the next startup has only the directory to go by;
* a handler's future is dropped when its client goes away, while the blocking call it
  started runs to its end;
* bodies are received without the lock, so what was checked before may be stale when
  the file is published;
* other processes on the host may change a share at any moment. The documentation puts
  them outside the application boundary (`docs/filesystem-security.md`), but the code
  re-validates after each rename and rolls back, and those paths are part of the models;
* long walks are cut into batches with budgets for time and entries, and the directory
  changes between and during them;
* what is cached or indexed is behind the share, and the announcements that would correct it
  may be lost, late or in another order;
* many decisions are taken from one input at a boundary: a field of four gibibytes, a path that
  a link leads elsewhere, a header cut at 64 KiB, two emails that differ in capitals.

`PROJECT.json` lists the hazards one by one, each at its line, with the property that covers it.

## 2. The modules

| Module | What it models |
|---|---|
| `Trash` | Trash of one share, one action per system call that changes a directory |
| `EntryLifecycle` | what Trash promises of each entry: the abstract specification `Trash` implements |
| `TrashSweep` | the two walks over Trash, batch by batch: collection and Empty Trash |
| `TrashListing` | the listing of Trash, read by read and page by page |
| `PendingWrite` | creation and replacement of one file, one action per call |
| `FileRegister` | what `PendingWrite` promises of the file: the abstract specification it implements, a register with compare-and-swap |
| `Upload` | the requests of one share that write: leases, commit lock, quota, disconnects |
| `SubjectGate` | admission and release at one gate |
| `Sessions` | the session table, one action per transaction of a request |
| `SignIn` | the ways to a session: limiters, verifiers, passkey ceremonies, OIDC states |
| `SearchIndex` | the indexer of one share beside a changing disk |
| `Browse` | folder sizes, event streams and listing pages beside a changing disk |
| `Thumbnails` | requests for thumbnails, the memory budget and the cache directory |
| `Archives` | streamed archives, compressions and extractions |
| `Questions` | what the modules about decisions share: a question and its answer |
| `ZipWriter`, `Responses`, `Addresses`, `Paths`, `Media`, `Previews`, `Pictures`, `Configuration`, `Identity`, `Queries`, `Preferences` | decisions of one input, see below |
| `TrashProofs`, `UploadProofs`, `SignInProofs`, `ThumbnailsProofs`, `ArchivesProofs` | the theorems about a module and their proofs |
| `BrowseProofs` | those about `Browse` and `SubjectGate`, the two modules about `src/browse.rs` |
| `FilesystemProofs` | those about `PendingWrite`, `TrashSweep`, `Paths` and `TrashListing`, which read and change directories |
| `DatabaseProofs` | those about `Sessions` and `SearchIndex`, which keep rows in a database |
| `MC…` | instances for TLC |

The modules meet at the commit lock, at the session and at the end of a mutation. `Trash` and
`PendingWrite` look inside one operation that holds the lock; `Upload`, `TrashSweep` and `Archives` are
about the order in which operations take it, so publication of a file, or the purge of one item,
is a step there. In `Upload` a gate is the set of requests with a lease; `SubjectGate` shows that the
code's two-step gate counts so. `SignIn` ends where `Sessions!SignIn` begins. `SearchIndex` and `Browse`
each have an `EndMutation`, the moment at which the handler of a mutation invalidates what they keep.

A definition preceded by a comment starting "Mutant:" is not part of the model. It is the
model with a plausible mistake, and `PROJECT.json` names the property that finds it.

### Trash

`payload[i]` and `sidecar[i]` are what the directory holds under `<id>` and `<id>.json`;
`kind[i]` and `expired` are the two fields of the sidecar that decisions depend on; `temps`
are left-over `.tmp-` files. `share` maps each place of the share to the version of the entry that
is there, and `left` counts what is still inside a folder. `pc`, `item`, `place`, `obj`,
`writing`, `publish` and `budget` are the program counter and the locals of the operation that
holds the commit lock.

* `move_into_trash`: `StartDelete` (validator and depth check under the lock, free ID),
  `CreateTemp`/`CommitTemp` (`write_sidecar`, pending), `MoveIn`, `Validate`, then the sidecar again
  with the state it publishes; or `Rollback`, and `Unpend` to remove the sidecar. A permanent
  delete is the same with "purging" as the published state.
* `restore_trash`: `StartRestore`, `MoveOut`, `ValidateOut`, `RollbackOut`, `Unlist`.
* `purge`: `PurgeFrom` (mark first), `PurgeEntry` (`remove_tree`, entry by entry within the budget),
  `PurgePause`, `PurgeTooDeep`, `PurgePayload`, `PurgeNothing`, `PurgeFails`, `PurgeSidecar`. It is started by a client
  (`StartPurge`), the collection (`StartCollect`) and recovery (`RecoverPurging`).
* `recover_trash`: `Boot` opens the directory; the `Recover…` actions settle one returned name each; an
  error stops the startup with the reason in `refusal`.

Recovery reads a directory that it changes. POSIX leaves open whether a name removed after the
directory was opened is still returned, so `RecoverPayload` may meet a name that is gone and
`NotReturned` may skip it.

`TrashDrains` is about items that can be managed: `Deep` holds those nested deeper than a purge may
go, which stay until someone else makes them shallower, and a startup that is refused stays refused
for the reasons in `refusal` that no further startup changes (`Unmanageable`).

### TrashSweep and TrashListing

In `TrashSweep` the directory is a sequence of positions holding names, and what a batch has read is a set of positions
(`After`, `Sidecars`) in the order of their ranks; `cookie` is the position saved by `gc_batch`. `GcRead`, `GcItem`, `GcEnd` are one batch of `gc_expired_trash`; `EmptyRead`, `EmptyItem`,
`EmptyStops`, `EmptyEnd` one of `empty_trash_batch`, with its `passed_over` items; `EmptyAnswer` and
`EmptyTimeout` the two ways the request ends. `Stuck`, `Damaged` and `Unfinished` are the items no walk
can remove, read, or may touch.

`TrashListing` reads names, then each sidecar, then each payload, while `Move` takes one call of a deletion, a
restore or a purge. The names come in any order, and `readdir` may return a name once more when its sidecar was
created or replaced meanwhile, also after it was returned. Of the code's sort it says what it leaves: an item goes to its place among those
that are kept (`InPlace`), and `Compacted` drops what is behind the first `limit + 1`.

### PendingWrite

`dest` is the version under the file's name, `staged[w]` what request `w`'s staging name holds and
`kept` the requests whose staging name has been renamed to a retained one, which neither the
guard nor recovery removes. A version is known by who wrote it: two different versions have
different validators. `Begin` stages (without the lock), `Lock` takes the commit lock, `Check` compares the
validator again, then come `publish_new` or `publish_replacement` call by call, and the guard's `drop`.
`Cancel` is the client going away, which is not possible in the blocking call.

`FileRegister` is what the clients are promised: the file has a value, a request that answers ok has compared it with the version
that its client named and swapped it in one step (`Save`), one that fails leaves nothing (`Fail`), and where undoing fails or a crash falls between, its version may stay
without an answer of ok (`Leave`, `Crash`). Another process may change the file at any moment, also between the swap and the answer. Under the mapping (`Value`) the file is, while a request is between the call that publishes and its
answer, still the version that this call displaced: the exchange is provisional until it was validated and the old version removed.
A request can therefore name a version that is not there yet and never will be: it is refused then.

### Upload

One folder of named entries and its Trash. `Admit`/`Busy`, `Field`, `Chunk`, `EndFile`, `EndBody` receive an
upload; `Single` stages a save, a new file or a new folder; `Lock`, `Measure`, `Publish`, `Unlock` are
the blocking call; `Reply` the rest of the handler. `Fail` is an error or disconnect before publication, `TimeOut` the idle and the total
time limit of a body, which end with the body: nothing bounds the wait for the lock. `Disconnect` is a client that goes away during or
after publication. `MaxFaults` calls of the file system fail: one of the measurement makes it `unmeasurable`; a publication that fails
has changed nothing (`failed`), or has left its file where it was to go (`left`), when the exchange cannot be undone or a
new file can neither be checked nor removed. In both cases `publish_staged` leaves its running figure as it was. A byte of the model stands for
some amount of content.

### SubjectGate

`TryProcess` and `TrySubject` are the two steps of `try_acquire`, `Drop` and `ReturnPermit` the two of
dropping a lease. Subjects whose count is zero are in the map with count 0, where the code
removes them.

### Sessions

`table` holds the rows by token. `Arrive` reads the clock, `Lookup` judges the row, and `DeleteEnded`, `Touch`, `Logout` and
`Rotate` are transactions of their own; `Cut` drops the request between any two. `Rotate` (a sign-in, with the
session it replaces) prunes and keeps the newest rows within the two limits. `Restart` reads a configuration in which
accounts may have gone or been disabled, and removes their rows. The clock may step back.

### SignIn

Each request takes one step between two awaits. `AskSource` and `AskAccount` are the two limiters, whose `Allow` is
`RateLimiter::allow` with its eviction at the key limit; `AwaitVerifier` to `Verified` the pool of verifications, with the
clock of the account's limiter read before its lock is taken. `TakeLogin` and `TakeRegistration` consume a ceremony;
a registration is `CountKeys`, a query, and then `InsertRegistration`. A callback reads the clock where it judges the cookie (`JudgeCookie`) and takes the
lock of the consumed states later (`Consume`), where what has expired by the time *that it read* is dropped; the set is bounded. Two variables are history: `lost` counts
the states that the bound dropped, `late` those that a callback with a later clock dropped while another, which had read an earlier one, was still on its way.

### SearchIndex

`disk` is a sequence of inodes, each with its parent and name, so that a directory that moves keeps its watch and its descriptor, as with
inotify; `At` looks a path up. `Create`, `WriteFile`, `TakeAway`, `RemoveDirectory` and `Move` are the changes, made by Crabinet or by anybody, and
`Heard` tells the `kernel`'s watches of them; a full `queue` overflows. `WriteSilently` is what the watches do not ask for, since their mask has no
`IN_MODIFY`: writing to a file that stays open, truncation by name, writing through a mapping. It is never Crabinet's own. A slice of the worker is `Drain` (one notification at a time, since others
arrive meanwhile), then `BeginPass`, `Refresh` or `Resume`, then `WatchNext`, `List` and `Reconcile` for each pending directory, `EndSlice` and
`Store`. `Reconcile` takes the names of the listing one after the other (`Reconciled`, `Draft`), since the bounds on rows and on pending
directories are met in the middle of it. `Forget` and `Invalidate` are the handlers' calls, `Reopen` a restart.

Three variables are history, and say what may be expected of the index: `tracked` holds the directories that were at their path when the worker
last came to it, and watched; `owed` those that mutations changed while watches did not cover the share; `dropped` the paths that `forget` removed
and where nobody has looked since. A directory that was elsewhere when the worker came to it is not tracked (finding 7). Each inode also keeps the stamp at which the
watches were last `told` of it: a row that is behind by silent writes only shows a state that the file had since then (`Since`), and the worker cannot
know better; anything older must be known to it. `CatchesUp` asks for the state of now, which the periodic pass finds.

### Browse

`AskSize`, `BeginWalk`, `Visit`, `EndWalk`, `StoreSize` are one request for a folder's size, with the cache's generations; `CutWalk`
cancels it, while its walk runs on. A file that is written by name, moved or deleted is reported to a stream that watches its folder; one that
grows through an open handle (`Grow`) only when it is closed (`Close`), and one that is truncated by name or mapped (`Truncate`) not at all.

An event stream is `OpenStream`, `WatchDirectory`, and then, poll by poll: `Sleep`, `Poll` (is the session due to be looked at?), `LookUp` (the database
answers), `Answered` (the handler gets the answer, which may be old by now, and sets the next check from there), `Read` (what is in the watcher is drained, invalidates sizes and goes to the client).
The session may end between any two of them. `CloseStream` and `DropStream` end it.

`AskPage` begins the listing of a page; `Scan` and `Miss` read its names one by one, while the folder changes: a name
whose entry is new may be returned again, and each name read counts towards the bound, also that of a link or of an internal
name (`Unlisted`), which no listing shows. `AnswerPage` sorts what was read, a name read twice included, and cuts the page, with `Decode` for its cursor.

### Thumbnails

`Ask`, `Plan`, `Lock`, `Reserve`, `Render`, `WriteTemporary`, `RenameTemporary`, `Fill`, `Sweep` and `Unlock` are one request; `Cut` drops
it at any await, while a decode that has begun goes on and keeps its memory. `Forget` and `ForgetFile` are the end of a source.
`RemoveFile`, by which `Sweep` and `ForgetFile` remove files, may fail without anybody being told: the file stays, outside the index (`dropped`, which is history).
`litter` counts the temporary files that a failed write leaves. `Restart` reads the directory as it is left: temporary files count towards `MaxScan` like others, and
what it removes may stay as well.

### Archives

A job plans (`Walk`), copies each file (`Open`, `Copy`) or extracts each entry (`ExtractEntry`), publishes under a free name and cleans up
(`Ends`), with the lease and the commit lock inside the worker. `Cancel`, which also stands for the deadline, and `Crash` fall
anywhere, and `Stops` is where a worker notices the first; changes from outside, cancellations and faults (a crash, a removal that fails) are counted each on their own, so that none of them excuses
what another did. `staging` and `residue` hold temporary files, and trees by their number of entries; an extraction has both, the copy of the archive and the tree that it grows (`BeginSnapshot`, `Snapshot`, `ExtractEntry`).

A start after a crash goes step by step. `Start` counts the names directly in staging, those that are kept for the operator
among them, and fails before it has removed anything when they are too many; `RecoverTree` removes a tree within what is left of the
budget, or as much of it as that allows, and the start fails; `RecoverFile` the files, when all trees are gone; `Started`. `StartFails` is a call that fails, or one more crash.

### The modules about decisions

Each takes a `question` to an `answer`, and `MCDecisions` asks all of them. `Configuration` loads a file against a disk with links, and
then starts the server; `Identity` judges a token and finds the account and the return path; `Queries` goes from a text to the
pages that a client gets; `Responses` sends ranges to a client that is cut off and resumes; `Addresses` finds the client behind proxies;
`Paths` walks a path while others move folders and place links; `ZipWriter` plans and writes an archive, reads it back and puts it through the preflight of an extraction, which
takes the last thing that reads as an end record for one, and everything behind the directory's offset that reads as an end record or a wide one for a second;
`Preferences` runs the requests of a user's devices that change and read the stored settings, transaction by transaction;
`Media` and `Previews` say what a file is from its beginning and serve it; `Pictures` plans a decode, scales, orients and
finds the pictures in a raw file, of which one directory may hold two. Widths of fields, limits and alphabets are parameters.

## 3. The runs

`tlc -config <module>.cfg <module>` runs each of them. A property is a conjunction of the parts that its definition
names; each module's type invariant is the first part of its first property, except in `Trash`, `PendingWrite` and
`SubjectGate`, where the type invariant is proved only.

| Run | Instance | What it shows |
|---|---|---|
| `trash` | 2 IDs, 2 places, a file, a folder of 2 entries, a folder nested too deep that is already in Trash; purge batch 2, recovery budget 5, 2 disturbances | `PayloadHasSidecar`, `IntactUnlessPurging`, `RecoveryReconciles`; that `Trash` implements `EntryLifecycle` (`LifecycleSpec`); that marked and expired items go (`TrashDrains`) |
| `sweep` | one stuck, one damaged and one unfinished item before a folder of 3 entries and a file deleted later, or the folder and the file alone; batch 2 | `SweepSound`: an Empty Trash that says it is done left only what it passed over. `SweepsEnd`: due items go and Empty Trash ends |
| `gate` | 5 requests of 2 subjects, 3 permits, 2 per subject | `GateSound`: permits and counts are exact and the caps hold |
| `publish` | 2 writers, 2 outside versions, 3 disturbances | `SavedVersionKept`, `NothingTorn`, `EveryRequestEnds`; that `PendingWrite` implements `FileRegister` and no two saves succeed from one version (`RegisterSpec`, with `OneWinner`) |
| `upload` | four pairs of requests (uploads of up to 2 files, a replacing one, a save, a new file, a new folder), one slot in each gate; a share nearly full or over its limit, with deletions, restores and purges; one failing call | `QuotaSound`: the usage a request carries is that of the share, but for what its own failed publications left; `JudgedAlone`; `EveryWriteEnds` |
| `sessions` | 2 accounts, 2 tokens, 2 requests at a time, 1 session for an account and 2 in all, one restart, one step back of the clock | `SessionsSound`: bounds, deadlines, and that a new account inherits nothing; `EndedStaysEnded` |
| `signin` | four mixes of 3 or 4 requests of 2 sources and 2 accounts, tables of one key, one verifier | `LimitsHold`: an exhausted limit refuses until its window ends, the maps of windows keep to their bound, permits are not lost; `UsedOnce`: a ceremony is accepted once, a state once more only for each time that the bound, or at its expiry another callback's clock, made the set forget it |
| `search` | a folder with a file; 2 names, depth 2; the folder and its file are what changes, moves go to either name, queue 3, 2 watches, 1 pending directory, 3 rows, 2 changes or failures | `IndexSound`: what the index has wrong is known to the worker or was announced by nothing, the total and the two maps are exact; `CatchesUp` |
| `browse` | a folder in the root, 3 files and a link; four mixes of walkers, stream and listing | `SizesSound`: a size that is served is not older than what was reported; `SilentOnceSignedOut`: for how long a stream may speak after the sign-out; `PagesAgree`: entries that stay are listed once, whatever names come twice |
| `thumbs` | 3 requests, 3 keys, one of which needs more memory than there is, memory for one large or two small decodes, a cache of 2; two cancelled requests or failing calls | `MemoryWithinBudget`; `CacheSound`: index, total and files agree but for the steps in progress and the files given up |
| `archives` | 2 jobs, 2 sources that change, 3 archives to extract; quota 6; six mixes with up to 2 faults and a cancellation; recovery budget 3 | `ArchivesSound`: only whole archives, within the quota; `NothingLeftBehind`: no more in staging than faults have left, cancelled jobs leave nothing; `JobsFinish`: jobs end, and the server comes up again |
| `decisions` | questions of every module, about 1.5 million states | one property for each module, see its comment |

**Bounds.** A *disturbance* (`MaxFaults`, `MaxTrouble`, or the numbers of a mix) is a crash, a failing call or a change from
outside; in `archives` the three are counted apart, and in `upload` they are failing calls. Two of them reach each state that a single operation and its rollback can leave behind, followed by a
failure or crash of the recovery itself; `publish` allows three, so that an outside change, a
failing rollback and a crash fit into one replacement. Two IDs let a purge and a
delete compete, with one item for the directory read to be ahead of or behind. A folder of two entries is one that a
budget of two cannot remove in one batch (the folder itself counts). The recovery budget of 5
is too small for two items with a folder, so that it runs out in some orders of the directory and
not in others. In `sweep` the three bad items fill more than one batch and stand before the good
ones, the order in which they could hold up a walk. In `upload`, limit 3 with files of 0 to 2 bytes and an
initial share of 1 or 4 makes requests that fit, that do not, that only fit after an earlier
file of the same request shrank, and that only fit thanks to headroom. The recovery budget of `archives`, 3, is one less than
a copied archive beside its tree of two entries needs, so that a start fails half way and the next succeeds; and with a name that is kept the names alone spend it. The gate's instance has
more requests than permits and more requests of one subject than its cap. Tables, caches and pools elsewhere (`Total`, `MaxKeys`,
`MaxPending`, `Capacity`, `MaxBytes`, `MaxQueue`, `MaxNames`) are one or two, and less than what asks for a place, so that each
is full in some states. A mix names what is at work together, so that each instance stays small and the kinds that meet
in the code meet in one of them. In `decisions` the parameters are small and the questions lie on both sides of each of them:
a field of a ZIP is full at 250 and sizes are 48, 216, 250 and 1300, where 41 and 48 are the numbers that read as the signatures of the end records; a page holds 2 items of 4; texts are one token longer than the header.

**Deadlock** checking is off where a system comes to rest: when no disturbance is left and all
requests are done. It is on in `gate`.

**Fairness.** A blocking call, once begun, goes on (the worker pool runs it to its end): weak fairness of `Step` and `Commit`. In `Upload` a
body that is received ends, fails or meets its idle or total timeout (weak fairness of `TimeOut`), and a request that has no body to stream goes on by itself (of `Receive`); nothing is
assumed of the wait for the commit lock but that it is a `tokio::sync::Mutex`, which is granted in the order of requests:
strong fairness of `Lock` and of the actions by which the collection and Empty Trash take it up. The
collection's task runs every hour for ever. After a crash or a refused startup the server is
started again (weak fairness of `Boot` and of `Recover` in `Archives`), by an operator or a service manager: without it nothing can be
promised of a Trash that only the server works on. An archive job runs on a blocking thread (weak fairness of its steps), except that a planned archive which is streamed goes on only as its client reads
(`AwaitsReader`): of that nothing is assumed, and `JobsFinish` promises the end of the others.
The indexer's thread goes on, a mutation's handler ends, and the periodic pass is due again and again while the thread is
between two passes (strong fairness of `BeginPass(TRUE)`). Nothing is assumed of clients; disturbances are finite in number,
which is what "in the end" has to mean when each of them can undo progress.

### Findings

Places where the code and what the repository says of it differ, met while modelling.

1. **A startup may be refused by its own purge.** `recover_trash` finishes an
   interrupted purge while it iterates over the directory. If the iteration then returns the payload's
   name from its buffer, the sidecar is missing, and the name is taken for an orphan payload; the
   startup ends with an error (`src/filesystem/trash.rs:974`). The next one succeeds. `docs/mutations.md:33` says that startup
   can resume a purge.
2. **A collection batch drops names it has read.** `gc_expired_trash` saves the position
   after the batch's names, then stops when the removal budget is spent (`src/filesystem/trash.rs:1044`). The other names of the batch are
   left to the next sweep, although "successive batches continue where the previous one
   stopped". Nothing is lost: `SweepsEnd` holds, since each sweep reads the directory again.
3. **A published change may go without an audit event.** The handler emits it after the
   blocking call; a client that disconnects during the call drops the handler and not the call (`src/mutations.rs:1376`).
   `docs/mutations.md:71` says that successful mutations emit audit events. The invalidation of folder sizes
   and search results is skipped in the same way: `CutMutation` in `Browse`, and sizes then stay stale until they age.
4. **A text save's lease may end before the save.** The same moment; the lease is a
   local of the handler. The comment at `src/mutations.rs:655` says that it is held until the save completes.
5. **`check-config` accepts limits that the startup refuses.** The bounds that `PreviewPolicy`, `MutationState`, `ThumbnailService` and
   `BrowseState` put on their limits are met in `main.rs` after validation. `docs/configuration.md:15` says that
   `check-config` performs the same checks as the startup.
6. **An empty phrase makes the next word literal.** `SearchQuery::parse` does not reset the flag that its quote sets
   (`src/search.rs:771`), so a filter after `""` is searched as a word, where `docs/search.md:25` promises an error instead of a
   change of meaning.
7. **A directory that is away for a moment is skipped for a whole period.** The worker skips a queued directory that it does not find
   (`src/search.rs:417`, "its parent's refresh prunes it") and the pass ends as complete. If the directory is moved back before its parent
   is refreshed, its row is known and unchanged there, so it is not descended into: what is in it is not found until the
   periodic pass, and the share counts as complete. `docs/search.md:37` says that a pass that skipped a directory is reported as incomplete.

Behaviour that surprises and that nothing in the repository denies; the models have it:

* Trash: a startup is refused for a kind that does not match when another process swapped the entry between the sidecar and the
  rename, and for a tree that is too deep or too large, until someone intervenes.
* Upload: when a publication fails and leaves its file, `publish_staged` does not count it (`src/mutations.rs:1613`), so the rest of the request is judged by a
  figure that is too low, although "the single measurement stays accurate" (`src/mutations.rs:1577`). The next request measures anew.
* Sign-in: the account's limiter reads the clock before its lock, so windows may begin a little early; the set of consumed
  login states forgets its oldest at its bound, and all of them at a restart (the cookie then still limits reuse to its browser and its time). Two callbacks of one
  state that both read the clock just before it expires may both be accepted, when a third with a later clock drops the state between them (`src/oidc.rs:462`, 484).
* Search: `indexing` may turn false a moment early, when a mutation falls between the drain and the store of the flag; rows under a
  folder that was forgotten or moved during a listing stay until the next pass; a directory deleted and created again between two
  drains is listed again only by the periodic pass. A file that is written while it stays open, truncated by name or mapped is announced by nobody, and
  the index shows it as it was until then (`docs/search.md:33` leaves such changes to the periodic pass).
* Browse: events that a stream has not read when it closes, and events left in the buffer behind the first `MAX_EVENT_NAMES`, invalidate no size; nor
  does a file that grows, until it is closed. A page may list an entry that is new twice; the client
  "de-duplicates page-boundary repeats by `(kind, name)`" (`docs/frontend-api-contract.md:75`). A stream whose
  session ended speaks for up to the interval between two checks, and for as long as the last of them took to be answered.
* Archives: a streamed archive keeps its slot for as long as its client neither reads nor goes away. A staging directory with more names directly in it than a start may visit
  (100,000), or as many and a tree that is not empty, makes every start fail before it has removed anything (`src/filesystem.rs:1578`).
* Extraction: an archive whose directory or end records hold bytes that read as `PK\5\6` or `PK\6\6`, in a name, a time, a checksum or two numbers, is refused as
  invalid; the server's own archives are no exception.
* Thumbnails: a cancelled request leaves its single-flight entry, and a second decode of the same key may run beside the one that goes on;
  files of evicted keys that could not be removed are counted again only after a restart, or once their key is filled again.
* Trash: an item that is published while its page is read may be on that page twice, one after the other, when `readdir` returns the name of
  its replaced sidecar again. The client "de-duplicates repeats by `id`" (`docs/frontend-api-contract.md:47`).
* Paths: the link count of a file is checked after it was opened, so a file that is unlinked meanwhile is refused.
* Previews: an SVG whose size is above the download limit is named one, and `/preview/svg` refuses it.
* Configuration: that the database is another file than a secret or the configuration is not checked, nor that the OIDC secret is
  outside the thumbnail cache, nor that no share is named like a side file of the database.

## 4. What is proved

TLAPS checks these theorems for all values of the constants: any sets of items, places, entries, requests, versions, users, keys
and sources, all budgets, limits and caps, any number of disturbances. They rest on the assumptions stated as `ASSUME`
in the modules they are about and on nothing else:

* bounds and lengths are natural numbers; those that the code takes from validated configuration or from a literal are positive
  where it makes them so (timeouts, limits and attempts, files of a request, the charge for a folder, the entries of a recovery);
* the sets that the code counts are finite (requests, users, tokens, keys, jobs, names): cardinalities and sums need it;
* what stands for "nothing" is no element of the set it is added to, states of OIDC are not numbers of requests, and job 0 is nobody;
* paths are sequences of numbers, each in a folder, and a share has finitely many places for files; the queue of the kernel and the interval
  between two checks of a session are not zero;
* initial states hold each entry once, each item of Trash has a sidecar (which Trash's recovery sees to), files hold no entries, an archive holds entries that the preflight could produce;
* `Thumbnails` has as many identities for locks as requests can hold and keys can remember (`Locks`), since a lock
  is an allocation that no live one shares; in `Archives` the share does not start above its quota (above it every job that writes is refused).
* a walk asks about any path on a disk with finitely many entries and no way out of the share but `.crabinet` and links (`PathQuestion`), a callback
  has any token and the provider's own keys (`CallbackQuestion`), and settings are asked about by any requests on any row that the code can store
  (`SettingsQuestion`); Trash holds any items, of which only those without a sidecar may have no time of deletion (`ListingQuestion`); every question of the run `decisions` is one of these.

TLC evaluates each assumption in the runs, and the inductive invariants below were runs' invariants before they were proved.

**Trash** (`TrashProofs`). `TypeCorrect` is `Spec => []TypeOK`. `PayloadHasSidecar` and `IntactUnlessPurging` are not
inductive: whether the rename out of Trash leaves a sidecar behind, or the removal of a sidecar leaves a
payload, depends on where the operation stands. `Consistent` adds `ItemInv`, which says for each
call what is true of the operation's item, `OnePlace` (each entry is in one place, so a purge cannot
reach into another item or into the share) and that what is not yet born is whole. `ConsistentNext` goes
through the actions one by one. From it follow `NoOrphanPayload`, `NothingHalfDestroyed` and
`TrashImplementsLifecycle`, the refinement: the lemmas `RenameInMoves`, `RenameOutMoves` and `RemoveSidecarMoves` say what each
kind of call does to the phases, `SamePhase` and `Stays` that the others do nothing, and `NextMoves` puts
them together. `StartupSettles` is `RecoveryReconciles`: it needs to know of every moment of a recovery what it still owes each
item. `RecoveryInv` says that only the end of an interrupted move or a purge runs then, and that an item which is not settled is
one whose sidecar the directory read has still to return, the one under work (`Owed`), or one left purging with no budget; a name
that vanished from the directory is owed nothing, which is why a readdir that skips it does no harm.

**SubjectGate** (`BrowseProofs`). `GateInv` is the type invariant with `Accounting` and the bound of each
subject's count. `HoldingMoves` and `AdmittedMoves` say how the two sets of requests change, `PermitsKept` and
`CountsKept` do the arithmetic of their cardinalities. `NothingLeaks`, `CapsHold` and their conjunction `GateIsSound` follow; that the permits never
run negative is what makes the process cap hold.

**Browse** (`BrowseProofs`). `StreamInv` bounds what a stream may still say by when it was let through (`Checked`): a read follows either the last look at the
clock, before the next check was due, or an answer; the next check is never later than the interval, and the time that an answer
took, after the sign-out or the opening; and an answer of yes was looked up before the sign-out. `StreamsFallSilent` follows. `SizesInv` is
`CacheInv`, that what is stored is right or excused (`Honest`), with `WalksInv`, which says of each walk that has not been overtaken by an invalidation
(`Fits`: its generation is that of the cache) that what it has summed is the sum over the files that it has visited, *as they
are now*, unless a mutation is still to invalidate, an event is still to be read, a file beneath is open and has grown (`Grown`) or nobody reported the change. A walk that was
overtaken promises nothing, which is why the generation must be compared under the cache's lock when it is stored. `Excuses` says
what each kind of change puts into the one list of excuses or the other, `HearSizes` and `EndSizes` that the two invalidations forget
everything that they excused. `FolderSizesAreSound` follows. `PageInv` says of each entry that is stable that its name is still to be read or was read,
once (`Gathers`: names that are read again are those of changed entries), and that the pages a client has are the beginning of the
listing that its cursor names (`Reads`): the cursor's fingerprint is what makes two pages pages of one listing. The order of entries is
total (`SortedIs`): a name that was read twice stands twice, in the order of the reads. `PagesAreOneListing` follows.

**PendingWrite** (`FilesystemProofs`). `PublishInv` is the inductive invariant: `LockInv` (publication holds the
lock, so at most one request is past it), `OneName` (a version has one name, so removing a staging name removes
what one thinks), `RequestInv` (what a request knows at each call, in particular that what it may remove is its
own or an outsider's), `ReplacedGone` (a version that was replaced is nowhere, so no second save can name it) and
the three properties. `SavedNeverLost`, `NoLostUpdate` and `NeverTorn` follow, and `FileIsRegister`, the refinement of `FileRegister`: `OutcomeIs` says what the register
sees of a request at each call, `KindsOfMoves` which steps of it a single request can be, and
`CallMoves` and `OthersMoveFile` go through the calls. The step that takes effect is `RemoveOld`, where `RequestInv` knows that what was displaced is what the client named.

**TrashSweep** (`FilesystemProofs`). `SweepSound` speaks of the moment at which a batch has dealt with its last item; what makes it true is
the moment at which the batch read the directory. `SweepInv` ties the two together: every item in Trash has a sidecar at some position (`Listed`),
so a batch that read to the end of the directory has in its `todo` every item that it does not pass over, and this stays so while it works
(`LeftToDo`), since what it takes off `todo` is gone, or passed over, or makes it give up the claim (`handled_all`), and clients wait for the lock.
`TodoKnown` is for names that one read returns twice: an item that is met again is gone wholly, with nothing left to remove. That the items
of a set of positions are those at the positions, each once, is `ItemsRead`, from the ranks (`RankIs`). `NothingOverlooked` follows.

**Upload** (`UploadProofs`). That the running figure is exact is not inductive: it needs that only the holder of the lock
changes the files a measurement counted (`WritersInv`: a request is at `measure` or `publish` just when the lock is its own, and a
verdict is kept only by a holder). It is exact but for the files that failed publications of the request left (`UsedFor`, which counts what was there before
them); `LeftInv` says that such a file is still there and the request's own, and `StagedInv` that nothing the request stages is to replace it, so no later file of
the request changes what is counted under its name. `RefusalInv` is the case that a reader of the code doubts: a measurement that gave up did so past the
limit *and* past what replacing any of the staged files could give back, and stays so while files are published one
after the other. `QuotaAlwaysSound` and `FilesAreJudgedAlone` follow. The usage of the share is a sum over names;
`SumChanged` and `OnePublished` say how one entry more, less or replaced changes it.

**Sessions** (`DatabaseProofs`). `RowsIssued` says that each row was inserted, and was last seen no later than the last request that
extended it; `Presented` that a token at work was issued and that only a call gets to the touch; `Drawn` that a token about to be inserted
is fresh and in nobody else's hands and that its user is configured. Without `Drawn` a rotation could bring an ended session back, so
`EndedAlwaysStaysEnded` needs all of it, as `SessionsAlwaysSound` does. `RowsDeleted` is the one
way in which the table shrinks, whoever deletes; the rotation (`RotateKeeps`), which prunes, trims by user and in all, and inserts, has the longest proof.

**SearchIndex** (`DatabaseProofs`). The question is what is still going to look at a directory whose rows are behind, and the answer is lost and made
good again in most steps of the worker. What a row may say of a file is not what it is but what it was since its last announcement (`Since`), a range that
silent writes extend and never shift (`MoreSince`). `IndexInv` adds to the property what keeps it so. `QueueSound`: a full queue ends with an overflow, so that an
event that does not fit is announced by it. `Arrives`: the listing in the worker's hands is still one that its directory has had since the last announcement, or an event says
otherwise; so the rows that it becomes are right when it is stored (`ReconcileKeeps`), although the share changed in between.
`WorkSound`: the maps of watches are inverse, hence a listing was made of the one directory that is watched under its path. `TaskSound`: between slices no bound is left unaccounted for.
A change to the share keeps this because each listing that it changes has an event (`ShareChanges`), a
step of the worker because it drops no promise to look (`PromisesStay`, `OwedStay`) or looks. The transaction is the longest part: `Reconciles` says, of the
names taken in any order with either bound met anywhere, that rows and total agree, that a listed directory that became known is pending, and that
a row which left has no row below it any more; so no directory becomes known without someone on the way to it. `IndexAlwaysSound` follows.

**SignIn** (`SignInProofs`). Four groups, each disturbed by few actions: `RequestsInv` (the shape of a request and who has not yet
arrived), `LimitsInv` (windows lie in the past, and `BlockedUntil`: the window that blocks a source is the one its attempts were counted
in, hence never the window that is evicted), `PoolInv` (a verification that runs has its request at it, or gone) and `CeremonyInv`
(`PendingUnused`: what is pending was begun by a request that is over and has not been accepted; `UsedRemembered`: a state that was accepted is
in the set until it expires, or was counted as dropped, by the bound or by a later clock; one that has expired may only be missing without that when no callback is left that came in
time: `InTime`). `LimitsAlwaysHold` and `CeremoniesAlwaysUsedOnce` follow.

**Thumbnails** (`ThumbnailsProofs`). `RequestsInv` says of each request what it holds at each step (`Fits`): memory for its key while it
decodes, whether or not its client is still there, and none before or after. `MemoryInv` then has free and held memory add up
to the capacity, `LocksInv` that the map has for a key the lock that its requests wait for, which one of them owns, and `StoreInv`
that the index lists each key once and counts it, and that a file which it does not list is in somebody's hands or was given up (`dropped`). `MemoryAlwaysWithinBudget` and `CacheAlwaysSound` follow; the
eviction loop is a choice of how many of the oldest keys go, and the lemmas about sequences say what remains.

**Archives** (`ArchivesProofs`). `JobsInv` says what a job has done at each step, in terms of its plan: what it has written is the part
of the plan before where it is, what it has extracted is what the entries before say (`Fits`, `WrittenIsListed`, `ContentsGrow`), and its charge is what its
tree costs (`WrittenIsCharged`). `LockInv` ties lease, staging and lock to one job, `QuotaInv` says that usage and the
allowance of whoever has measured fit together, `ShelfInv` that what is published was complete, `BudgetInv` that the files and the trees in staging are each no more than
the faults there were: a job that ends, cancelled or not, takes with it what it staged unless a removal fails (`EndsKeeps`), and a start adds nothing. `ArchivesAlwaysSound`, `NothingIsLeftBehind` and `JobsNeverReplace` (the part of `JobsFinish` that is not
liveness) follow.

**Paths** (`FilesystemProofs`). `PathInv` follows a walk from name to name: it is in a directory of the share (`OnTheWay`), on a disk on which no
directory leads out of those but `.crabinet` (`DiskSound`), whatever a disturbance moved, linked or unlinked; the names that are left were valid, so none
of them is `.crabinet`'s in any case. A file that was opened and belongs elsewhere still has a second name to be counted, or lost one.
That the disk stays sound is the longer part (`DiskPut`, `DiskUnlinked`), the counting of links the delicate one (`TwoLinks`). `WalksStayInside` follows.

**TrashListing** (`FilesystemProofs`). What a compaction drops is what makes the proof: `NoneLost` says of each item that stayed that it is listed, or lies
behind the cursor and is still to be read or kept, or that `limit + 1` items of this page come before it (`Reached`), so that it will lie
behind the next cursor too. `KeptSound` has the kept items in order and all behind the cursor; both are kept by an item that goes to its place (`KeepsItem`), by
the end of a page, which sets the cursor (`EndPageKeeps`), and by the others, who replace sidecars but not the time of a deletion. `OnceOrTwice` counts how often a name may yet come back:
once more for an item that was just published, never for one that was there at first. `ListingAlwaysWhole` follows.

**Identity** (`SignInProofs`). A callback is one handler, so the proof is about its functions. `CallbackSignsIn` goes from the checks of the token
(`VerifyIs`) over the email (`VouchedIs`) to the account (`LoginIs`), which is the only one with that email since the configuration was
accepted. `SafePathStays` compares two readings of one path, the service's, which decodes it, and a browser's, which takes away dots
and does not decode slashes: what is a dot or a slash to the browser is one to the service. `AccountAlwaysTheirs` follows, from the assumption
`CallbackQuestion` that the keys that the provider publishes are its own.

**Preferences** (`SignInProofs`). A setting is what the last change that names it says (`SetBy`), and `SetByAppend` how one change more
alters that. `Stored` ties the row to the changes: dropping a row that is the default (`DeleteIs`) loses nothing. `Follows` says what a request
knows at each of its transactions: the folder that it read was the setting at some moment since it began, or at some moment since there was
none to answer; both stay true when others store and folders go (`FollowsOn`), which lets each step be checked for its own request only.
`SettingsAlwaysKept` follows.

Sums over finite sets are those of the community modules, whose folds cannot be reasoned about by induction over sets here. What the proofs need of
them (a sum with one element more, or with one term changed) is proved with a well-founded order on the numbers: were it false, there would be a
smallest set for which it fails. Each module of proofs has these lemmas for its own sums.

Only model-checked: all liveness (`TrashDrains`, `SweepsEnd`, `EveryRequestEnds`, `EveryWriteEnds`, `CatchesUp`, and what `JobsFinish` says of the
end of jobs): temporal proofs with fairness are out of this prover's reach. Of the decisions, `Configuration`, `Media`, `Previews`, `Pictures`,
`Responses`, `Queries`, `Addresses` and `ZipWriter` are functions of data, by recursion or folds: their results for
every input would need induction over data, which is out of its reach as well.

## 5. What the models leave out

* A crash loses the process and not the directory: the state of the directory is as the calls
  left it. The code synchronizes files and directories at the places where a power loss would matter;
  that the disk honours it is assumed. `synced` in `PendingWrite` tracks that content is synchronized before it
  is published.
* Mutex poisoning and panics; a panicking worker ends like a failing call, except for locks of
  `std`, whose poisoning the code turns into errors.
* Outside changes inside `.crabinet`, which is private to the server. Outside changes of a share are modelled.
* A request refused at its subject's cap holds a permit for a moment, so another subject may be
  refused although a slot is free in effect: the gate does not promise otherwise.
* `begin_write` opens the destination folder before the body is received (`src/filesystem.rs:1039`). If the folder is moved meanwhile, the
  file lands where the folder is by then. Nothing says otherwise, and no model has it.
* A listing of the indexer is one step; the moment at which each entry is read within it is not modelled.
* Cryptography: signatures, hashes and seals are taken at their word, as are SQLite, inotify and the codecs.
* Not modelled: connection handling (a semaphore around a library's HTTP server, the routes, the mapping of errors to
  responses); the rewriting of HTML for frames; device checks; tar and the decompressors; the TOML schema; the web client, whose
  rules the server enforces again.

## 6. Plan

What is left, the most important first.

1. `Upload` and `SubjectGate`: that the gate of the one implements the other's abstract counting.
2. `PendingWrite`: moves of the folder that a request opened before its body was received (`src/filesystem.rs:1039`).
