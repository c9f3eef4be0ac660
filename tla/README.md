# TLA+ models of plakar's snapshot packer, repository state, backend and server

This directory holds TLA+ models of the parts of plakar (the sources under
`src/`) whose correctness depends on concurrency, ordering and failures.
Each model is checked with TLC. `PROJECT.json` lists:

- the components;
- the runs;
- the mutants used to show that each property can fail;
- the source lines each definition models (`map`);
- the findings;
- the hazards the code is exposed to.

## The system

| Part | Source | What it does |
|------|--------|--------------|
| Repository state | `src/repository/state/state.go` | Maps a blob checksum to its (packfile, offset, length) location. It keeps an intern table (`IdToChecksum` / `checksumToId`, under `muChecksum`) and five per-kind maps (`Chunks`, `Objects`, `Files`, `Directories`, `Blobs`), each under its own mutex. It also provides `Merge` of a delta, `Serialize` with a 4-byte version trailer, and `NewFromBytes`. |
| Snapshot session / packer | `src/unnamed/part_001` (package `snapshot`) | `New` starts `NumCPU` packer goroutines that read `packerChan` (capacity `2*NumCPU+1`). Each goroutine adds blobs to its own packfile and flushes it with `PutPackfile` once `Size() > PackfileSize`, and once more when the channel is drained. `PutPackfile` writes the packfile to the backend (and panics on failure), then registers every blob in `repo.State()` and in the session's `stateDelta`. `Put*` encode a blob and send it. `Check*`, `GetChunk` and `LookupObject` query `repo.State()`. `Commit` sends the header, closes the channel, waits for `packerChanDone`, and persists the delta with `PutState`. |
| Packfile builder | package `packfile` (not in `src/`) | `AddBlob`, `Size`, index. |
| Snapshot header | `src/snapshot/header/header.go` | Header data type and its msgpack serialization. |
| VFS entries | `src/unnamed/part_000` | `FileEntry` construction and serialization. |
| FS backend | `src/storage/backends/fs/fs.go` | `Put*` create and write in place. `Commit` writes a temp file and renames it. |
| Locate | `src/cmd/plakar/utils/locate.go` (first part) | `LocateSnapshotIDs`: filter snapshots with at most `MaxConcurrency` goroutines, then sort, then `Latest`. |
| plakard server | `src/cmd/plakar/utils/locate.go` (second part) | `Server` accepts connections; `Stdio` serves one on stdin and stdout without a repository. `handleConnection` decodes requests and runs one goroutine per request. The goroutines share the connection's `lrepository` and its encoder. |
| HTTP API | `src/api/api_repository.go` | Snapshot listing with `offset`/`limit` pagination in `uint32`. |
| Tests | `database_test.go`, `check_test.go` | Expectations only. |

How the parts interact:

- The producer (the scanner) calls `Put*` and the `Check*` dedup queries on
  one session.
- The workers share `repo.State()` with every other user of the
  repository. They also write the session's own `stateDelta`.
- The backend receives packfiles from the workers and the state from `Commit`.
- On load, the persisted deltas are merged into a fresh state with `Merge`.

The behaviours that make this hard:

- `NumCPU` workers flush independently.
- A packfile write can fail, which panics and ends the process between the
  backend write and the registrations.
- `PutState` and `PutHeader` can fail.
- The channel is bounded.
- `Commit` waits on a latch that only fires once every worker has returned.
- Location maps are shared across mutexes in ways the spec does not intend.

## Modules

### `RepoState.tla`: the repository state as values

Every state-changing method of `state.go` is an operator that takes a state
record and returns the new one. The record has these fields:

- `IdToChecksum` is a sequence. The id `i` is position `i+1`, so ids stay
  contiguous, as `uint64(len(st.IdToChecksum))` makes them.
- `maps` maps a map name to a function from id to `Location`.
- `Extends`, `Version` and `dirty`.

`checksumToId` is not stored. `IdOf` derives it, which is exactly what
`rebuildChecksums` guarantees.

The operators:

- `getOrCreateIdForChecksum` interns a checksum.
- `SetPackfileFor(st, kind, pf, c, off, len)` stands for the five setters. It
  interns the packfile and then the blob. It tests `GuardMap[kind]` and
  writes `TargetMap[kind]`. These two tables carry the code's asymmetry: the
  File, Directory and Blob setters test their own map but write `Objects`.
- `ExistsAnswer`, `GetSubpartFor` and `AfterLookup` model the lookups. Every
  lookup interns the checksum it is given, so `AfterLookup` is a state
  change. `BlobExists` reads `Directories`, which `ExistsMap` records.
- `Merge` replays the five maps of a delta through the setters.
  `MergeEntries` is `RECURSIVE`.
- `Serialize` and `NewFromBytes` keep the persisted fields and the version
  check.

`Snapshots` and `SetPackfileForSnapshot` are called by the snapshot package
but are not in this revision of `state.go`. They are modelled from the spec
as a sixth map with first-writer-wins. `SetPackfileForData`, also called
there, is taken to be `SetPackfileForBlob`.

### `Packer.tla`: one snapshot session

Constants:

- `NumCPU`
- `Msgs`: the blobs the scanner may put, each `[type, mac, size]`.
- `HeaderMac`, `HeaderSize`
- `PackfileSize`
- `MaxPuts`: the named bound on the producer.

Variables:

- `packerChan` (a sequence) and `chanClosed`.
- `puts`: a history of the sent messages.
- `session`: `running`, `closed`, `committed` or `failed`.
- Per worker: `pack` (the packfile index, where `<<>>` is nil), `seen` (the
  six per-type sets as [type, mac] pairs), `flushing` and `phase`.
- The backend: `packfiles` and `states`.
- `repoState` and `stateDelta`.
- `crashed`.

| Action | Code |
|--------|------|
| `Put(m)` | `PutChunk`, `PutData`, `PutObject`, `PutFile`, `PutDirectory`: the send blocks while the channel is full |
| `Lookup(c)` | `GetChunk`, `Check*`: the lookup interns `c` in `repo.State()` |
| `CommitSendHeader` | `Commit` up to `close(packerChan)`, or its early return when `PutHeader` fails |
| `CommitPutState` | `<-packerChanDone` (every worker exited), `Serialize`, `PutState`, which succeeds or fails |
| `Receive(w)` | one iteration of the worker's range loop: new packfile and cleared sets if nil, `AddBlob`, record, and flush if `Size() > PackfileSize` |
| `Drain(w)` | end of the range loop: flush a non-nil packfile, else return (`wg.Done`) |
| `WritePackfile(w)` | `PutPackfile` up to the backend write; a failure panics (`crashed`) |
| `Register(w)` | `PutPackfile`'s loops: every recorded blob is set in `repo.State()`, then in `stateDelta`, in the order chunks, objects, files, directories, datas, snapshots, at the first index entry with its checksum |
| `Terminated` | nothing is left to run (committed, failed, or crashed) |

Some granularity choices:

- One `PutPackfile`'s registrations are one step. No property reads the
  state between them, and each single call is atomic under the state's
  mutexes.
- The zeroed checksums that `make([][32]byte, len(x))` puts in front of each
  list are not modelled. The inner loop never finds them in the index, so
  they change nothing.
- Checksums are model values and sizes are small naturals. Encoding, the
  statistics and profiling are left out.

`MCPacker.tla` defines the message sets for TLC.

### `StateLocking.tla`: the mutexes of `state.go`

This module models the callers of one `State`. For example, two packer
workers write the shared `repo.State()`, or a worker writes while the
producer runs `Check*`.

Each thread runs a bounded number of calls. A call is split into the steps
its code takes, in this order:

1. `Call`
2. `InternPf`: only for setters.
3. `InternC`
4. `Lock`: `mu<Kind>.Lock()`, which blocks while the mutex is held.
5. The map access:
   - `Check`, the guard read of a setter;
   - `Write`, the insert into the target map;
   - or `Read`, the map read of a lookup.
6. `Resolve` and `Resolved`: `muChecksum.Lock()`, then the `IdToChecksum`
   read and `muChecksum.Unlock()`. Lookups do both while holding the kind
   mutex.
7. `Unlock`

`owner` includes `muChecksum`. An intern takes no other lock inside
`muChecksum`, so it is one step that waits for `muChecksum` to be free. A thread
whose `pc` is at a map access is performing that access. Two threads at
conflicting accesses to one map is therefore the concurrent access that
Go's runtime aborts on, the same encoding that Disruptor-style specs use for
data races.

The registering threads hold a chunk and an object in the pass run, and an
object and a file in the race run. The lookups include `BlobExists`, which
reads `Directories` under `muBlobs`.

### `Locate.tla`: `LocateSnapshotIDs`

The calling goroutine walks `ListSnapshots`. For each snapshot it puts a
token in `maxConcurrency`, which blocks while the channel is full, calls
`wg.Add(1)`, and starts a goroutine (`Spawn`). The goroutine does:

1. `Filter`: `snapshot.Load`, which may fail, then the filters. All the
   filters together are one constant set, `Match`.
2. `Lock`: `workSetMutex.Lock()`.
3. `AppendRead` and `AppendWrite`: the read and the store of `append`.
   They are two steps, so a missing lock would lose an append.
4. `Unlock`.
5. `Exit`: the deferred token release and `wg.Done()`.

`Return` is `wg.Wait()` followed by the tail of the function: the stable
sort (`StableSort`, an insertion sort that keeps equal timestamps in order),
the `Latest` cut to the last element, and the IDs (`Finish`). The options
are chosen nondeterministically in `Init`, so one run covers every sort
order, with and without `Latest`.

### `Paginate.tla`: the page of `repositorySnapshots`

`Page(n, offset, limit)` is the handler's branches over `len(headers) = n`:

- `limit == 0` means all.
- An offset beyond the end gives an empty page.
- When `offset + limit > n`, the page is `[offset:]`.
- Otherwise it is `[offset:offset+limit]`.

The sum is `AddU`, `uint32` addition modulo `2^Width`. A slice expression
with `hi < lo` or `hi > n` is a panic. `Expected` is the reference: the
items from `offset` on, at most `limit` of them, with no overflow. Each
step is one request.

### `KVStore.tla` and `FSBackend.tla`: the filesystem backend

`KVStore` is the backend contract of spec section 4, stated abstractly.
A key is absent (`NotFound`) or holds a whole value. `Put` and `Delete`
change it in one step, and `Get` returns what it holds. It models no code.

`FSBackend` models `fs.go`. Each method is split at its system calls,
because another caller or a crash can come between two of them:

| Action | Code |
|--------|------|
| `Create`, `CreateConfig`, `WriteConfig` | `Create`: `os.Mkdir(root)` (an error if it exists), `os.Create(CONFIG)`, `f.Write`; each error returns |
| `PutSnapshot`, `PutBlob`, `PutPackfile`, `PutIndex`, then `PutWrite` | `os.Create(path)`, which truncates an existing file in place, then `f.Write` |
| `Commit`, `TxCommit`, then `CommitWrite`, `CommitRename` | `os.CreateTemp`, `f.Write`, `f.Close` and `os.Rename` onto the final path |
| `GetSnapshot`, `GetBlob`, `GetPackfile`, `GetIndex` | `os.ReadFile` |
| `DeleteBlob`, `DeletePackfile`, `DeleteIndex` | `os.Remove` |
| `DeleteSnapshot`, then `RemoveAll` | `os.Rename` into `purge/`, then `os.RemoveAll` |
| `GetSnapshots`, `GetBlobs`, `GetPackfiles`, `GetIndexes` (`ListStart`), then `ListBucket` per bucket, then `ListReturn` | `os.ReadDir` of the kind's directory (an error without the layout), one `os.ReadDir` per bucket in name order with its entries appended, then `return ret, nil` |
| `Crash(c)` | the process of caller `c` dies between two calls |

A path maps to a file record `[ino, v, full]`. `ino` is the inode.
`WriteThrough` writes through an open descriptor to wherever that inode is
now linked, which is how POSIX behaves after a rename. `full` says whether
the write completed, and a reader of a partial file gets `Torn`. A crash
keeps the files as they are. Write-back caching and power loss are not
modelled.

The refinement maps each key in `AtomicKeys` to `Reading(disk[k])`, and
each caller's last read of such a key to `got`. `KVStoreRefined ==
KV!Spec` is checked as a temporal property. The type invariant `TypeOK`
also says that no inode is linked at two paths.

A listing is not atomic: a bucket is read in its own step, and other
callers' steps come between. `BucketOf` places each key in a bucket, and
`Namespace` gives the keys each listing reads. `during` is a history
variable. `Observe`, conjoined to every step, records in it the keys of the
listed kind present in some state and in every state of the listing.
`ListingBetween` says that a listing returns only keys that existed during
it, and every key present throughout once its bucket is read. It does not
say that the result is one state of the directory, because it is not: a
snapshot deleted after bucket 0 is read and one committed before bucket 1
is read are listed together.

`MCFSBackend.tla` defines:

- the two callers and the two snapshots (`s1` is written by the commits
  and deleted, `s2` by `PutSnapshot`);
- one blob, one packfile and one index key;
- two buckets, with `s1` in bucket 0 and `s2` in bucket 1;
- two values;
- the call sets of the three runs.

### `Sessions.tla`: successive sessions and restarts

`Sessions` runs several snapshot sessions against one repository, with
process restarts between them. One process holds `repo.State()`. Each
session has its own delta.

| Action | Code |
|--------|------|
| `NewSession` | `snapshot.New`: a new delta that extends `repo.State()`'s lineage |
| `Reference(b)` | the scanner adds `b`: `Check<Kind>` looks it up (interning it) for chunk, object, file and directory, and the blob is put only when not found; data has no check |
| `Flush(b)` | a worker's `PutPackfile`: write the packfile, then `SetPackfileFor<Kind>` in `repo.State()` and in the delta |
| `Commit` | after every put blob has been flushed: `Serialize` the delta and `PutState` it, which succeeds or fails |
| `Restart` | the process ends and a new one opens the repository: `Loaded` merges every persisted state into `New()` with `Merge` |

The packer's workers, channel and flush conditions are abstracted to one
step per blob; `Packer` checks those. `Loaded` is a recursive fold of
`RS!Merge` over the persisted states.

`MCSessions.tla` gives a chunk `c1` and a file `f1`.

### `Server.tla`: the plakard server

`Server` models both entry points of `handleConnection`. `Server`
(plakard over TCP) runs with a repository, so each connection's
`lrepository` starts as the server's own. `Stdio` serves one connection on
stdin and stdout with `repo == nil`, so the client must `Create` or `Open`
first. `repo` is a variable that never changes, chosen in `Init` from the
constant `Entries`; `Stdio` needs `Conns` to have one element. A repository
is named by its location, and the states and packfiles of a location are
sets of keys.

| Action | Code |
|--------|------|
| `Init` | under `Stdio`, the direct call of `handleConnection(nil, os.Stdin, os.Stdout, ...)` |
| `Accept(c)` | `Server`'s `l.Accept()` and `go handleConnection` |
| `Send(c, r)`, `Hangup(c)` | the client: it sends a request, or closes its end |
| `Decode(c)` | `decoder.Decode`, then the switch: a known type gets `wg.Add(1)` and a goroutine; an unknown one is printed and gets no answer |
| `DecodeError(c)` | `Decode` fails on the closed connection and the loop breaks |
| `Return(c)` | `wg.Wait()` returns |
| `ServeCreate`, `ServeOpen` | `storage.Create` or `storage.Open`, then `lrepository, err = repository.New(st, nil)`, assigned even on failure |
| `ServeOpen` under `Stdio` | a successful open calls `repo.Configuration()` on the nil `repo` and panics |
| `ServeClose` | nothing under `Server`; `lrepository.Close()` under `Stdio`, which panics on a nil `lrepository` |
| `ServeGetStates`, ..., `ServeDeletePackfile` | the other cases: one call on `lrepository`; a nil one panics; `NoDelete` refuses the deletes |
| `Reply(c, n)` | `encoder.Encode(&result)`, then the deferred `wg.Done` |

`gob.Encoder.Encode` takes the encoder's own mutex, so an answer is
written in one step. A panic in any goroutine ends the process
(`crashed`).

`repository.New` on a failed storage call is not in `src/`, so the model
lets it either panic or return nil. The answers' payloads and error
strings are left out. So are the client's use of `Uuid` and the gob
encoding.

The client is unconstrained: it may send a request before the earlier
ones are answered (pipelining). Each goroutine is a step up to its answer,
so the model does not split the unsynchronized read of `lrepository` by a
request goroutine from the write by a `Create` or `Open` goroutine of the
same connection. That data race (`locate.go:271`) is listed as a hazard
without a property.

`MCServer.tla` has the server's repository at `l0`, a second location `l1`,
and one key `k1`. Its request set has one request of each type, plus one
of a type with no case.

## Runs

| Run | Config | Expect | Shows |
|-----|--------|--------|-------|
| `packer_safety` | `MCPacker_safety.cfg` | pass | `TypeOK`: the types, and a worker's per-type sets name exactly the blobs of the packfile it builds or flushes; `LocationsResolve`: no location in `repo.State()`, in the delta, or in a persisted state names a packfile the backend lacks, even across a crash; `CommittedDeltaComplete`: a committed delta registers every put blob and the header; `PackfileSizeBound`: each packfile is at most `PackfileSize + max blob size` |
| `packer_liveness` | `MCPacker_liveness.cfg` | pass | `CommitTerminates`: after the close, `Commit` returns or the process has crashed |
| `statelocking_safety` | `MCStateLocking_safety.cfg` | pass | `TypeOK` (keys and packfile ids are interned ids); `NoDataRace`: no two threads access one map with one writing; `WaitsOnRunnable`: every thread blocked on a mutex waits for a thread that is inside a call and not itself blocked. This shows that the lookups' kind-then-`muChecksum` order, the reverse of spec 5's, creates no wait cycle and leaks no lock (1.25M states) |
| `statelocking_objects_race` | `MCStateLocking_objects_race.cfg` | violation | `NoDataRace` fails: `SetPackfileForFile` writes `Objects` holding `muFiles` while `SetPackfileForObject` reads it holding `muObjects` (`state.go:494`) |
| `locate_safety` | `MCLocate_safety.cfg` | pass | `TypeOK`; `ResultIsFound`: without `Latest`, the result holds every snapshot that loaded and passed the filters, exactly once, sorted when a sort order is given, under every interleaving of the appending goroutines; `LatestIsNewest`: with `Latest` and the ascending order, the result is the newest found snapshot |
| `fs_safety` | `MCFSBackend_safety.cfg` | pass | `KVStoreRefined`: with `AtomicKeys = {s1}`, every behaviour of two callers is a behaviour of the key-value contract for the snapshot `Commit` writes. This holds through concurrent commits, deletes, reads and one crash, because temp-file-and-rename is atomic. `TypeOK`: no inode is linked at two paths. `ListingBetween`: a bucket-by-bucket listing returns only keys present at some point of it, and every key present throughout (474k states, symmetry on the callers) |
| `fs_packfile_atomic` | `MCFSBackend_packfile_atomic.cfg` | violation | `KVStoreRefined` with `AtomicKeys = {p1}` fails. After `PutPackfile`'s `os.Create`, a reader sees an empty file, and after a crash it stays torn (`fs.go:327`) |
| `sessions_safety` | `MCSessions_safety.cfg` | pass | `TypeOK`: the types, and no put blob is left once a session has ended. `StatesResolve`: every location in `repo.State()`, in the delta and in the reloaded state names a written packfile that holds that blob. `LoadKeepsLocations`: `Merge` of the persisted states loses no location (7.7k states) |
| `sessions_dedup_after_failure` | `MCSessions_dedup_after_failure.cfg` | violation | `CommittedRefsLocatable` (spec 8.7) fails. Session 1 flushes `c1`, and its `PutState` fails. Session 2 finds `c1` through `CheckChunk` in `repo.State()`, so it does not put it, and commits. After a restart, `c1` has no location (`part_001:642`) |
| `server_safety` | `MCServer_safety.cfg` | pass | `TypeOK`: `wg` counts the goroutines that have not answered. `ConnectionReturns`: once the client hangs up, `handleConnection` returns unless the process has ended. Both entry points are checked (468k states) |
| `server_getpackfile_panic` | `MCServer_getpackfile_panic.cfg` | violation | `NoPanic` fails. A `ReqGetPackfile` for a packfile the repository lacks sets `retErr` and then calls `io.ReadAll` on the nil reader. The panic ends `plakard` for every connection (`locate.go:518`) |
| `paginate_overflow` | `Paginate_overflow.cfg` | violation | `PageMatchesRequest` fails: `offset = n` and `limit = 2^Width - n` make the `uint32` sum wrap to 0. The bounds test passes and `headers[n:0]` panics (`api_repository.go:59`) |

Bounds:

- Two workers, so the channel capacity is 5.
- Three puts over {chunk `c1` of size 2, object `o1`, file `f1`}, plus a
  header of size 1.
- `PackfileSize = 2`.

With these bounds, a packfile flushes in the middle of the stream when a
chunk is followed by another blob. Messages split over both workers. Both
size-triggered and final flushes happen, duplicates are put, and the
channel's ordering matters. The safety run explores about 1.3M distinct
states in under a minute.

For StateLocking there are two threads, each making two calls. The calls
are over one blob of each registered kind, two packfiles, and the three
lookup methods. A second registration of the same blob, by the same thread
or by the other one, and every interleaving of two calls between their
steps are covered (1.2M states).

Locate has three snapshots with timestamps 1, 2 and 3, two of which
(`s1`, `s3`) pass the filters, and `MaxConcurrency = 2`. So goroutines
overlap and hold the mutex in turn, the newest found snapshot can be
appended before an older one, a load can fail, and the token channel fills
(2.7k states). Paginate uses `Width = 4` and at most 3 headers. Every
`offset` and `limit` below 16 is enumerated, so the wrap of `offset + limit`
past `2^Width` is reached at each `n`, exactly as `2^32` is in the code.

Server has one connection of up to three requests, under `Server` and
under `Stdio`, and `NoDelete` is either value. That covers pipelined requests served in any order: a
`Create` and an `Open` whose effects land in the opposite order to their
answers, and a request sent while an `Open` is still running. It also
covers a wait for each answer around a `Create` or `Open`, and a hangup
with goroutines still running. Connections share only the backend, and
one connection's pipelined requests already reach every interleaving of
backend calls (404k states in about a minute and a half).

FSBackend has two callers, each making at most two calls, and one crash.
So two calls on one key interleave at every syscall boundary: a commit
against a commit, a delete or a read; a put against a read. A crash can
land between any two syscalls of a call. A listing runs against any of
these calls. The run takes symmetry on the two callers, which are
interchangeable: Init gives them the same state, and every property
quantifies over both (474k states in about a minute and a half).
Sessions runs three sessions over a chunk and a file with one restart.
So a blob is flushed in one session and deduplicated in a later one, a
commit fails, and a restart reloads two or more deltas.

The liveness run drops the object and uses `MaxPuts = 2`. That keeps the
liveness graph small (22k states), and every flush path is still reachable.

Each property of a passing run has a mutant in `PROJECT.json` that TLC
catches:

- `ReceiveNoClear` (a new packfile without new per-type sets) breaks
  `TypeOK` of Packer.
- `RegisterBeforeWrite` breaks `LocationsResolve`.
- `DrainNoFlush` breaks `CommittedDeltaComplete`.
- `ReceiveNoReset` breaks `PackfileSizeBound`.
- `InternCKeep`, which loses the deferred `muChecksum.Unlock()` of
  `getOrCreateIdForChecksum`, breaks `WaitsOnRunnable`.
- `DrainNoExit` breaks `CommitTerminates`.
- A write keyed by the next fresh id breaks `TypeOK` of StateLocking.
- `LockMissing` breaks `NoDataRace`.
- `ExitDoubleDone` (a second `wg.Done`) breaks `TypeOK` of Locate.
- `LockMissing` of Locate breaks `ResultIsFound`: two appends read the same
  slice and one element is lost.
- `FinishKeepFirst` (`workSet[:1]`) breaks `LatestIsNewest`.
- `CreateTempInPlace` (commit by `os.Create` on the final path) breaks
  `KVStoreRefined`.
- `DeleteSnapshotLink` (a rename that keeps the old link) breaks `TypeOK`
  of FSBackend.
- `ListBucketOverwrite` (`ret = indexes` in place of the append) breaks
  `ListingBetween`.
- `CommitNoWait` (no `<-packerChanDone` before `PutState`) breaks `TypeOK`
  of Sessions.
- `MergeNoTranslate` (copying a delta's ids without translation through
  its intern table) breaks `StatesResolve`.
- `MergeSkipObjects` breaks `LoadKeepsLocations`.
- `DecodeAddAlways` (`wg.Add(1)` before the switch) breaks `TypeOK` of
  Server.
- `DecodeErrorContinue` (`continue` instead of `break` on the decode
  error) breaks `ConnectionReturns`.
- The mutants of Paginate are not listed, because its only run is a
  violation.

## Fairness

There is weak fairness for each worker's steps and for `CommitPutState`.
Go's scheduler eventually runs every runnable goroutine. A worker's next
step is enabled until it takes it: a receive on a non-empty channel, a
drain, a write, or a registration. `Commit`'s `<-packerChanDone` is likewise
enabled until it runs. There is no fairness on the producer, so a scanner
may stop putting at any time. There is also none on `Commit` closing the
channel. `CommitTerminates` is therefore stated from the close onward.

Locate is checked for safety only, but with deadlock checking on. Its only
stuttering step, `Terminated`, is enabled after the return. A state with no
step left would be one where the loop blocks on a full token channel, or
where `wg.Wait()` never returns. TLC finds no such state with
`MaxConcurrency = 2`. With `MaxConcurrency = 0` the first send would block
forever, which is the uncovered hazard at `locate.go:85`.

FSBackend and Sessions are checked for safety only, so they need no
fairness. Deadlock checking is on: `Terminated` and `Done` are the only
stuttering steps, and both are enabled only when every call or session
has finished.

Server has weak fairness on the accept loop, each connection's decode
loop, `wg.Wait()` and each request's goroutine, because Go's scheduler
runs every runnable goroutine. The clients have none: a client may stop
sending and never hang up. `ConnectionReturns` is therefore stated from
the hangup onward.

## What is not modelled, and the plan

Five defects were found while modelling that no run checks. The run list
is kept to the defects with the most lasting effect:

- `HeaderRegisteredLast` (spec 4.3). The header can be registered in the
  delta while another worker still holds an earlier blob. This shows only
  in the running process, because the delta is persisted after every
  worker has flushed. `PROJECT.json` lists it as a hazard at `part_001:542`.
- `SetPackfileForFile` (and the directory and blob setters) write
  `Objects` while `GetSubpartForFile` reads `Files`, at `state.go:494`.
  This is the line of the race that `statelocking_objects_race` shows.
  Because the test reads one map and the insert writes another, each
  registration of a file, directory or data blob inserts it again and the
  last location wins, against spec 8.5 (exactly once, first writer wins).
  `AtMostOnceInsertion` fails on `MCSetBlobsFile`; the passing
  `statelocking_safety` registers only a chunk and an object, so it does
  not check this.
- `fs.go:86`: `Create` returns after `os.Mkdir(root)` when
  `os.Create(CONFIG)` or the write fails. This leaves a root that `Open`
  cannot read and that a second `Create` refuses. `FSBackend` has these
  steps.
- `locate.go:310`: under `Stdio`, every `ReqOpen` whose `storage.Open`
  succeeds calls `repo.Configuration()` with `repo == nil` and panics.
  `NoPanic` with `Entries = {"Stdio"}` fails on `Send`, `Decode`, then
  `ServeOpen`. The panic run keeps `Entries = {"Server"}` so that it shows
  the `locate.go:518` panic instead.
- `part_001:627`: `Commit` returns on a failed `PutHeader` before
  `close(packerChan)`. The workers stay in their `range` loop for good.
  `Packer`'s `CommitSendHeader` has this early return.

The plan for the next work:

1. **Repository open**: `Sessions` models state loading from the spec's
   description; the open path itself is not in `src/`.
2. The hazards in `PROJECT.json` with an empty `properties` list:
   - the temp file that a failed `Commit` leaves behind (`fs.go:433`);
   - the rename from `os.TempDir()`, which fails across filesystems
     (`fs.go:445`);
   - `MaxConcurrency = 0` in Locate;
   - `ReqOpen` answering with the server's configuration (`locate.go:310`);
   - repositories that `ReqClose` never closes under `Server`
     (`locate.go:333`).

Not modelled at all:

- The header and `FileEntry` serialization: pure data conversion.
- The database and S3 backends: I/O, and not in `src/`.
- The tests.
- The API handlers other than the page selection (`repositoryStates`,
  `repositoryState`, `repositoryImporterTypes`, and the load loop of
  `repositorySnapshots`). Each lists, loads and encodes through
  `RebuildState`, `GetStates`, `GetState` and `snapshot.Load`, none of
  which is in `src/`. A snapshot deleted during the listing makes the
  whole request fail (`api_repository.go:45`), as `ListingBetween` allows.
  Checking that needs a run of its own, and every one of the twelve runs
  the project keeps shows more.
- `MaxConcurrency = 0` in `LocateSnapshotIDs`: no caller in `src/` builds
  such options, since `NewDefaultLocateOptions` sets 1.
