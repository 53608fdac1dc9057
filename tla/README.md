# A TLA+ model of zarr

This directory holds TLA+ specifications of the Go library in `src/`, an
implementation of Zarr version 3 (`zarr`), with a database of scenes over it
(`geodb`), geographic rasters (`geozarr`) and stores (`s3`, `gcs`, `azblob`,
`http.go`). TLC model-checks them on small instances and TLAPS proves theorems
about them for all. `PROJECT.json` maps every definition to the lines it is
translated from, and lists the runs, the hazards and the findings.

    tlc -workers 2 -config KeyLocks.cfg MCKeyLocks.tla
    tlapm KeyLocksProofs.tla

## Inventory

| Component | State | Operations | What is hard | What makes it correct |
|---|---|---|---|---|
| Locks of stored objects (`concurrent.go`) | a process-wide map of locks, each a channel of one and a count of users | `exclusive`: `lock`, unlock, `release` | locks come and go with their users; a wait ends with its context | one holder per key; a lock lives while it is used; everyone is served |
| Loop over stored objects (`concurrent.go`) | an atomic counter, the first error, a derived context | `eachSpan` with `Array.limit` goroutines | failures cancel the others, whose errors race the first; the caller cancels | nil means everything was done; the error is the cause; no index twice; it returns |
| Writes (`array.go`) | the stored objects; nothing in the handle but its shape | `Write`, `WriteChunk`, `Read` | calls share stored objects they cover in part; store calls fail before or after taking effect | no call changes another's elements; nil means written |
| Shape (`resize.go`) | the metadata document, and the shape each handle keeps | `Append`, `Resize`, `Refresh` | several store calls, of which any may fail; stored objects reach past the end | what is past the end reads as fill when the array grows; nothing unfinished shows |
| Shards (`shard.go`) | one value: chunks end to end, and an index | `assemble`, `split`, `patchShard`, `openStored` | offsets move with every write; an index is read before the chunks | a chunk reads as itself; no shard is written that is refused |
| Nodes (`array.go`, `group.go`, `metadata.go`, `delete.go`, `v2.go`) | documents under paths | create, open, list, delete | a delete that stops part way; a listing while nodes come and go; two creates at once | nothing opens that has lost its chunks; a create replaces no node of version 3; what is listed was there; version 2 is only read |
| Stores (`store.go`, `http.go`, `s3`, `gcs`, `azblob`) | keys and values | `Get`, `GetRange`, `Set`, `Delete`, `List` | a `Set` of several steps that stops; ranges at and past the end; servers that ignore them or answer others; two requests for one range | a range is the bytes asked for, of one value, or an error; a value is whole |
| Codecs (`codec.go`, `dtype.go`, `shuffle.go`, `limit.go`, `zstd`) | none | encode, decode, bounds | sizes that overflow | decode undoes encode; bounds hold |
| Cache (`geodb/cache.go`) | least recently used values, a byte count, reads under way | `Get`, `GetRange`, `Set`, `Delete`, `Purge` | reads join reads, which are cancelled; writes overtake reads | what is kept and answered is no older than the last write that returned; the count is what is held |
| Tiles (`geodb/tile.go`, `geodb/db.go`) | arrays per variable, times, an index and statistics per generation of parcels; a state per process | `CreateTile`, `AppendScene`, `BackfillStats`, `indexParcels`, `reload` | failures and restarts between two writes; readers in other processes; the times are the commit, and the statistics have none | a reader sees whole scenes and never fewer; what a failure left is cut off; statistics are of their scenes |
| Weather (`geodb/weather.go`) | values per variable, a `steps` attribute; samples per generation, with one of their own | `CreateWeather`, `Append`, `SampleParcels`, `reload` | as tiles; samples that are made later, in blocks, from what is read back | as tiles; samples are of their steps |
| Parcels (`geodb/parcels.go`) | generations of parcels, which is current, which was before | `PutParcels`, `loadParcels`, `dropGenerations` | a switch while readers have the old generation and what was made for it | a reader that has yet to refresh finds all of the generation before |
| Queries (`geodb/composite.go`, `query.go`, `stats.go`, `server.go`) | none; composites are arrays | series, histories, `UpdateComposites` | composites have no marker; statistics that lag behind scenes | what is made equals what would be worked out |
| Sampler (`geozarr/sampler.go`) | a bounded cache of chunks | `At`, `Points`, `Forget` | lookups at once, forgetting beside them | values are the array's; the bound holds |
| Rasters, zones, units (`geozarr`) | none | windows, statistics, unit documents | floating point | merges equal the whole |

How they interact: `Read`, `Write` and `Resize` run their work on stored objects
in `eachSpan`, and every piece of that work that reads, patches and writes back
runs in `exclusive`. `Append` is a `Write` through a handle with the new shape,
and then the metadata. A shard is patched by `patchShard` inside that lock, and
read without one. `geodb` reads and writes arrays, through `CachedStore` if one
is put under it, and commits a scene by what it appends last. In the process that
writes, `AppendScene`, `Append` of weather and `PutParcels` run in goroutines of
their own, with a lock per tile and per source; the parcels they share are read
without one. A process that reads has nothing of theirs but the store.

## Plan

Ordered by what most depends on it. Done, in this order:

1. `KeyMutex`, `KeyLocks`: the lock (proved).
2. `EachSpan`: the loop (proved).
3. `RegionWrites`, `StoredWrites`: concurrent writes over `KeyMutex` (proved).
4. `GrowArray`: shape, failures, handles (proved).
5. `ShardRead`: layout, patching, and readers of shards (proved).
6. `CachedStore`: the cache (proved).
7. `Parcels`, `Scenes`, `Weather`, composed in `Geodb`, over the abstract
   `SceneLog` (every invariant of its run proved).
8. `KeyStore`, `Objects`, `Nodes`, composed in `Stores` (proved).

Left:

9. Composites: `UpdateComposites` beside `AppendScene`, with periods as a third
    kind of array of `Scenes`.
10. The sampler, whose cache has the shape of `CachedStore`.
11. Pure algorithms against reference definitions: `region` and `overlap`,
    `spanInto` and `spanOf`, `eachRun` and `copyBlock`, `limit.go` with a width,
    `period`, `reduce`.

The abstract specifications are `KeyMutex` (of `KeyLocks`), `RegionWrites` (of
`StoredWrites`), `SceneLog` (of `Scenes` and of `Weather`) and `KeyStore` (of
`Objects`).

## Modules

### KeyMutex and KeyLocks: the lock of a stored object

`KeyLocks` is `keyLocks` as it is written: `held` is the map, and a `keyLock`
is an address in `Locks` with its channel `full` or not and its `users`. What
runs under `keyLocks.mu` is one action: `Lookup` (the map lookup, the lock made
if there is none, `users++`) and `Leave` (`release`). Between the two a task is
in the select of `lock`, which `Send` and `GiveUp` end, or holds the lock until
`Receive`, the first half of unlock. A context may end at any time (`Cancel`),
also after the lock is held, and when both cases of the select are ready either
is taken. An address is used again only when nothing points at it, which is
what a garbage collector gives; as many addresses as tasks are enough, and the
proof assumes no more.

`KeyMutex` is all that `exclusive` relies on: a key has a holder or none, and a
task holds one key at a time (`concurrent.go:68-70`). `holderOf` is the
refinement mapping.

### EachSpan: the loop over stored objects

The call is chosen at the start: how many indices, which of them fail, and
`Array.Concurrency`. The loop of one goroutine and the loop of many are both
there. A worker's turn is split where another worker can come between: the
counter is taken (`Take`), the bound and the context are looked at (`Check`),
`f` runs (`Complete`, `Fail`), its error is recorded under the mutex (`Record`),
and the others are cancelled (`CancelOthers`). `f` fails of its own where
`broken` says so, and may fail with a context error at any index once its
context is done; it need not, since it may not look. `Propagate` is the caller's
cancellation reaching the derived context.

### RegionWrites and StoredWrites: writes side by side

`StoredWrites` has writers with regions that do not overlap, which is the
callers' part of the bargain (`CallersAssumption`). A call works on the stored
objects of its region independently, as `eachSpan` lets it: lock, load and
patch, save, unlock, each of which may fail, and the save also after it took
effect. The lock is `KeyMutex`, instantiated. A stored object that is all fill
is deleted unless `WriteEmptyChunks`.

`RegionWrites` is what the documentation of `Write` promises (`array.go:808-820`):
an array of elements, of which a call changes those of its region only, one
stored object at a time; one that succeeds has all of them as it wrote them, and
one that fails some of them. `array`, what `Read` would return, is the
refinement mapping.

### GrowArray: the shape

One call at a time, which is what `doc.go:67-68` asks of callers of `Resize` and
`Append`; within a call the stored objects are done in any order, and any of
them may fail, before or after the store took the value, as may the write of
the metadata. `store` has a value for each element of the cell of a stored
object, those past the end included. `layout`, chosen at the start, says whether
the array is sharded, whether shards are patched, and `WriteEmptyChunks`.
`Patched` is what `Write` and `WriteChunk`
make of a stored object, through `patchShard` or the whole of it, and `Resized`
what `resizeStored` does; both end in `writeStored` or its like, which puts fill
past the end, so that is part of the action.

`want` is not in the code. It is what the documentation promises of each element
after each call: the value last written, fill for what was cut off or never
written, and nothing (`Any`) for what a call that failed had begun to change.
Callers use a handle that has the current shape, or do again the `Append` or
`Resize` of a handle whose write of the metadata failed. Two switches let them
do what the documentation does not rule out: `GrowsOverLeftovers` (a `Resize`
over what a failed `Append` left) and `WritesStale` (a `Write` through a handle
that has not seen another's change). Both are off in the run; what happens with
each on is under "Disagreements".

### ShardRead: shards and their readers

`layout`, chosen at the start, is how long encoded chunks are, where the index
is, how readers read and whether empty chunks are kept. A shard is a sequence of
bytes, each of which knows what it is a byte of, made by `Assemble` from its encoded
chunks: `Joined` lays them end to end and `IndexFor` says where each is. A write (`PatchShard`) is one step, being
under the lock and one `Set`. A reader takes the whole shard in one step, or
(`byRange`) the index in one and each chunk in another, as `openStored` and
`Read` do. `held` records what each chunk held since the read began, which is
what the read may return of it.

### CachedStore: the cache

Each section under `CachedStore.mu` is one action: `Hit`, `Join` or `Fly` for
the first, `Land` for the last, `Forget` for `forget` and `forgetIf`; the read
of the store (`Fetch`) and the store's write (`WriteStore`) are steps between.
The values of a key are numbered in the order the store takes them; `floor` is
the number a read that begins now is to see at least: that of the last write
that returned, or what was stored at the last `Purge`. A flight's caller may be
cancelled, whereupon those that joined it look again, three times at most.

### Parcels, Scenes, Weather and Geodb: a database, and SceneLog

`Geodb` is a database with one tile and one weather source. In the process that
writes there are three goroutines, the `Threads`: `scenes` appends to the tile
(or backfills its statistics), `steps` appends to the source, and `admin` creates
them and puts parcels, for which it takes the lock of each in turn. `job` is
where each is, `lock` who holds `Tile.writeMu` and `Weather.writeMu`. An action
is one write of the store, or a `reload`, which only its own process's writes
could disturb and which is therefore one step there. Any of them may fail
between two writes (`Fail`), and the process may stop and be opened again
(`Restart`), `left.fails` times in all.

The process that reads has `tileSnap`, `sourceSnap` and `refresh`: its `Refresh`
is a step for every array it reads, with everything else in between. It keeps a
snapshot once it has all of it, as `reload` does.

In `Scenes` a scene is its time, and an array along the time axis the sequence
of the scenes its rows are of. `appendAt` is a cut (`CutScenes`, `CutStats`,
`CutValues`, `CutSamples`) and a put. `index[g]` and `stats[g]` are what was made
for generation `g` of the parcels; `Backfill` works out, or cuts back, the
statistics of one variable a row at a time, which is how far a block may get.
`tile` is how far `CreateTile` got, which writes the registry last. In `Weather`
the values of a step are a number, the same in every array; `samples[g].at` says
whether the samples of a generation are set up and `samples[g].steps` how many
steps they are of, a marker that statistics do not have.

`Parcels` has what the two share: the generations (`current`, the attributes in
the store; `kept`, the groups under it; `parcels`, what the process that writes
loaded), the locks, failures, and the order of a `Refresh`.

`SceneLog` is what `doc.go:57-73` promises of both: a log to which scenes, or
several steps, are added whole, and a reader with a prefix of it that only
grows. `Committed` and `Entries` are the refinement mappings: what can be read
of the rows that are committed, with `Torn` for one that is not the same scene
in every array.

### KeyStore, Objects, Nodes and Stores: stores, and nodes in them

`Objects` is one key of one store, of each of the six kinds. Puts and deletes
follow each other (`setup.puts`), and one read goes on beside them. A `Set` of a
`DirStore` or of GCS is several steps: what is written is beside the key until
the rename or the end of the upload, and one that fails removes it. A read of a
`DirStore` has the file it opened; one of Azure from the end of a blob makes two
requests. What servers answer is modelled from what the stores ask and check:
`Honest` ranges, whole values, or, over HTTP, any other (`Other`). A byte knows
which put it is of and where, so bytes of two values, or from another place, are
told apart. `MaxInt` is the largest integer, at which `offset + length` wraps.

`KeyStore` is what `store.go:19-47` promises: a value is put whole or not at all,
and a read answers with what was asked, of a value that was there while it read,
or with an error that has a cause. `Answers` says which answers those are.

`Nodes` is a hierarchy in a store that can be listed. Callers make the calls of a
plan (`tree.calls`), one call of the store a step, any of which may fail. The
keys of a bucket are listed a page at a time, of a directory one directory at a
time, of memory at once, and whatever is written meanwhile is in the listing or
not by its place. `Delete` takes the metadata first and then the keys, `Batch`
at a time, listing anew after each. Nodes of version 2 are opened and listed by
what is not there, and are not written.

`Stores` composes them: `Nodes` takes a call of the store to be a step, of whole
values, which is what `StoresKeepKeys` shows of each store. They share no
variable, so a state has one or the other.

## Runs

| Run | Instance | What it shows |
|---|---|---|
| `KeyLocks` | 3 tasks, 2 keys, 3 addresses, fairness | mutual exclusion; locks live while used; refines `KeyMutex`; everyone is served |
| `EachSpan` | up to 3 indices, every set of failures, limits 1, 2 and all, fairness | results are true; no index twice; it returns |
| `StoredWrites` | a `Write` and a `WriteChunk` in one shard, another replaced whole, fairness | refines `RegionWrites`; what is written stays; every call returns |
| `GrowArray` | 5 by 1 elements in stored objects of 4: chunks, empty ones deleted, and patched shards of two, empty chunks kept | promises hold; an `Append` is unseen until it ends; what was cut off is gone |
| `ShardRead` | 3 chunks: of one or two bytes, index first, read whole; or all there and as long, read by range | chunks are their own; shards are sound and hold what was written |
| `ShardTorn` | 3 chunks as long, empty ones left out, read by range | **violation**: a read returns another chunk's value |
| `CachedStore` | one key whole and by range, 2 readers, a writer, another process writing, `Purge`, 2 cancellations | kept and answered values are current; one read serves two; bytes are counted |
| `CachedReads` | any number of cancellations, fairness | reads end |
| `CachedOvertaken` | three cancellations | **violation**: an old value is kept after a `Set` |
| `Geodb` | 2 variables; a tile or a source with two failures, or with parcels put twice, or made from nothing with one of each; both at once from nothing, with parcels | scenes are whole; statistics and samples are of theirs; the generation before stays; what failed can be done again; both implement `SceneLog` |
| `GeodbLeftovers` | a tile, two scenes, one failure, parcels put once | **violation**: a reader gets the statistics of a scene that failed for another's |
| `Stores` | each of six stores, three values in turn, servers that ignore ranges or answer others; hierarchies of a group, an array and a group, in five stores and both versions, two callers, a failure | refines `KeyStore`; arrays keep their chunks; creates replace no node of version 3; answers are of their time |

Why the bounds are enough. Three tasks are the fewest with one that holds a
lock, one that waits and one that comes for a key just dropped; a second key
makes an address move between keys. Three indices with two workers leave one
worker to go on after another failed. Two writers are enough to lose an update
of either, and a part of the shard that neither writes shows one that neither
was to touch; the theorem is for any number. The row has a chunk that the end
cuts, a chunk wholly past the end inside a shard that is not, and a shard wholly
past it; its other axis, of length one, drops by itself what the first only cuts.
One handle is enough where callers use only handles with the current shape: all
of those are alike; a second is there where stale ones are used. Three chunks
are the fewest where one that is put in moves two others over each other's
place. Two versions after the first let a read begun before one write be
overtaken by the next, and the cache holds two small values, one big one, and
one not at all.

Two variables are the fewest of which one is written and the other not when an
append stops. Two scenes are one that fails and another that takes its place, or
one committed and one under way. Two failures are one in an append and one in
what makes up for it. Two puts of parcels after a first make three generations,
of which one is current, one is kept for readers, and one is dropped. A source
of three steps, two to a chunk, has a whole chunk and a part of one, and is
appended to once inside a chunk and once across its end. A reader may refresh at
any time and any number of times. The plans (`MCPlans`) say which of these come
together, since all of them at once are too many.

Ranges from three before the end to past it, of lengths from -1 to 3, over values
of 0 to 3 bytes, meet both ends of each from either side; a page of three keys
and a batch of two are less than an array has, so that a page ends inside it and
a delete lists more than once.

The bounds are named: `MaxVersion` (writes of the store) and
`MaxCancels` in `CachedStore`, `MaxShape` in `GrowArray`, `MaxTotal` in
`EachSpan`; `MaxTime`, `MaxGens`, `MaxAppend`, `MaxSteps` and `Plans` (with its
`fails`, `puts` and `rows`) in `Geodb`; `Setups`, `Ranges`, `Trees`, `PageSize` and
`Batch` in `Stores`, where a range whose end no integer can hold is asked for
over HTTP alone (`Asked`). `MaxCancels` is two in `CachedStore.cfg` because with three the
cache keeps an old value, which `CachedOvertaken.cfg` shows; `CachedReads.cfg`
has no bound on it.

The inductive invariants (`IInv` of `KeyLocks`, `EachSpan` and `StoredWrites`,
`TileInv` and `SourceInv` of `Geodb`) hold on these instances too; as they are
proved, no run lists them.

`EachSpan` stops (the loop is called once), and so do `Geodb` and `Stores` where
all of a plan is done; their runs do without the check for deadlock. In the
others nothing may stop.

## Disagreements

Three runs are of what the code does and its documentation rules out:

1. `ShardTorn`. A reader by range that read a shard's index before a write, and a
   chunk of it after, decodes whatever is now at the old place. With chunks of a
   fixed length that is another chunk's value, without an error. The package
   documentation allows reads and writes at once, and calls regions that share a
   shard safe.
2. `CachedOvertaken`. A read that was let down by three cancelled reads puts its
   own flight over the one under way (`cache.go:159`, `177`). A `Set` then marks
   only that one stale, and the other keeps a value from before the `Set`.
3. `GeodbLeftovers`. An `AppendScene` that fails before its time leaves a row of
   statistics for the generation of parcels there was. If parcels are put then,
   the next append cuts back and adds to those of the new generation only, and
   commits another scene at that place; `reload` takes statistics up to the number
   of times (`tile.go:299`), so a reader that has yet to refresh its parcels, and
   refreshes before the old generation is dropped, has the row left for the scene
   committed. The samples of a source do have a marker, but one that is written
   before that of the source (`weather.go:392-396`), so an `Append` that fails
   between them leaves the same (`weather.go:206-207`): `SamplesAreOfTheirSteps` is
   violated with `Plan({"source"}, TRUE, 1, 1, 2)`.

The models reproduce these too, which no run lists:

- A growing `Resize` after an `Append` that failed shows what the `Append` left:
  it looks at no stored object (`resize.go:98`), and says that what is past the
  old end "reads as the fill value". (`GrowthReadsFill` of `GrowArray`, with
  `GrowsOverLeftovers` true.)
- A `Write` through a handle that has not been refreshed fills what is past the end
  as that handle knows it (`array.go:435`), and so erases what another handle
  appended in the same stored object. (`WriteKeepsOthers`, with `WritesStale` true
  and two handles.)
- `PutParcels` stores the parcels that `reload` reads (`weather.go:421`) while
  `sampleLocked` of an append is between setting up the samples of the generation
  it read and that `reload`. Samples of the newer are not there, `st.pw` is nil,
  and `appendSamples` takes a path from it (`weather.go:383`). (`CanBeDoneAgain` of
  `Geodb`, with `Plan({"source"}, TRUE, 1, 2, 1)`.)
- A `PutParcels` makes the index of a tile anew although an append made it
  meanwhile, under readers that have it (`tile.go:367-371`, `433`); `tile.go:421-423`
  says that an index is for one generation and not changed. If it fails there,
  and parcels are put again, a reader of the generation before finds its
  statistics gone, where `parcels.go:144-148` says it goes on reading them.
  (`GenerationBeforeKept` of `Geodb`, with `Plan({"tile"}, TRUE, 1, 2, 2)`.)
- A create looks for a `zarr.json` only (`metadata.go:484`), so one at the path of a
  node of version 2, which `OpenArray` and `OpenGroup` open, succeeds and hides that
  node under the `zarr.json` it writes; `metadata.go:479`, `group.go:19-20` and
  `array.go:70` say the path must not hold a node. (`CreateKeepsVersion2` of
  `Stores`, in `ReplacedTree`, which is one of `MCTrees`; what the run checks,
  `CreateKeepsVersion3`, is of nodes of version 3.)
- Some servers ignore `Range`. S3, GCS and Azure check that as many bytes came as
  were asked for; a whole value of exactly that length passes for a range that
  does not begin at its start. (`StoresKeepKeys`, with a setup of a server that
  `ignores` and values as short as the ranges; `MCSetups` has longer ones.)

And these were met while reading, outside of what the models do:

- An `UpdateComposites` that resized and then failed leaves periods at the fill
  value; a later one, from a later time, takes them for made
  (`composite.go:29-86`), where `composite.go:13-15` has missing periods made.
- A `Delete` of a group deletes what is under it in the order of its keys, so the
  chunks of an array under it before its `zarr.json`; one that stops in between
  leaves an array that opens and reads as the fill value, which `delete.go:8-17`
  says it does not. A create looks for `zarr.json` only, so it succeeds over
  what a `Delete` left.
- `span` (`store.go:103`) adds `offset` and `length`, which wraps near the largest
  integer; `http.go:164` checks for that.
- `SetAttributes` writes the whole document of its handle (`array.go:265-280`), and
  so the shape the handle knew, over another handle's `Resize`.

## Fairness

`KeyLocks`: weak fairness of a task's own steps, since goroutines run and what
`exclusive` runs ends; strong fairness of `Send`, because Go's channels wake
waiting senders in the order they came, so one for whom the channel is free
again and again gets it. None of `Cancel`: nobody has to be cancelled.

`EachSpan`: weak fairness of the loop's own steps and of each worker's, which
includes that each call of `f` ends. None of the caller's cancellation, nor of
its propagation.

`StoredWrites`: store calls end, well or not; the lock is served in turn, which
is `EveryoneServed` of `KeyLocks`, hence strong fairness of `Lock`.

`CachedStore`: goroutines run and reads of the store end. Writers, purges and
new reads are free to come or not, so a read must end whatever they do.

`Geodb` and `Stores` state no fairness: their goroutines end or fail by
themselves, and nothing in them waits but for a lock whose holder does neither.

## Proofs

All proof modules are checked by `tlapm` to the last leaf. They assume what
the `ASSUME`s of their modules say, and nothing else of the constants: that
sentinels differ from real values, that tasks and addresses are finite and
addresses at least as many, that a total and a default are natural numbers, that
callers' regions do not overlap and a `WriteChunk` is within one stored object; of
`GrowArray` that shapes are natural numbers, grids and chunks positive ones, a grid
a multiple of its chunks, a boolean in each switch, and that an absent object is
not a value; of `CachedStore` that sizes are positive and bounds natural numbers;
of `ShardRead` that there is a chunk, that lengths are positive, and that what
stands for an absent chunk or shard, or an error, is none; and of `Geodb` that there
is a variable, that the bounds are natural numbers and values positive ones, and what
a plan is; and of `Stores` what its three assumptions say, below. Three theorems of
`CachedStore`, one of `ShardRead`, all of `GrowArray`, four of `Geodb` and three of
`Stores` suppose something more, of what is called or of what is stored at first. It
is in their statements and explained below, with what the code does without it.

`KeyLocksProofs`. Mutual exclusion is not inductive: it needs that two tasks
with one key use one lock, which needs that the lock at a key stays there while
anyone uses it, which needs that the count reaches zero only when nobody does.
`IInv` is that chain: `Linked`, `LockLivesWhileUsed`, `OneKeyPerLock`,
`FullIffHeld`, `OneHolderPerLock` and `UsersCounted`. The step that matters is
`Leave`, where the count's being one must mean that the leaver is the only user;
lemmas on the cardinality of `Users` give it. Proved: `BookkeepingCorrect`,
`TypeCorrect`, `Exclusive`, `LockLives`, and `ImplementsMutex`, that every step
maps to `Acquire`, `Release` or nothing.

`EachSpanProofs`. `NilMeansAll` needs that every index taken is completed, in
hand, or accounted for by a cause on record (`Accounted`), and that a worker
exits for one of two reasons (`WorkersPlaced`). `NeverOwnCancellation` needs that
a context that is done has a cause recorded before it (`CancelHasCause`).
`NoIndexTwice` needs that what was completed or is in hand is below the counter
(`Once`), which the atomic increment moves past an index as it hands it out.
Proved for any number of indices and workers: `LoopAccounts`, `SpanTypeCorrect`,
`IndexOnce`, `NilIsWhole`, `ErrorIsCause`.

`StoredWritesProofs`. The invariant says that what a call is about to write
differs from what is stored in its own region only (`PatchCurrent`), which holds
because who is between lock and unlock holds the lock (`Holding`). From it
`Implements` maps `Save` to `Put`, `Return` to `Succeed`, and the rest to stutters.
`WritesTypeCorrect` has the types, and `WrittenStays` the action property.

`GrowArrayProofs`. That elements read as promised (`AsPromised`) is not inductive:
a call changes stored objects one by one, and a failure may stop it anywhere. What
is added says where a call is. `UnderWay`: its region is promised nothing until it
ends, its stored objects are of the shape it will have (`Scoped`), and those that
are not still to do are as they are to be (`Progress`). And of every shape a call may begin from (`Trusted`), that past it nothing is
promised but fill (`Past`), since a `Resize` that grows writes nothing, and that no
stored object is wholly past it but where nothing is promised (`Held`). The steps that matter are those that leave the shape
behind: the write of the metadata, where `Past` must hold of the new shape, and its
failure, after which two shapes are trusted. Proved for any axes, shapes, grids,
chunks, layouts and handles: `GrowTypeCorrect`, `StoredAsPromised`,
`NothingPastTheEnd`, `AppendIsUnseen`, and `WritesKeepOthers`, that a `Write` changes
nothing outside its region (no run lists that one). All suppose `~WritesStale`, that
nobody writes through a handle that has not seen another's change of the shape,
which the second of the disagreements that no run lists shows is needed;
`GrowsOverLeftovers` may be either.

`CachedStoreProofs`. `Kept` is of the cache's own structures: the list holds each
key once and its bytes are counted (`Listed`), every flight under way is one that
some read waits for or flies, under its key, once (`Flown`). From it follow
`CacheTypeCorrect` and `BytesCounted`, whatever comes in whatever order. That nothing
old is kept (`Current`) needs that a flight that is not stale is the one that
`flights` has of its key, for only then does `forget` reach it, and that such a
flight read nothing older than what is promised (`Fresh`); that what is promised is
stored (`Ahead`) makes it so when the flight begins. `Seen` carries this to those
that joined. A flight that takes another's place in `flights` breaks `Fresh`, which
is `CachedOvertaken`. So `KeptStaysCurrent`, `ReadersSeeWrites` and `StoreReadOnce`
suppose `JoinsInTime`, that no read that looks again has looked as often as
`Retries`; and `FewCancelsJoin` proves that of every behaviour with fewer reads
stopped than that, counting for each read those it has seen stopped and may yet see
(`Counted`). Together they have what `CachedStore.cfg` checks for every number of
keys, readers, writers and flights; and with one more stopped `CachedOvertaken.cfg`
has the counterexample. Lemmas on `SizeOf` and `Without`, which are recursive
functions of a list's length, are proved from a least counterexample, as
the library's induction theorems cannot be used.

`ShardReadProofs`. That what is stored is what was written (`ShardHolds`) is proved
from what the stored bytes are: `InStore`, that they are what `Assemble` makes of
some chunks which decode to what was written. The work is in the layout.
`JoinedGrows` and `ChunkAt` find each chunk behind those before it, by induction over
how many are joined, from a least counterexample; `Assembled`, `EntryIsChunk` and
`SplitsAsAssembled` carry that through the index at either end to `Split`, so that
`PatchKeepsStored` may take a shard apart and put it together anew; and
`AssembledSound` has what `checkIndex` asks. Proved for any number of chunks, any
lengths of them, either place of the index, empty chunks left out or not:
`ShardTypeCorrect`, `ShardKeepsChunks`, `ShardStaysSound`. `ShardReadsTheirOwn`, that
readers beside writers are given what was there while they read, needs that an open
reader's index is that of the shard as it now is (`Unmoved`). It supposes `Steady`:
shards that are read by range are written whole, with their empty chunks, in chunks
of one length, as an array without a compressor and with `WriteEmptyChunks` has them.
`SameIndex` shows that no write moves their chunks. Shards read at once need nothing
of the kind. `ShardTorn` is what happens without.

`GeodbProofs`. That a snapshot's scenes are whole is not inductive. It needs that
the arrays of every variable begin with the times (`Whole`), which the commit
keeps only if each has the row that the time is of (`Appending`: variables before
`k` have it, and all have at `commit`), which in turn needs that the goroutine
cuts back to the times there are and not to others: from `BeginTile` to the
commit `state.times = times` (`Job`), through every subroutine and whatever `admin`
loads. A reader's snapshot is a prefix because its times were read before the
arrays (`Refreshing`), and it replaces none that has more. Proved for any number of
variables, scenes, generations, failures and plans: `WholeScenes`, and
`TileImplementsLog`, in which `CommitScene` maps to `Commit`, the last read of a
`Refresh` to `Refresh`, and all else to a stutter.

The same for the source: all arrays agree on the steps there are
(`Stored`), and an append in progress has `n` = `steps`, whether it is at the values
or at the samples, where `row` tells it from sampling what was read back
(`Adding`). `ShortestIsAll` is why `reload` takes all the steps. `SourceImplementsLog`
maps `CommitSteps` to a `Commit` of several, and `LogsImplemented` puts the two
together.

`StatsOfTheirScenes` supposes `PlansAreUntorn`: nothing fails, or no parcels are
put, or they are put once, into a database that has none. Every other plan is left
out, wherever in it the failures and the puts fall. Without it the code does
otherwise, as `GeodbLeftovers` shows; `MCGeodb` has TLC evaluate that the plans of `Geodb.cfg` satisfy it. The
invariant is that a row of statistics within the times is of the time at its
place (`Aligned`), in any generation, and it is not inductive because of what a
failed append leaves past the times (`Extra`): the commit of another scene would
take that in. So `StatsInv` follows what is left. While an append is at the
statistics, what is past the times is of its scene, in the generation that
`state` has, and the variables before `k` have a row of it (`Extending`); while
they are worked out, what is short is being filled or cut (`Filling`); and
otherwise there is nothing past the times if nothing fails (`Unfailing`), or
what there is belongs to the one generation there ever was (`OneGeneration`),
which is what the next append cuts back. This needs that whoever is at the
statistics holds the lock (`Alone`) and the types of what is read (`TileTyped`).

`SamplesOfTheirSteps` supposes the same of the plans and is the same for the source,
with differences that its code makes. An append of steps commits only at the end,
after the samples and after their own count, so that what a failed one leaves may
be counted already (`More`). An append that finds the count it has to agree with the
steps cuts that off and supplies its own (`Supplying`); one that finds none to agree
leaves samples alone, so there must be none past the steps: if nothing fails there
are none (`UnfailingSource`), and in one generation, samples past the steps have a
count that is not behind, so that `reload` finds them up to date (`OneSource`).
Samples worked out later, from values read back, are of steps that are committed,
and nothing is past the steps while that goes on (`Resampling`), which needs that
nobody else adds meanwhile: whoever changes steps or samples holds the source's lock
and has it open, and a source that is still being created is not open
(`AloneSource`). `SamplesInv` is all of it.

`FailedCanBeDoneAgain` and `EarlierGenerationKept` suppose `PlansAreUntorn` too.
Both rest on how parcels are put, which `Putting` follows from the attribute to
what is made of tiles and sources, in two kinds of history: nothing fails, so that
the generation there was before is the one of the attribute's `prev` and whoever
is behind it is brought on (`Sequenced`); or there only ever is one generation
(`SingleSet`). Of the second kind `EarlierGenerationKept` says nothing, as there is no
generation before the one.

That an append can be done again needs that no array is short of what counts it.
Of scenes that is `StatsStored`: the process that appends counts no statistics that
are not there. Of samples it is `MarksKept`, that the arrays of a generation have as
many steps as its count says or as there are, and the hard part is that a call
which brings samples still has the generation it began with when it gets to
`cutSamples`: it read the parcels, maybe set samples up, and reads the source again
at `reload`. So `CoreInv` has, of a call that samples, where its rows begin
(`Bringing`) and for which parcels it sets up (`SettingUp`); of one that appends,
that only the generation it appends to is counted further than the steps
(`AppendingTo`); and that the samples of the parcels there are are ready, unless
`PutParcels` is still to come by the source (`SourceReady`), or are of the one
generation (`SourceOfOne`). `ScenesApart` is that the scenes' goroutine has no part
in it. Of two sets put in a row over a source that is there, with a failure, it
is not so ("Disagreements").

That readers of the parcels before the last miss nothing is of two generations:
the one before, which nobody may cut, and the last once it is complete, since it
will be the one before when parcels are put again (`KeptStats`, `KeptSamples`).
Between the two it is being made, from when `PutParcels` has it loaded until
`reload` has found all statistics filled, or `sampling` nothing left to bring
(`TileRemade`, `SourceRemade`): meanwhile its index may be deleted and made again,
by either goroutine, and nobody is promised anything of it. It gets out of that
with as much as there are scenes and steps, because nobody else commits while
`admin` has the lock (`Indexed`, `SampledAgain`); drops spare both generations
(`Stays`), and cuts go back to what is committed and no further (`StatsWithin`,
`StepsWithin`). A tile or source that is not open when `PutParcels` comes by it is
left out, but no reader can have a generation of it then (`TileUnknown`,
`SourceUnknown`).

`GeodbIsTyped` is the type of the whole database. What can go wrong in it are
counts: how many steps are there, and how many of them the statistics or the
samples are of. `OfSource` has that a count read of the source is never ahead of
the steps there are, and that while `Refresh` reads the values it has counted
nothing of them; `Amounts` has that what a call adds to or
samples from where it began stays within the steps there can be (`BoundsTyped`),
through `sampling`, which reads its rows back, and `append`, which has them in hand.

`StoresProofs`. For `StoresKeepKeys`, `ObjectInv` says that what is stored, what is
written beside it and what a read has in hand are of values that were put
(`Held`, `Writing`, `Reading`), and that the last is among `seen`, the values
there were since the read began. Then `ReadGiven` goes through the answers of the
six stores, by what each checks of what a server may say: a range that is cut from
a whole value (`CutRangeGiven`), a 206 whose range is compared with the one asked
for (`CheckedGiven`), one whose bytes are only counted (`CountedGiven`), and the end
of a blob in two requests (`AzureFromEndGiven`). `EachStoreKeepsKeys` maps every step
to a `Put`, `Begin` or `Read` of `KeyStore`, or to none. It supposes `RangesFit`: that
no end of a range wraps in the two stores whose `span` adds, and that a server of
a bucket that ignores ranges has values longer than any, which "Disagreements"
shows are needed. The run's constants satisfy it, which `MCStores` has TLC evaluate.

Of the nodes, `NodesInv` says where each call may be, by what it does (`PlacesOf`),
and what it may have in hand there. A create finds nothing it replaces because of
`AlwaysThere`: of version 3, nothing was at its path all the while since it began, if
it got past `MustBeNew`; from this `CreatesKeepVersion3`. That arrays have their
chunks is far from inductive, as a chunk is deleted while the call that deletes it
has the metadata of nothing but its own progress to show that it is gone.
`ChunksKept` adds that: at every path that is being deleted, past its metadata,
there is no array and no call that makes one (`Gone`), and who sets the attributes of
an array writes the metadata of one whose chunks are all there (`Sets`), since a
`SetAttributes` puts back a `zarr.json` that a `Delete` may have taken.
`OpenArraysAreWhole` supposes `DeletesApart`: what is deleted has nothing under it, and
nobody else meanwhile makes an array there or sets its attributes. Without the
first it fails as "Disagreements" says of groups; without the second an
attribute set between two steps of a `Delete` brings an array back without its
chunks, and the code has no lock against it.

`AnswersAreOfTheirTime` follows a call from its first read to its answer. `Seen` has,
of an open that found no `zarr.json`, that what it wants of version 2 was there as a
node then if it is there now, since nothing writes version 2, and that nothing was
there all the while that it has not come by; and of a listing, that a node which was
in the group all the while is yet to be listed, or is a name still to be read, or is
found. `Told` has what is left of that once the call returned, and `SinceGrows` and
`OthersSeen` that no step of another call takes it away. It supposes `TreesOfOneKind`
of what is stored at first, which `KindsKept` keeps: where a path has a `.zarray` and
a `.zgroup`, an open of the group sees one where a listing tells an array, and where a
group of version 2 has a `zarr.json` beside a `.zarray` in it, a listing tells the
array of version 2 and an open the node of version 3. No program here writes such
hierarchies: in a group of version 2 it writes the attributes of what it opened as of
version 3, which then has no metadata of version 2, and that takes the history of the
handle (`Kept`).

`StoresAreTyped` is the type of all.
These hold of any setups, ranges, hierarchies, plans, callers, failures and sizes of
page and batch that `ObjectsAssumption`, `NoneAssumption` and `NodesAssumption` allow;
the last has that whatever is created is among the keys there may be, and that what
is called on a handle is of the path of the call that made it.

Only model-checked: every liveness property (TLAPS has no proof rules here for
fairness). Every invariant of every passing run is a theorem, some of them with a
condition on what is called that "Disagreements" shows to be needed.

## What is not modelled

Inside modelled components: keys that the cache lets pass (metadata); two stores
that share a key of `storedLocks`, which wait for each other and lose nothing;
writers in several processes, which the documentation rules out for `zarr`;
a store that applies a call after it returned an error. Messages, and the
wording of errors, are left out throughout.

`Refresh` in the process that writes, more than one tile or source (which share
only the parcels), the order and the encoding of parcels, the merge of tiles in
`ParcelSeries`, and a `Delete` of a group with arrays under it (above). The
validity of keys, and metadata that does not parse.

Not yet: composites, the sampler and the pure algorithms, in the order of the
plan. Not at all: the clients of the cloud services and the words of their
errors, which are external; codecs, data types, the bounds of metadata
(`limit.go`), JSON (`scan.go`) and floating point geometry, which keep no state and
whose correctness is in their data; statistics as arithmetic, for the same
reason; rasters, zones and units, which wrap arrays; and the server, whose
handlers only call the queries.
