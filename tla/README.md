# Dejaveph in TLA+

Dejaveph is a content-addressed store for large files that speaks the Xet
protocol: a server (`xetd`) keeps xorbs (packs of chunks) and file
reconstructions, an agent library (`xet-agent`) ingests and reads files, and a
FUSE mount (`xetfs`) shows a volume as a directory tree with write-back on
close. This directory holds TLA+ models of its core, the TLC configurations that
check them, and TLAPS proofs. `PROJECT.json` lists the components, runs,
mutants, source map, findings, hazards and theorems.

## Inventory

| Component | State | Operations | Module |
|---|---|---|---|
| `xetd` index (`state.rs`) | `xorbs`, `files`, `catalog`, `chunk_index` behind one mutex, in memory only | `put_xorb`, `register_file`, `global_dedup`, `reconstruct`, `list_entries` | `Xet`, `Xetd` |
| `xetd` GC (`test_gc`) | the list of marked xorbs, local to the request | mark, then delete + forget per xorb | `Xetd` |
| agent, ingest (`xet-agent`) | locals of one call: answers, position, terms | query every chunk, walk, upload, register | `Ingest` |
| agent, read (`xet-agent`) | the plan and the chunks so far | fetch the plan, one byte range per term | `Reconstruct` |
| agents and server as a whole | the readable files and the catalog | publish, forget | `FileStore` (abstract) |
| `BlobStore` trait (`blob.rs`) | one object per xorb | `put`, `delete` | `BlobStore` (abstract) |
| `LocalFsBlobStore` (`blob.rs`) | one file per xorb, one temporary file per key | `put`, `delete`, `head`, `get_range` | `LocalFs`, `Ranges` |
| `S3BlobStore` (`s3.rs`) | objects of a bucket | `put` (head, then put), `delete`, `head`, `get_range` | `S3` |
| `--backend` (`main`) | which store the process uses | | `Backends` |
| `xorb_data`, `test_scrub` | locals of a request: header, length | head, then get; validate | `Serve`, `Ranges` |
| `xetfs`, contents | staging buffers, cache, sizes, handles | the FUSE methods on a file | `Xetfs` |
| `xetfs`, names | the inode tree | `connect`, `lookup`, `create`, `full_path`, `readdir` | `Tree` |
| auth, metrics, CLI | none that interacts | | not modelled |
| `xet-core` | facade over a submodule | chunking, hashing, xorb format | external |

How they interact. Agents and mounts are blocking HTTP clients of `xetd`. The
server's handlers run concurrently on tokio; each takes the index mutex only
between two awaits, so a handler is atomic only in such a stretch. The store is
awaited. The index is lost when the process ends; the blobs are not. A mount
serves one FUSE request at a time and calls the agent from inside it.

What is hard here: `put_xorb` stores before it indexes and indexes only what it
has newly stored; a store checks for a key and writes it at different awaits,
and takes a failing check for absence; `test_gc` decides under one lock and deletes across many
awaits; an ingest gathers its dedup answers long before it registers; a read
works from a snapshot and computes byte ranges that three pieces of code must
agree on; concurrent puts of a key share a temporary file; an S3 request whose
client gave up may still be applied; the handlers that read an object learn its
length and its bytes at different times; handlers are dropped when a connection
goes away; a mount's write-back can fail inside an operation that has no way to
say so, beside agents, other mounts and restarts that change the catalog under
it; a mount builds its tree from keys that come in hash order and that
agents choose freely. The hazards are listed, line by line, in `PROJECT.json`.

What makes each part correct:

- index: a dedup entry points at its chunk, registered terms spell the file,
  a registered file is stored in full, cloning uploads nothing; all of it
  together is a store in which files appear whole;
- GC: referenced xorbs are spared, orphans are reclaimed;
- store: objects are complete or absent, what `put` acknowledged is there, `put`
  answers truthfully, and returns;
- range requests and scrub: what is served is what was asked for, and the
  verdict is true;
- ingest: returns, and is refused only for good reason; a retry helps;
- read: what is returned is the file, and a read fails only for lost objects;
- mount: reads reflect writes, fsynced or closed data is in the catalog, the
  cache follows the file hash; a path is served, listed and written back as the
  file it names.

## Modules

`Xet` is data only: xorbs, locations, terms, and what the two loops of
`ingest_bytes` and `index_chunks` compute. Hashes are taken to be collision
free, so that a hash is identified with the chunk sequence it is the hash of;
the integrity gate of `put_xorb` is what makes this sound for stored xorbs. The
loops are stated by what they find (`HitRun`, `NovelRun`: the maximal run that
starts at `i`). A term carries a history field `at`, the file position at which
it was pushed; nothing in the model's steps reads it, the properties do.

`Xetd` is the server. Handlers are cut at their awaits, those inside `blob.put`
included: `PutXorbFound` or `PutXorbMissed` (the check, which may fail and then
counts as absence), `PutXorbStored` or `PutXorbGivesWay` (the write, over whatever
is there by then), `PutXorbIndex`; `GcMark`, then `GcDelete` (or `GcDeleteFails`)
and `GcForget` per xorb. `RegisterFile` and `GlobalDedup` are single lock regions.
`PutXorbDropped` and `GcDropped` are a handler future dropped at its await; what
the put was writing may land later (`StrayLands`). `Restart` is a new process over
the old blobs. The history variable `doubled` has the xorbs of which a put answered
true although the object was there. Objects are complete here; when they are not
is the matter of `LocalFs`.

`Ingest` extends it with the agents: `StartIngest`, `QueryChunk`, `WalkHit`,
`UploadXorb`/`UploadStored`/`UploadGivesWay`/`UploadIndexed`,
`Register`/`RegisterRefused`, and the failures seen from the client
(`RequestLost`, `RegisterReplyLost`, `ServerRestart`); `Land` is a late write.
`FileStore` is what the whole promises while nothing is collected: a file
becomes readable and gets its name in one step, at its registration, and only a
restart takes that back. `ImplementsFileStore` is the refinement; a file is
mapped to readable when it is registered, its xorbs are indexed and stored, and
its terms spell it.

`Reconstruct` extends `Ingest` with readers: `QueryPlan`/`PlanRefused`, then
`FetchTerm` per term, or `FetchUndecodable`. A serialized xorb has `Packed[c]`
bytes per chunk. The server turns the chunk range of a term into a byte range
by the boundary offsets (`ByteStart`, `ByteEnd`, end-inclusive), the reader
sends it back as a header, `xorb_data` parses it (`ParseRange`) and cuts the
body (`GetRange`), and the reader decodes as many chunks as its term is wide
(`Decode`). `EntryFor` is the `find` over `fetch_info`. With S3 the range is
served by the service, with the same meaning.

`Ranges` holds `parse_range` and `get_range` as operators over the width of a
`u64`, used by `Reconstruct` and `Serve`.

`BlobStore` is the abstract contract of the trait for one key: `put` is an
atomic write of a complete object that answers whether it wrote; a put that
failed, was dropped or died may still take effect (`stray`). `Exact` says
whether "true" also means that the object was new. `LocalFs` is
`LocalFsBlobStore` for one key, one step per file operation, with inodes,
descriptors, the shared temporary name, failing probes, directories, writes and
renames, and file operations that outlive the dropped future that waited for them.
A writer of `LocalFs` is a put with the operation it may leave behind; a retry
that does not wait for that operation is another writer. `S3` is `S3BlobStore` for
one key, one step per request. `Backends` is the store of a process, one of the
two; the refinements are `ImplementsBlobStore` (`LocalFs`, for puts that come one
at a time, with `Renaming` for `stray`; exact unless a probe can fail) and
`S3ImplementsBlobStore` (any number of puts, not exact: a failing head counts as
absence and two puts can both write). What overlapping puts on local disk keep of
the contract is `SettledComplete` and `AcknowledgedIsStored`.

`Serve` composes `Backends` with the two handlers that read an object,
`xorb_data` and the body of `test_scrub`'s loop: `Ask`, then `Missing`,
`Refused` or `Found` for the head, then `Fetched`, or `ReadError` at either.
`Rot` damages the stored file. `calm` is a history variable: nothing has
happened to the object since the request began.

`Xetfs` is the mount's files. Its server is what a mount sees of it: a catalog,
which agents (`AgentIngests`) and other mounts write and a restart empties
(`ServerRestart`); an ingest that registers or fails, or both; and a reconstruct
that returns the file of a hash, fails, or returns other bytes, as `read_nested`
shows it can. The server's own races do not appear, because the mount sees an
ingest or a reconstruct as one blocking call with a result. History variables:
`user` is the content applications were led to expect; `failed`, that a request
for the file has failed or returned other bytes since the mount connected;
`moved`, that somebody else has changed the catalog entry since the mount last
read or wrote it; `of` in a cache entry, the hash its bytes were made from. A path
stands for its inode; failed or staged reads change nothing and are not actions.

`Tree` is the mount's names, and what justifies that a path stands for its inode
in `Xetfs`. A catalog key is reduced to whether it begins with a slash and to
its components. `Connect` folds `AddEntry` over the entries in any order;
`Lookup`, `FullPath`, `Create` and `ReadDir` are the FUSE methods; the path walk
and directory streams are the kernel's. An edit and its write-back are one step
here.

`MCIngest`, `MCReconstruct`, `MCServe`, `MCXetfs`, `MCTree` give the small
instances. `IngestProofs`, `ReconstructProofs`, `LocalFsProofs`, `ServeProofs`,
`XetfsProofs` and `TreeProofs` hold the proofs, `NatFacts` what they share.
Definitions introduced by "A
plausible slip" are the mutated forms that `PROJECT.json` uses to test the
properties: each property is violated when the code's step is replaced by such a
slip.

## Runs that pass

| Run | Checks |
|---|---|
| `ingest_faults` | `TypeOK`, `FilesDenote`, `FilesIntact`, `CloneIsFree`, `ImplementsFileStore`: two agents, lost requests, restarts, no collection |
| `progress` | `IndexedIsStored`, `IngestReturns`, `IndexedOrphansSwept` under `CollectSpec`: overlapping puts of two agents with failing checks, lost requests and late writes, beside one collector whose deletes may fail; the byte cap is below the chunk's size |
| `read` | `ReaderTypeOK`, `AlignedReadExact`, `FailsOnlyIfMissing`, `ChunkIndexSound`, `SparedStaysSpared`: a reader beside an agent, collections that may be dropped, and restarts |
| `store_serve` | `ServeTypeOK`, `RangeReplyExact`, `ImplementsBlobStore`, `CalmRangeIsServed`, `ScrubVerdict`: one put at a time on either backend, every failure of `LocalFs` and `S3`, deletes, decay, and a reader or scrub |
| `store_overlap` | `SettledComplete`, `NoTmpLeft`, `OverlappingPutsSucceed`, `AcknowledgedIsStored`, `S3ImplementsBlobStore`, `EveryPutReturns`: three overlapping puts of a key on either backend |
| `mount` | `TypeOK`, `ReadsCurrent`, `SizeIsServed`, `CleanIsPersisted`, `CacheCoherent`, `EditReachesCatalog` under `ClosingSpec`: one mount beside agents that register under its keys, server restarts, all failures |
| `tree` | `TreeTypeOK`, `ResolvesHome`, `ServesItsEntries`, `ListedOnce`, `MountStaysPlain`: volumes with competing, relative and empty keys, in every listing order |

What they show. Without collections agents and server implement the abstract
file store under any interleaving of uploads, lost requests and restarts. With
collections the dedup index stays truthful, what was referenced at the mark is
spared, and an indexed xorb is in the store unless a put of it has answered true
over an object that was there. The offset arithmetic of server, store and reader fits together: a
read of a file without nested terms is exact, and fails only if an object is
gone. Ranges are served exactly and a scrub's verdict is right, although both
take length and bytes at different moments, where puts do not tear the object:
on S3, and on local disk with puts that come one at a time, each after the end of
what the one before has left behind. Overlapping puts of a key settle on a
complete object on local disk (by proof also where probes and renames fail and
callers go away), and S3 keeps the contract but for the meaning of
true. A mount is right about a file as long as the file's requests are answered,
and answered with the file's bytes; its cache may hold wrong bytes (if reconstruct
returned them) but never those of an earlier version; what it has written back
stays in the catalog until somebody else registers there or the server restarts;
and an edit made under an open handle reaches the catalog when the handles are
closed. A path is written back to itself, even where entries compete for a name; an entry without competitors is
served under its path in whatever order the server lists; directory streams list
each child once.

## Runs that show a disagreement

Each states what a document, comment or test of the repository says, and TLC
finds a behaviour of the code that violates it (see `findings`).

| Run | Property | What happens |
|---|---|---|
| `gc_dangling` | `FilesIntact` | a registration between mark and sweep loses its xorbs |
| `retry_stuck` | `RetrySucceeds` | an interrupted upload makes every retry fail for ever |
| `read_nested` | `ReadExact` | nested terms of one xorb are read from the wrong place |
| `fs_torn` | `PublishedComplete` | overlapping puts share the temporary file |
| `mount_fsync` | `FsyncPersists` | a failed write-back is acknowledged and forgotten |

The models exhibit further behaviours that no run states as a property: a put
that is acknowledged before the first put of the same xorb has indexed it, so
that a registration is refused until it is retried; a put between a collection's
delete and its index removal, which leaves a blob no later collection finds;
`CloneIsFree` fails once a swept xorb takes the dedup entries of shared chunks
with it; two puts of a key can both answer true, and then one handler indexes the
xorb, a collection deletes and forgets it, and the other handler indexes a xorb
that is gone, which dedup answers and registrations rely on from then on (this is
the proviso of `IndexedIsStored`); a scrub counts a xorb as
quarantined that a collection deleted between its head and its get; a write
whose seeding fails starts from an empty buffer; a file truncated by path stays
dirty until somebody opens and closes it; a file whose key has no leading slash
is written back under a second key. They are listed under `hazards`.

## Bounds

- `ingest_faults`: two chunks, of sizes 1 and 2, and caps of two chunks and three
  bytes per xorb make every kind of run: hits, and novel runs ended by a hit, by
  the chunk cap and by the byte cap. A content of three chunks with a repetition
  and one with the same chunks in the other order let the agents share chunks,
  not runs. Two agents suffice for every race of two uploads.
- `progress`: a chunk above the cap (`MaxXorbBytes = 1`) is a xorb of its own, and
  a content that repeats it uploads the same xorb twice if it found no entry. One
  xorb is enough for the races of two puts with one sweep and with writes that
  land late; sweeps over several xorbs are in `read`.
- `read`: one agent registers contents one after the other while the reader is
  anywhere in its read; packed sizes 2 and 1 tell chunk indices from byte
  offsets. `U64 = 16` is above every offset of such a xorb. One collector
  suffices for the reader; that `ChunkIndexSound` and `SparedStaysSpared` hold
  for any number of overlapping collections is proved.
- `store_serve`: an object of three bytes has a first, an inner and a last one;
  headers have every number up to the length, the largest `u64`, none, and
  something that is not a number. With `U64 = 8` the largest offset is well
  beyond the object and its successor wraps.
- `store_overlap`, `fs_torn`: two pages make a torn file; three writers let one
  put interfere with two that already do; one inode more than writers, so that a
  fresh file is always available.
- `mount`: two bytes are enough for a write that overwrites, extends or leaves a
  gap (`MaxSize`), two handles for a release under another handle's write
  (`MaxHandles`). Agents register every content of up to `MaxSize`
  bytes, which is all that a mount can see of another mount; the theorems are for any number of mounts.
- `tree`: two names at three depths, a directory inside one of its own name, a
  key with and without its leading slash, and the bare slash; three entries let
  an unambiguous one stand beside two that compete (`MaxEntries`), and six
  inodes leave room for a creation beside them (`MaxNodes`).

Nothing else is bounded; the state spaces are finite by themselves and explored
completely. Symmetry is used in `ingest_faults` only, which has no liveness
property.

## Fairness

`Ingest!Spec` assumes weak fairness of each agent's own steps and of each sweep:
the runtime polls every ready handler, and a blocking client goes on when its
reply arrives. Nobody is obliged to start an ingest or a collection; `RetrySpec`
adds that clients ingest again after every return, `CollectSpec` that collections
are requested again and again (clients may give up for good), for the properties
that speak of retries and of repeated collections. `BackendsFairness` assumes
that a put under way goes on: file operations and S3 requests return. In
`Xetfs`, `ClosingSpec` assumes that applications close what they open, which the
kernel does for them when they exit. Failures are never fair. `Reconstruct`,
the readers of `Serve`, and `Tree` state safety only.

## Proofs

Each proof module extends the module it is about. The theorems hold for every
value of the constants that the named assumptions of the modules allow (every
number of agents, readers, writers, mounts and collectors, all contents, sizes,
caps, object lengths and failures); where one needs more, it says so as a
hypothesis.

### `IngestProofs`: agents and server

The inductive invariant `IInv` has these parts: the types; `ChunkIndexSound`;
`LocsSound` (the answers an agent holds are true of the xorbs they name);
`WalkSound` (the terms pushed so far tile the chunks walked so far, `Tiles`);
`PutSound` (the xorb in the put handler is the agent's next run); `RestSound`
(an agent outside an ingest has no locals); and `FilesDenote`. `FilesDenote`
alone is not inductive: what is registered comes from the walk, the walk from
the answers, and the answers from the dedup index, which uploads extend and
collections purge. The argument is that locations are content addressed: once
true, an answer stays true whatever is deleted later, so it is enough that the
index is sound at the moment it answers. Each action has a lemma of its own;
`IndexChunksLocates`, `TilesPush`, `HitRunSpells` and `PackedSpells` carry the
data part.

- `Inductive`, `TypeCorrect`, `DedupIndexIsSound`, `RegisteredTermsSpellTheFile`:
  the invariant, `TypeOK`, `ChunkIndexSound`, `FilesDenote`.
- `CollectionsSpareReferenced`: the action property `SparedStaysSpared`, from
  `ServerStep`, a summary of what any step can do to store, index and sweeps.
- `FilesIntactWithoutCollections`: `FilesIntact`, assuming there is no collector
  (`gc_dangling` shows the assumption is needed). `StoredInductive` carries it:
  indexed xorbs are stored and registered terms name indexed xorbs.
- `ServerImplementsFileStore`: the refinement `ImplementsFileStore`, under the
  same assumption. Every step but a registration and a restart is shown to leave
  the readable files alone; a registration is `Publish` because the handler
  checks the terms against an index whose xorbs are stored.
- `IndexedIsStoredUnderOneCollector`: `IndexedIsStored`, assuming one collector
  whose requests are not dropped. `SweepInv` adds, of the xorbs that are not
  `doubled`, that one whose put has answered true is stored, is not marked, is
  indexed only while it is being forgotten, and is in one handler only; of two
  handlers that both answered true the second may index what was swept.

- `ClonesAreFree`: `CloneIsFree`, assuming there is no collector. `DedupComplete`
  (every chunk of an indexed xorb has a dedup entry) is inductive then, and
  `TilesCover` finds each chunk of a file in one of its terms.

### `ReconstructProofs`: readers

`RInv` adds to `IInv` that xorbs keep to the chunk cap (`SmallXorbs`), and of each
reader that its plan spells the file it was made for and that what it has
decoded is right (`SoundRead`). The plan is a snapshot, so it stays right
whatever happens to the index; only the bytes have to be argued about.
`OffsetRecursion`, `OffsetMonotone`, `OffsetShift` and `OffsetLocates` are what
the boundary offsets satisfy, `PackedShape` and `SerializedShape` where each
chunk's bytes lie in a stored object, `BodyPlace` what `parse_range` and
`get_range` make of an entry, `DecodedIsThere` that chunks which decode are the
xorb's from the entry's first on, and `DecodeSucceeds` that they do decode.

- `ReaderInductive`, `ReaderTypeCorrect`, `AlignedReadsAreExact`: `RInv`,
  `ReaderTypeOK`, `AlignedReadExact`. No assumption on the width of a `u64` is
  needed: a range that wraps makes the read fail, not return something else.
- `ReadsFailOnlyIfMissing`: the action property `FailsOnlyIfMissing`, if the
  offsets of a xorb within the chunk cap fit a `u64`. The caps of the code (8192
  chunks, 60 MiB of data) keep them far below.

### `LocalFsProofs`, `ServeProofs`: stores, ranges, scrub

- `LocalFsTypeCorrect`: `TypeOK` of `LocalFs`.
- `PutsSettle`: `SettledComplete` without write errors and kills; probes and
  renames may fail and callers go away. `NamedSound`
  says which inodes under a name may still be incomplete, and who will finish
  them.
- `PutsCleanUp`: `NoTmpLeft` without failures but of the probes, by `TmpInv`: a
  temporary file has a put that will rename or remove it.
- `OverlapsGiveWay`: `OverlappingPutsSucceed` without deletes and without failing
  file operations (callers may go away, the process may be killed), by `GivesWay`:
  a writer whose temporary file is gone has the object in its place.
- `SolePutsImplementBlobStore`: the refinement `ImplementsBlobStore` for one
  writer, with every failure. `fs_torn` shows that two writers do not implement it,
  and a retry that begins beside the rename of a put whose caller went away is a
  second writer. The contract is exact unless a probe can fail; the run
  `store_serve` has failing probes, so that exactness rests on the proof.
- `S3StoreImplementsBlobStore`: the refinement `S3ImplementsBlobStore`, any number
  of writers, every failure.
- `ServeIsLocalFs`, `ServeTypeCorrect`: the composition contains `LocalFs`
  unchanged; `ServeTypeOK`.
- `AcknowledgedObjectsAreStored`: `AcknowledgedIsStored` without write errors,
  kills and deletes, on either backend; probes and renames may fail and callers go
  away (`Relied`: a put that has answered, or is about to give way, has the object).
- `RangesServedAreExact`, `CalmRangesAreServed`, `ScrubsAreRight`:
  `RangeReplyExact`, `CalmRangeIsServed`, `ScrubVerdict`, on S3 with any writers
  and on local disk with one (`OneByOne`; overlapping writers can tear an object,
  and then its length says nothing), for objects shorter than `U64`.

### `XetfsProofs`: the mount

- `MountTypeCorrect`, `CachesAreCoherent`, `ReadsAreCurrent`, `SizesAreServed`:
  `TypeOK`, `CacheCoherent`, `ReadsCurrent`, `SizeIsServed`, for any number of
  mounts, agents and restarts. The invariant (`FileInv`) is about one file of one
  mount: the cache was made from the hash, the buffer or the hash is what
  applications expect, and the size is that of what is served. `CacheCoherent`
  needs no assumption on what reconstruct returns and claims nothing about it.
- `CleanFilesArePersisted`: `CleanIsPersisted`, for any number of mounts. The
  entry is the mount's own until somebody else registers there or the server
  restarts, which `moved` records.

### `TreeProofs`: names in the mount

For any finite set of keys, in any listing order, with any creations and
write-backs. `TreeAssumption` says what a key is, that a volume has finitely many,
and that `None` is neither a hash nor an inode number.

`TreeInv` is the inductive invariant. `Linked`: parents and children agree, a
parent is a directory older than its children, and a child is listed once.
`Placed` relates the inodes to the entries: no two directories have the same path
(`UniqueDirs`); every directory lies above an entry and every file with a hash is
some entry's (`Origins`); a created file that is not yet written back has its path
alone (`NewAlone`); an unambiguous entry has one inode at its path, which carries
its hash (`Homes`). `StreamOK`: the open stream has listed a beginning of its
directory. `ServesItsEntries` alone is not inductive: a write-back adds an entry,
which must not come to lie at or below another one unseen, and that depends on
where every other inode comes from.

The loops of `connect` and of the kernel's walk are folds. `EnterDirLoop`,
`AddEntryLoop` and `WalkLoop` turn each into an induction over its turns, given a
set of states for every turn; `Building` and `Entering` are those sets for
`connect`. `Paths` is the recursion of `full_path`; `PathsExist` shows that it ends,
`Ancestors` that every beginning of a path is a directory's. `ConnectPlaces`,
`CreatePlaces`, `WriteBackPlaces` establish and keep `Placed`; `WalkEnds` and
`WalkHome` say where a walk gets to.

- `TreeInductive`, `TreeTypeCorrect`: `TreeInv`, `TreeTypeOK`.
- `WritesWhereOpened`: `ResolvesHome`.
- `EntriesServed`: `ServesItsEntries`.
- `StreamsListOnce`: `ListedOnce`.
- `MountKeepsPlain`: the action property `MountStaysPlain`.

`NatFacts` has the facts about numbers that these share. Induction over data is
done with `LeastNat` and `InductionUpTo`, over the set of indices at which a claim
holds.

### Only model-checked

All liveness properties (`IngestReturns`, `IndexedOrphansSwept`,
`EveryPutReturns`, `EditReachesCatalog`): the prover has no fairness or `ENABLED`.

## Not modelled, and why

- `auth_mw` and tokens: a decision about one request from its own header and two
  constants of the process. A token that a restart made invalid fails requests,
  which the models have as failures.
- Command line, router, metrics: configuration, and counters that only tests
  look at. `presign_get` only makes a URL; its expiry needs a clock.
- `catalog_file_hash` of `xetfs`: a helper of the tests that reads one entry.
- Power loss: `put` renames without the fsync that `Prompt.md` (line 289) asks
  for, so the final path may name a partial object afterwards; what a disk keeps
  is not modelled.
- Chunking, hashing, compression and the xorb format: `xet-core`, external.
- Collection roots that no catalog entry names any more: the code keeps them,
  and nothing claims otherwise for this milestone.

## Plan

Done: the modules, runs and theorems above; every part of the repository that
keeps state is modelled.

Next, proofs: shorter ones, and the hypotheses of the conditional theorems
examined one by one (which of them a weaker fact about the code would do for).
