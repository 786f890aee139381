# Verification of milvus-utils

`milvus-utils` takes and restores raw snapshots of a Milvus instance: an image
of etcd and a copy of the files in the root prefix of its bucket. This
directory holds TLA+ models of the program, the TLC configurations that check
them on small instances, and proofs checked by TLAPS.

    tlc -workers 2 -config <run>.cfg <module>     # one run, see "Runs"
    tlapm SnapshotCreateProofs.tla                # the proofs, module by module
    tlapm SnapshotCutProofs.tla
    tlapm S3TransferProofs.tla
    tlapm SnapshotCatalogProofs.tla
    tlapm ConfigurationProofs.tla
    tlapm RestoreGatesProofs.tla
    tlapm SnapshotRestoreProofs.tla

## Inventory

| Component | State | Operations | Talks to |
| --- | --- | --- | --- |
| `cmd/create.go` | locals of `runCreate`: ID, listed databases, GC ticket, registered defers | one run: deny, pause GC, flush, etcd image, upload, copy, then the defers | Milvus, etcd, S3 |
| `internal/milvus` | two connections | `SetDenyWriting`, `FlushAll`, `PauseGC`, `ResumeGC` | proxy (gRPC), datacoord (HTTP) |
| `internal/etcd` | a connection | `Snapshot` | one etcd member |
| `internal/s3/client.go` | a client | `ListObjects`, `ListCommonPrefixes`, `Upload` | S3 |
| `internal/s3/parallel.go` | the keys, an errgroup, a counter | `CopyPrefix`, `DeletePrefix` | S3 |
| `cmd/list.go` | two sets of IDs | `runList` | S3 |
| `cmd/restore.go` | ID, the saved CR | `resolveLatestSnapshot`, the 14 steps of `runRestore`, two gates | S3, Kubernetes |
| `internal/k8s` | clients | patch, get, create and delete of objects, three waits | API server, Helm |
| `cmd/root.go`, `cmd/envs.go` | viper's layers | load the configuration, print its keys | files, environment |

The commands share no memory and no lock. They meet in the servers: the denial
property of a database, the GC leases of datacoord, the objects of the
namespace, the keys of two buckets. Nothing is persisted locally, nothing
handles a signal (`root.go:82`), and almost no call has a timeout.

What is hard, and what makes each component correct:

- **create**: every step may fail, a kill runs no defer, Milvus goes on
  flushing, compacting and collecting garbage meanwhile, and a second run can
  be started by hand beside the CronJob. Correct: an archive that is reported
  as a success is a consistent cut (every row acknowledged, every file that
  etcd names is there), and write denial and GC pause are undone or accounted
  for.
- **copy and delete**: pages, batches, a bounded pool, cancellation by the
  first error, calls that reach S3 after they were given up. Correct: success
  means complete and quiet.
- **list and resolve**: two listings that are not one, while runs fill the
  bucket. Correct: what was finished is found and the commands agree.
- **restore**: asynchronous deletion, controllers that undo what was done, a
  failure anywhere, a second attempt on what the first one left. Correct:
  nothing writes while the data is replaced, success means the snapshot, and
  Milvus never serves an etcd that names files the bucket does not hold.

The lines where each of these bites are the `hazards` of `PROJECT.json`.

## Modules

| Module | Models | Extends |
| --- | --- | --- |
| `Milvus` | external: the instance that create quiesces; the effects of the calls of `internal/milvus` on it | |
| `SnapshotCreate` | `runCreate`, with the library calls it makes, for any set of runs | `Milvus` |
| `PointInTimeBackup` | abstract: an archive is the image of all rows at one instant | |
| `S3Transfer` | `CopyPrefix`, `DeletePrefix`, `ListObjects` | |
| `SnapshotCatalog` | composition: `runList`, `resolveLatestSnapshot`, runs of create and a restore on the two buckets they share | |
| `Configuration` | `initConfig`, `LoadConfig`, `bindEnvs`, `setDefaults`, `envs --values` | |
| `RestoreGates` | `runRestore` up to its second gate: the ID, `confirm` and its input | `Configuration` |
| `RestoreCR` | `buildRestoreCR`, `buildRevertStartFromSnapshotPatch`, and the JSON merge patch | |
| `Cluster` | external: Flux, the Milvus operator, etcd, claims, Jobs; the effects of the calls of `internal/k8s` on them | `RestoreCR` |
| `SnapshotRestore` | `runRestore` | `Cluster` |
| `MCSnapshotCreate`, `MCSnapshotCatalog`, `MCSnapshotRestore`, `MCRestoreGates` | values for TLC | |
| `SnapshotCreateProofs` | theorems about any runs of `SnapshotCreate` | `SnapshotCreate` |
| `SnapshotCutProofs` | theorems about runs that do not overlap, and the refinement of `PointInTimeBackup` | `SnapshotCreateProofs` |
| `S3TransferProofs` | theorems about `S3Transfer` | `S3Transfer` |
| `SnapshotCatalogProofs` | theorems about `SnapshotCatalog` | `SnapshotCatalog` |
| `ConfigurationProofs` | lemmas about `Configuration` and its inductive invariant | `Configuration` |
| `RestoreGatesProofs` | theorems about `RestoreGates` and the configuration it loads | `RestoreGates`, `ConfigurationProofs` |
| `SnapshotRestoreProofs` | theorems about `SnapshotRestore` | `SnapshotRestore` |

In the two command modules the value of `pc` is the name of the call the run
makes next, so an action is "the call returns, and the code up to the next
call". The same name in the constant `Faults` allows this call to fail, with
or without having taken effect: an answer can be lost. `Faults` also has
`"crash"` (the process is killed), `"expire"` (a run can outlive its GC
lease), `"job"` (a download fails for a reason of its own) and `"object"` (S3
reports errors for single keys in an answer that succeeds, which
`parallel.go:102` does not look at). Operators marked
`mutant` are plausible errors in the definition below them, kept to show that
each property notices one.

### SnapshotCreate

`run[r]` holds the locals of a run: `dbs` and `todo` are the list of step 1 and
what the current loop has yet to visit, `deferred` says that the defer of
`create.go:88` is registered, `ticket` that `PauseGC` answered, `etcdBuf` is the
image in memory, `keys` the objects that are left to copy, `manual` the
databases the log reports as needing manual intervention. `Returned` is a return statement: the defers run last in, first out, and
an error before line 88 runs none. `FlushAll` is three actions, because it lists
databases and collections afresh between the flushes. A segment is the set of
rows it holds; what etcd refers to (`meta`) and what is stored (`objects`) are
sets of segments. Compaction swaps references at once and leaves the old files
to garbage collection, which no lease of any run may be pausing
(`notes/milvus-gc-pause.md`).

When a run may start is the business of the schedule, not of the code, and two
constants say what it does. `Overlap` allows a run beside another;
`SameSecond` allows an ID to be used again, which `create.go:48` does not rule
out. With both, two runs may fill one archive. What
each run allows is in its row below.

The copy is a set of keys here; pages, pool and cancellation are the subject of
`S3Transfer`, whose `CopyComplete` and `QuietAfterSuccess` are what the actions
`ListKeys`, `CopyObject` and `CopyFails` take for granted.

### S3Transfer

`file[k]` is the life of a source key, with names that are never used twice, as
Milvus's segment files are. A call is `sent`, then `landed`, then answered; one
that fails on the client may be `abandoned` and land later. `Submit` is `g.Go`:
it hands out the tasks in the order of the listing, waits for a place in the
pool and goes on after an error, when the calls it starts are never sent. `TakesEffect` is the server's half of a call.

### SnapshotCatalog

The three commands on the two buckets they share. IDs are numbers in the order
of their timestamps. There is no catalogue and no command knows of another: a
run of create puts the etcd image first, then the files one by one; list and
restore find snapshots with the same two listings, so one reader stands for
both, and what each makes of the listings is an operator (`Shown`,
`ShownComplete`, `Resolve`). A reader that is a restore goes on from the ID it
resolved, or from one that was given by hand and is looked up nowhere
(`TearDown`): it deletes the root prefix, copies the archive back and starts
Milvus from the image. Runs of create go on meanwhile: those that have captured
their image list a root prefix that is being replaced, those that have not yet
started get no answer from a Milvus that is gone. What etcd holds is the files
it names and the write denial, which is a property of the database like any
other and comes back with the image. The modules of the single commands have
their steps in detail; here a step is one that another command can tell apart.

The failures are those of the modules in detail: the deny loop may end in an
error or a kill with any database denied, the pause may fail or be granted
without an answer, a lease may expire at any moment (unless `LeaseLasts`) and
ends with the Milvus that gave it, Milvus compacts and collects garbage that no
lease protects, allowing may fail on its own, and a deletion that succeeds may
have left keys. Four fields of history say what happened to a run or a reader:
`kept`, it succeeded while it still held its lease; `lost`, files that Milvus did
not have any more when the image was captured; `refused`, keys that S3 did not
delete; `sound`, the run that is restored had `kept` its lease.

### Configuration and RestoreGates

`Configuration` reads the four layers one after the other. What a layer holds is
chosen when it is read: it may be absent, unreadable, or set any of the keys of
`Written` to its own name or to an empty value, so that a setting tells where it
comes from. An environment variable that is empty counts as unset, which is
viper's rule; a boolean is decoded weakly. `EnvsRoundTrip` is about
`envs --values`: its lines, exported in a place without files, load the same
configuration.

`RestoreGates` goes on with what is asked of a restore: `ChosenId` takes the
first of flag, configuration and `SNAPSHOT_ID` that is not empty, and `Confirm`
reads a chunk of standard input (a line of a terminal, or all that a pipe holds)
with a scanner of its own, of which it uses the first line and drops the rest.
From its last step on, `SnapshotRestore` has the restore, with gates that take
any answer.

### RestoreCR

The CR is a function from the paths of its leaves to their values. `Cluster`
holds the one in the API server, which server and operator have added fields to
(`Managed`), and Flux applies the one in Git (`Git`); `SnapshotRestore` holds the
copy in memory. `BuildRestoreCR` drops, resets and sets fields as the code does,
`MergePatch` is RFC 7386, and the API server refuses a document that still has a
`resourceVersion`. The schema of the CR makes every field above those that are
set an object, so the errors of `SetNestedField` that the code ignores do not
arise.

`ManifestAssumption` says what a CR in Git looks like, for the proofs: no
`milvus.io/` annotation (the operator sets those, and the restore would strip
one), no field above or below one that the restore sets or that server and
operator add (the schema, as before), and no `startFromSnapshot`, which is the
restore's own. `KnownComponents` says that the CR has no components but the six
of `restore.go:370`; it is a definition that two theorems assume, because the
code cannot rely on it. The CR that `MCSnapshotRestore` deploys satisfies both,
which TLC evaluates.

### SnapshotRestore

The run is a line of calls with an error return at each. What makes it
interesting is `Cluster`: a deleted CR stays `deleting` until its workers have
ended, a deleted claim until its pod has, and the etcd pod is not among the pods
that step 6 polls; Flux may have a reconciliation under way when it is
suspended; the operator installs etcd whenever there is a CR without it; an etcd
with an empty directory takes its data from the claimed snapshot, one with data
keeps it. After a run that failed or was killed, an operator may resume Flux,
remove temporary objects and start again (`ResumeByHand`, `CleanByHand`,
`Start`). `flux.managed` is chosen at the start: without a configured
Kustomization steps 1 and 13 are skipped.

A kill and an error leave the same cluster behind, so one result stands for
both.

A deletion of the root prefix that succeeds may leave keys (`"object"`), which
`run.left` remembers. Calls that were given up are over: a copy or a deletion of
a failed first attempt that S3 carries out during the second, which `S3Transfer`
has, is not modelled here. Nor is an etcd that is started once more after a
restore, on the claim of the temporary PVC that step 14 has deleted
(`FluxSeesCleanConfig` shows that it is still named).

Reconciliations that were under way when Flux was suspended are in the model,
and `flux.raced` remembers that one was applied. They do break a restore: they
can bring workers up while the data is replaced, or make the new etcd start
without the snapshot although the command reports success. The properties
except exactly these behaviours.

## Runs

All runs have `CHECK_DEADLOCK FALSE`: a command ends, and when every bound is
used up nothing is left to do.

| Run | Question | Bounds |
| --- | --- | --- |
| `create_faults` | Is a run that succeeds a consistent cut, and is a denial ever left unexplained, whatever call fails or process dies? | 1 run, 2 databases (one created at any time), 1 collection, 3 rows, every fault |
| `create_overlap` | Does a run's own lease protect it whatever another run does, is an archive that two runs fill whole, and do both end and undo both pauses? | 2 runs of one second that overlap in any way, 1 database, 2 rows; pauses, flushes and resumptions fail |
| `create_atomic` | Do successive runs implement `PointInTimeBackup`? | 2 runs that do not overlap, of different seconds, 2 databases, 1 row in each |
| `transfer` | Does success of a copy or a deletion mean complete, counted once and quiet; does it return? | 4 keys, pages and batches of 2, 2 goroutines |
| `catalog` | Is what was finished found by two listings at any moment, do the commands agree, and what do a create and a restore do to each other: is the archive of a run that kept its lease whole, and is what is restored? | 2 IDs whose runs do not overlap, 2 files (symmetric), a list of 1, 1 restore |
| `setup` | Do later layers override earlier ones, does `envs` print what is loaded, is the snapshot the one that was asked for, and is nothing touched without consent? | the snapshot ID in all four layers, 3 more keys, chunks of up to 2 lines |
| `restore` | Is the data replaced in quiet, is success the snapshot, does the CR survive, is what a failure leaves safe to serve, does every restore end and is a success served? | 2 attempts, 1 ID of 1 file, which the instance also has, 1 more that its workers write, a CR of 7 fields, every fault |
| `create_partial_deny` | violation: is writing always re-enabled after an error? | 2 databases |
| `create_lease` | violation: does the pause protect the whole snapshot? | 2 rows |
| `transfer_object_errors` | violation: does a successful deletion delete everything? | 2 keys |
| `catalog_partial` | violation: is the latest complete snapshot whole? | 1 ID, 2 files |
| `restore_revert` | violation: is `startFromSnapshot` gone when Flux is resumed? | 1 attempt |

Why the bounds are enough. Three rows make two segments to compact and a third
that is still in memory. Two databases make a loop that can fail after its first
element, and a database that appears between two listings. Two runs make every
pair of steps; a third adds a lease, and the leases do not interact. Four keys
make two pages, a last batch and a pool that is full with work left. Two IDs
overflow a list of one, and make a restore of one beside a run of the other; two
files make a copy, and a deletion, that is half done, and a compaction. The runs
of `catalog` follow one another (`MaxActive`), while the reader overlaps both;
the theorems have any number of both. The snapshot ID has six
sources and `setup` has every combination of them; its other keys are a boolean,
one with a default and the one that decides whether Flux is suspended, each in
one or two layers. The CR of `restore` has one field for each rule of
`buildRestoreCR` and one for none. Two attempts at a restore make every state one attempt
leaves a state another starts from; with one ID the second attempt meets the
temporary objects of the first. A file of the snapshot and one that the workers
write make every mixture of old and new that a deletion or a copy which stops
half-way can leave; an archive of several files is the theorems' matter. `MaxClock`, `MaxRows`, `MaxKey`, `MaxId`, `MaxActive`, `MaxRestores` and `MaxRuns` are the bounds
on what would grow without end.

### What the runs show

`PointInTimeCut` depends on the whole order of steps 1 to 4: deny before flush,
flush awaited, image after the last flush. `NoDanglingReference` depends on the
lease being taken before the image and held to the last copy, and holds for
overlapping runs because each has a lease of its own. It excepts runs without a
ticket or with a lease that expired, which may lose files and report success
(`create_lease`). `SharedArchiveIsWhole` is about two runs of one second: the
later image replaces the earlier one while files of both are copied, and still
the archive holds all that the image which stays refers to, because each run
lists after its own image. If one of the two fails after its upload, its image
may stay without its files, over the finished archive of the other.
`DenialAccounted` lists
every way a denial can be left behind: a run that is still going to undo it, one
that was killed, one that reported it, and one that failed inside the deny loop.
The last is the one nobody is told of.

`ImplementsPointInTimeBackup` maps `written` to the acknowledged rows and an
archive to the rows of the segments that are both named by its etcd image and
stored: the step that takes the archive is the one that ends the copy. It needs
what the constants of `create_atomic` say: runs that do not overlap and start in
different seconds, leases that last, no database created meanwhile.

`ServesWhatEtcdNames` is the safety of the restore as a whole: etcd claims go
before data, workers stop before either, and the CR that could start them comes
last. It holds across any failure, any second attempt, and Flux resumed by hand
over a half-finished restore. `RestoredIsSnapshot` is exact about the bucket: the
files of the snapshot, and of the old ones only those whose deletion S3 refused
without `DeletePrefix` noticing. They do no harm to what etcd names, but Milvus
owns them no more.

`SpecSurvives` holds although Flux, the merge patch and the second attempt all
edit the CR that the first attempt recreated: what is stripped is only what
server and operator add, or Flux puts back. It is about a CR that is there: one
that was deleted by a restore that was then killed lived in that process only.

`ArchiveIsWhole` and `RestoredIsWhole` say what create and restore can rely on
although neither looks for the other: a run that still held its lease when it
succeeded has an archive with everything its image refers to, because a restore
takes the lease away with Milvus; and a restore of such an archive starts a
Milvus that has every file it refers to, also when a run of create under another
ID, or the same, goes on meanwhile. `catalog_partial` shows how narrow this is:
the command and the bucket do not tell such a run from one that is still
copying, or lost its lease.

Four behaviours of the models are hazards that no property excludes, because
the code does not prevent them:

- A run of create beside a restore may list a root prefix that was emptied, copy
  nothing and report success (`TearDown` ends the lease, so `kept` is false).
- The image carries the denial of step 1, and `runRestore` has no step that
  allows writing again: a restored Milvus denies it (`StartFromSnapshot`).
- A database created between `create.go:77` and `client.go:76` is archived
  although it was never denied; its image may miss rows that were acknowledged
  before it was taken. `PointInTimeCut` and `CleanCutoff` are about the
  databases of step 1.
- Of two overlapping runs the first to end re-enables writing under the other,
  so the cutoff holds for runs that do not overlap (`Overlap = FALSE`).

`ActsOnConsent` holds at the price of a refusal: with both answers in a pipe, the
first gate's scanner takes both, the second gate reads the end of input, and the
restore is cancelled after Flux was suspended.

### Disagreements between code and documentation

- `create_partial_deny`: an error in the deny loop returns before the defer that
  re-enables writing is registered; `create.go:87` says "always".
- `create_lease`: the lease is asked for once. A run that takes longer than it
  can end in success with files missing.
- `transfer_object_errors`: keys that `DeleteObjects` reports as not deleted are
  counted as deleted.
- `catalog_partial`: the etcd image is uploaded first and nothing marks the end
  of a run, so a run that is copying, or failed while copying, is "the latest
  complete snapshot".
- `restore_revert`: a merge patch with an empty object leaves
  `startFromSnapshot` as it is.

More that no run of the list checks. The file given with `--config` is "merged if
provided" (`memory-bank.md:49`), but one that cannot be parsed is skipped without
a message (`root.go:133`), like a `config.yaml` (`root.go:110`);
`LaterOverrides` counts such a file as one that says nothing. `restore.go:329`
says "all Milvus worker component replicas to 0" where `restore.go:370` knows six
components.

## Fairness

- `SnapshotCreate`: `WF(RunStep(r))`, every call returns; `WF(LeaseExpires(r))`,
  the server drops a lease in the end (`management.go:24`). The first is an
  assumption about the servers: the HTTP client of `internal/milvus` has no
  timeout, and a hanging `ResumeGC` would keep the later defer from re-enabling
  writes. `create_overlap` fails a pause, a flush and a resumption; it leaves out
  `"allow"`, `"deny"` and `"crash"`, after which writing may stay denied (see
  `DenialAccounted`), and the calls whose error the run returns like that of a
  flush.
- `S3Transfer`: `WF(Operation)`, goroutines run and calls are answered. A call
  that was given up need not land, and other clients need not act.
- `SnapshotRestore`: `WF(Step)`, calls are answered and a person answers at the
  gates; the waits need no assumption, as they have timeouts, and each may time
  out at any moment. `WF` of the two actions of Flux and of the start of
  workers, for `RestoredIsServed` only. Jobs, etcd and the collectors have none:
  they may hang.

## Proofs

Every safety property of the runs is a theorem, for every value of the
constants that satisfies the assumptions named here. Each is proved from an
inductive invariant that TLC checked on the instances first.

### Create

`SnapshotCreateProofs` proves for any sets of runs, databases and collections,
any number of rows and seconds and any set of faults, from the assumptions
`MilvusAssumption` and `CreateAssumption`:

- `TypeCorrect`: `Spec => []TypeOK`. `RunRecord` and the lemmas beside it give
  the type of an updated run; then one step per action.
- `CopiesWhatEtcdNames`: `Spec => []NoDanglingReference`. The property speaks of
  the end of a run, and its reason lies in the middle, so the inductive
  invariant `CopyInvariant` says for each stage of a run whose lease is held or
  was released at the end, which of the segments of its image are where: what
  etcd names is stored (no reference dangles in the live instance), between
  image and listing everything the image names is still stored, and while
  copying it is archived or among the keys that are left to copy. A step of
  garbage collection is harmless because this run's lease excludes it; a step
  of another run because it only adds to an archive; a compaction because the
  image was taken.
- `SharedArchivesAreWhole`: `Spec => []SharedArchiveIsWhole`, also in one second.
  From `CopyInvariant` each run of the ID has its own image whole in the shared
  prefix; `ImagesAreOfRuns` adds that the image that is there is that of some run
  of this ID which uploaded it, and `PastUploadStays` that this run's is still
  the one it captured.
- `DenialsAnswered`: `Spec => []DenialAccounted`. The property is not inductive:
  a run in its last defer is active to the end, also for a database it has
  visited already, which another run may have denied again. `DenialInvariant`
  narrows the answer of such a run to what its loop has yet to visit
  (`Answers`), and `LoopInv` says what the loops visit. A denial then comes with
  a run that answers for it (`DeniesOnlyListed`), and a run stops answering only
  by allowing (`AnswersUntilAllowed`). The run `create_faults` has one run of
  create; the theorem has any number, overlapping.

`SnapshotCutProofs` is about runs that do not overlap (`Overlap = FALSE`): one
that ends allows writing again, also under another that has just flushed, so
none of these holds for runs that do.

- `ImageIsComplete` (`PointInTimeCut`) and `CutoffIsClean` (`CleanCutoff`), also
  when an ID is used again. `CutInvariant` follows a run
  through its steps: what it has denied stays denied (`DeniedSoFar`), a
  collection whose flush has been awaited has no row in memory and gets none
  (`FlushedSoFar`), and an image has every acknowledged row of the
  listed databases (`CutTaken`). `RowsKept`, that an acknowledged row is in
  memory or in a segment etcd names, is what makes flush and compaction
  harmless. Any call may fail and any process may die.
- `CreateImplementsPointInTimeBackup`: `Spec => ImplementsPointInTimeBackup`, if
  moreover every database exists from the start, no pause fails, no lease
  expires and no second is used twice (`SameSecond = FALSE`). Each of these is
  needed: a database created later is not listed, without its lease a run may
  lose files, and a run of the same second that fails may leave its image over a
  finished archive. `WholeInvariant` adds that nothing in
  an image is unacknowledged, so the archive of a success is the acknowledged
  rows of one instant. The refinement is proved step by step: the last step of
  the copy is the abstract `Take`, an insert is the abstract write, and
  everything else stutters.

### Copy and delete

`S3TransferProofs` proves for any number of keys, any page and batch size, any
limit on the goroutines and any set of faults, from `TransferAssumption`:

- `TransferTypes` (`TypeOK`), `SuccessIsQuiet` (`QuietAfterSuccess`) and
  `CopiesEverything` (`CopyComplete`), and, when S3 reports no error for a single
  key, `DeletesEverything` (`DeletionComplete`). The run
  `transfer_object_errors` shows that this assumption is needed: the code does
  not look at the errors inside an answer.

The properties speak of a successful return; `TransferInv` says on what the
success rests while the operation runs. `PagesInv`: what was there from the
start and is not listed comes after everything that is listed, so the end of
the pages is the end of such files (`PageLeavesNoGap` is the fact about one
page: it is closed downwards among the files that are left). `CopyInv` and
`DeleteInv`: unless there is an error, every listed key has been dealt with or
is in a task that is pending or sent, and the counter is behind the listing by
exactly the tasks that are outstanding. `GroupInv`: a task is in one place, an
error is never taken back, and only with an error is a call abandoned. The
counting needs that a key has one task (`OneTaskPerKey`), and the deletion that
the batches miss no key (`BatchesCover`), for every size.

### List, resolve, and the commands together

`SnapshotCatalogProofs` proves its six theorems for any number of IDs, files,
runs under way and restores, from `CatalogAssumption`. `ListAndRestoreAgree` (`CommandsAgree`)
is a fact about two operators: the newest complete ID that `list` shows, at any
limit, is the one that `resolveLatestSnapshot` takes. The two choose a greatest
number of a finite set in different ways; that there is one is proved without
induction, from a minimal member of a family of finite sets.
`FinishedSnapshotsAreListed` and `ResolvingFindsNewest` rest on `Seen`: an image
or a file that was there when the reader started is in the listing that is taken
later, because create removes nothing. `ArchivesAreWhole` and
`RestoresTheArchive` rest on `FilesOf` and `Replacing`. `FilesOf` says where the
files of an image are, at each stage of a run that holds its lease, and that
only a Milvus that is up has given one: so garbage collection and a restore,
which both delete files, only run where no lease is held. `Replacing` says what
the root prefix holds at each stage of a restore, with the keys that S3 refused,
and that with what is left to copy it has everything the image names. The steps
of a run are first reduced to what they make of its record (`Outcome`), and the
invariant is proved from that. `RestoresTheArchive` is an action property: it
speaks of the step that starts Milvus again.

### Configuration and gates

`ConfigurationProofs` has the inductive invariant `ConfigInvariant` (what is in
viper's map is what the last layer that was read says, and the structure has
it with defaults and decoding applied) and the lemmas on names:
`BoundOnce`, that no two keys of the configuration are bound to one variable, is
why `envs` can be read back. `RestoreGatesProofs` proves the theorems of the
composition: `GatesTypes`, `LaterLayersOverride`, `EnvsReadBack`,
`WhatIsAskedIsRestored` and `GatesActOnConsent`, for anything the layers may set
and any chunks of input. For the last, `GatesInvariant` says how many chunks a
run has read at each step: one gate, one chunk.

### Restore

`SnapshotRestoreProofs` proves for any snapshots, files, manifest and faults and
any number of restores that fail, are killed and are started again, from
`ClusterAssumption`, `WholeSnapshots` and `ManifestAssumption`:

- `RestoreTypes` (`TypeOK`) and `EveryRestorePreservesTheSpec` (`SpecSurvives`).
  The lemmas on documents say of each editing operation which fields it leaves
  (`SetFieldsIs`, `RevertedDocument`, `RestoredDocument`, `AppliedDocument`);
  `TypeInvariant` then says that the CR, and the copy in memory from the call
  that fetched it on, has every deployed field the restore is not concerned with.
- `EtcdNamesWhatIsThere` (`ServesWhatEtcdNames`). What etcd names must be in the
  bucket not only while etcd serves: a claim that is bound will serve again, and
  an etcd that is yet to start will be filled from the snapshot the CR claims.
  `FilesAreThere` says so for the three of them. It survives the deletion of the
  data because of what the stages before it achieved (`StagesHold`): no live CR,
  no etcd, no claim. These last although the operator, the collectors and a
  person go on acting, because only a live CR installs etcd, only a release
  starts it, and only Flux could bring the CR back, which is suspended
  (`FluxIsHeld`) or was seen to have raced.
- `NoWorkerDuringRestore` (`QuietDuringRestore`) and
  `RestoreBringsBackTheSnapshot` (`RestoredIsSnapshot`, with the keys that S3
  refused to delete), under `KnownComponents`:
  a component the code does not know keeps its replicas, and its workers start
  with etcd. `NothingRuns` and `EtcdIsRestored` follow the run from the deletion
  of the scalers to the resumption of Flux; that the recreated CR asks for no
  worker and claims the snapshot comes from `RestoredIsScaledDown` and
  `RestoredDocument`.

All exceptions for reconciliations that raced (`flux.raced`) are those of the
properties.

### Only model-checked

Liveness under fairness, which is beyond the prover: `RunsEnd`, `PausesUndone`,
`Returns`, `RestoreEnds`, `RestoredIsServed`. The nine violations are
counterexamples that TLC finds; there is nothing to prove about them.

## Not modelled

- The text that `list`, `envs` and the logger print, and the modes of `envs` that
  print names or defaults only; `collections.go`, `SetDenyReading` and
  `Download`, which no command calls.
- `sanitizeK8sName`: two IDs given by hand that differ in case or punctuation
  share a PVC and a Job; the API server then refuses the second, like a second
  attempt at the first.
- The spelling of buckets and prefixes: root and backup prefixes are disjoint
  here, and not empty.
- Edits of the CR by hand while a restore runs, and components of the CR that
  the restore does not know.
- Replication inside etcd: `Snapshot` is taken from one member, the model takes
  what the leader has.
- Two restores at the same time, and S3 calls of a restore that failed which are
  carried out during the next one.
- An etcd that restarts after a restore, on a temporary claim that is gone.
- Calls that never return: no client sets a timeout, and fairness assumes that
  every call is answered.
- Milvus, Flux, the operator, KEDA, Helm, viper and S3 themselves. `Milvus`, the
  second part of `Cluster`, the environment of `Configuration` and the server's
  actions of `S3Transfer` say what the code relies on.

## Plan

Done: all components but those above, the composition of the commands, and every
safety property of the runs as a theorem. Next: what a component takes for
granted of another, as refinements.

1. A specification of a bulk copy in one piece, with `S3Transfer` shown to
   implement it; it is what `CopyObject`, `ListKeys` and `CopyFails` of
   `SnapshotCreate` and `CopyPrefix` of `SnapshotRestore` stand for.
2. The steps of `SnapshotCatalog` that stand for a whole restore, from
   `SnapshotRestore`.
