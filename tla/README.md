# epkg in TLA+

A verification development for `epkg`, a package manager in Rust that installs
packages of several distributions (RPM, Debian, Arch, Alpine, Conda) into
independent environments which share a content-addressed store. The modules
model the parts of the program that hold state and decide: which packages a
command installs, replaces, sweeps and removes, in which order and with which
scripts; how the result becomes a generation that can be restored; how the files
of a package get from the shared store into the environments; how files are
downloaded, alone, in chunks and many at once, through failures and restarts; and
how the virtual machine of an environment is started, found, used and stopped.
TLC checks the modules on small instances; TLAPS proves their central properties
for every instance.

Source paths below are relative to `src/src/` unless they start with `src/`.

## 1. Inventory

| Component | State it keeps | Operations | What is hard | Correct when | Module |
|---|---|---|---|---|---|
| Generation history (`history.rs`, `io.rs`) | `generations/N/{command,installed-packages,world}.json`, link `generations/current`, `pending-packages.json` | create, record, switch, restore | files written one by one, no locks, no undo | current is always whole; old generations never change; numbers go up by one | `Generations`, `EnvHistory` |
| Installation driver (`install.rs`) | the plan, caches of the process | `execute_installation_plan`, link, save pending, transaction, save generation | an error or a kill between any two steps | what was installed is recorded | `Generations`, `PackageDb`, `PackageTransaction` |
| Removal (`remove.rs`) | requests, a work queue, marked packages | grant requests, find orphaned dependencies, unlink files | order of the queue, cycles, refused requests | the least set that answers the request | `RemovalPlan`, `PackageDb` |
| Installation plan (`plan.rs`) | operations, what is replaced, orphans | find what is replaced, sweep, order, expose | both ends of each dependency edge are needed | the least closed set goes; one version per name | `OrphanSweep`, `DependencyDepth`, `PackageDb` |
| Dependency graph (`depends.rs`) | edges at both ends, `depend_depth` | close a session, compute depths, record entries | cycles; metadata overwritten by later sessions | dependencies deeper than dependents | `DependencyDepth`, `PackageDb` |
| Upgrade, world, exposure (`upgrade.rs`, `world.rs`, `expose.rs`) | world.json, wrappers in `ebin` | upgrade all or some, with `--full` or without | depends on what earlier sessions recorded | exposed commands have wrappers | `PackageDb` |
| Candidate choice, versions (`resolve/candidate.rs`, `version_compare.rs`, `parse_version.rs`) | none | favour an installed version; put the newest first | special cases of special cases | versions have one order | `PackageDb`, `VersionOrder` |
| Package transaction, AUR builds (`transaction.rs`, `link.rs`, `aur.rs`, `scriptlets.rs`) | batches, the package cache, files of the environment | link, run each operation with its scripts, per format | every batch walks all operations again; files change owners | files are those of what is installed; each script once | `PackageTransaction` |
| Store, linking, garbage collection (`store.rs`, `link.rs`, `gc.rs`) | an entry: `fs/`, `info/`, the marker `consumed.json` | unpack, replace, link in five ways, copy, collect | processes of several environments without locks | environments are independent | `SharedStore` |
| Download of a file (`download/orchestration.rs`, `file_ops.rs`, `http.rs`, `validation.rs`) | `.part` file, final file and its time, `.etag.json`; in memory the `DownloadTask` | validate, attempt, resume, stream, check, rename, retry | kills, broken bodies, mirrors out of step, stale memory of a deleted file | never a wrong, mixed or older file; in the end the file | `ResumableDownload` |
| Chunked download (`download/chunk.rs`) | chunk files, the plan, the status of each chunk | plan, recover, cut up, fetch, retry, merge | two schedulers, threads that outlive their attempt, crashes while merging | a plan covers the file once; what is merged is right | `ChunkPlan`, `ChunkLayout`, `ChunkedDownload` |
| Download manager (`download/manager.rs`) | tasks by URL, handles, `is_processing`, data channels | submit, start a loop, schedule, wait in three ways | flags read before they are set; duplicate submissions | a URL is downloaded once, whoever waits is told the truth | `DownloadManager`, `DownloadService` |
| Virtual machine sessions (`vm/`, `libkrun/core.rs`, `libkrun/bridge.rs`, `main.rs`) | session file, socket, keeper process, guest | start, discover, route, stop, idle timeout | check then act on a file, by the name of the environment | one machine per environment, and it is found | `VmSession` |
| Mirror selection (`mirror/`) | usage counts, rates | choose a mirror | heuristics | | the choice only, in `ResumableDownload` |
| Everything else | | | | | not modelled, section 7 |

How they interact. A command loads the caches from the current generation
(`io.rs:591`), asks the solver for a *session* (`depends.rs`), makes a plan
(`plan.rs`, or `remove.rs`, or from an old generation `history.rs:218`), and
`execute_installation_plan` (`install.rs:215`) carries it out: download and
unpack into the store, link into the environment, transaction, new generation.
Where an environment has a virtual machine, `main.rs` first sends the command to
the guest. The processes share nothing but the file system. No file lock guards an
environment, a store entry or a session file, so the interleaving of two
commands, and a death at any step, are part of the system. Threads within a
process are those of downloads.

## 2. Modules

| Module | Models | State and actions in terms of the code |
|---|---|---|
| `EnvHistory` | what `history.rs:31-36, 180-188` promises | `history[g]`; `Commit` appends a generation |
| `Generations` | `history.rs`, `io.rs`, the steps of `install.rs` | `gen[N]` is a directory with three files, each absent, torn or whole; `current` the link; `pending`; per process `pc` and `mem` (its caches and plan). One action per file operation: `LinkPackage`, `SavePending`, `TransactNew/Old`, `DropPending`, `CreateGeneration`, `RecordHistory`, `SaveInstalled`, `SaveWorld`, `UnlinkCurrent`, `RelinkCurrent`; `Die` at each of `DiePoints` |
| `RemovalPlan` | `remove.rs:124-397` | `queue`, `visited`, `removes` are `processing_queue`, `visited_for_orphan_check`, `old_removes`; the graph is any the database can hold, and the queue is worked in any order |
| `OrphanSweep` | `plan.rs:586-712` | `remaining` is `remaining_rdepends`; `Filter`, then `Round` after `Round` |
| `DependencyDepth` | `depends.rs:1042-1343`, `plan.rs:397-414`, `aur.rs:672-792` | `Peel` and `BreakCycle` give depths; `RunOperation` and `BuildBase` consume them |
| `PackageTransaction` | a session from its depths to its last batch: `install.rs`, `transaction.rs`, `link.rs:380-420`, `aur.rs` | extends `DependencyDepth`, with `OrphanSweep` as an instance. `cache` is the installed map, `files` who a path belongs to, `batches` the batches so far, `times` how often each script ran. `LinkPackages` begins a batch, then one step per operation with the actions of its format, then the end |
| `PackageDb` | whole commands on the database | `inst` and `world` are the two JSON files, `ebin` the wrappers, `hist` the generations. `Install`, `UpgradeAll`, `UpgradeSome`, `Remove`, `Restore`, on one or several names (`Specs`), each compute session, plan and record as the code does; `Publish` is the repository |
| `VersionOrder` | `version_compare.rs:30-443`, `parse_version.rs:166-257`, `resolve/candidate.rs:234-332` | `Compare` is `compare_with_format` over epoch, upstream part and revision, with its special cases; `Consider` keeps the newest candidate |
| `SharedStore` | one store entry and the environments that share it | `store` (directory, files, marker), `env[e][f]` (nothing, a copy, a symbolic link), per environment the step of its command. One action per file |
| `ResumableDownload` | one URL and one file, by one process after another | `part`, `final`, `finalTime`, `etag` are on disk; `task` is the `DownloadTask`, lost at `Start`; `mirror` the version each mirror serves. An attempt is `AttemptAfresh/Resume`, then `Accept`, `Reject` or `AlreadyComplete`, `Receive` piece by piece, `BodyRead`, `RemoveFinal`, `Rename`; `Fail` is the retry logic. `Refuse`, `Disconnect`, `DiskError`, `DieSaving` and `Kill` are the failures, `Publish` a new version |
| `ChunkPlan` | the arithmetic of plans in `chunk.rs` | areas with offset and size; operators that create a plan, cut an area, recover from files found, make on-demand chunks |
| `ChunkLayout` | one chunked download on disk, from run to run | `part` and `files` are lengths, `plan` the areas. `Start` creates or recovers, `Grow`, `Discard`, `Merge`, `Ondemand`, `Finalize`; `Fail`, `FailIncomplete`, `FailOnGap`, `Crash`, `CrashMerging` |
| `ChunkedDownload` | the threads of it | the master's steps, the manager's `Collect`, `Check`, `Start`, and per chunk thread `Measure`, `Open`, `Write`, `FinishChunk`, `Break`; `Retry` leaves the threads of the attempt before running |
| `DownloadManager` | `manager.rs`, and those who call it | `Submit`, `Load`, `Store`, `Spawn` by a caller; `Clean`, `Look`, `Stop` by a loop; `Finish`, `Close` by the thread of a download. There are as many loops as callers may start |
| `DownloadService` | what the manager promises | `status` of each URL, `result` of each caller that waits |
| `VmSession` | `vm/session.rs`, `start.rs`, `stop.rs`, `guest_daemon.rs`, the keeper of `libkrun/core.rs`, the routing of `main.rs` | `file` and `sock` of each environment, and per command its steps, its keeper's and its guest's |
| `MC...` | constants for TLC | |
| `...Proofs` | the theorems | |

How they fit together. `Generations` takes a command apart and leaves open what
it wants; `PackageDb` says what it wants and does it in one step;
`PackageTransaction` takes apart what it does in between. `RemovalPlan` and
`OrphanSweep` are the two planners. Their theorems `Minimal` and `Complete`
(`SweepMinimal`, `SweepComplete`) say that each computes the least closed set, and
that is how `PackageDb` uses them (`RemovalSet`, `Orphans`). In the other
direction, both start from graphs where recorded dependents are real, which is the
invariant `NoFalseDependents` of `PackageDb`. `PackageDb` numbers the versions of a
package, which is right if `VersionOrder` has one order. `DownloadManager` knows of
a download only that it ends, well or badly; `ResumableDownload` and
`ChunkedDownload` show that it does, and with which file. `ChunkLayout` has the
offsets and lengths of a chunked download without its threads, `ChunkedDownload`
the threads with a fixed plan.

Refinement. `Generations` implements `EnvHistory` under the mapping
`history[g] = gen[g].installed.val` for generations up to the highest one made
current (`HistorySpec`). `DownloadManager` implements `DownloadService`: a URL is
downloaded once, its end is not taken back, and who waits is told the truth
(`ServiceSpec`).

A definition under a comment "Faulty" is a mistake that could be made in the
code, against which the property it breaks is tested.

## 3. Model checking

| Run | Question | Instance and why it is enough |
|---|---|---|
| `generations` | Do history and files stay right if the process dies anywhere but inside the switch of the link? | one process, two packages, commands up to generation 3: a command can die, be repeated, and be restored over its own remains; every torn file is reached |
| `removal` | Does removal find exactly the orphans, in any order, and end? | every graph over three packages up to renaming: chains, diamonds, cycles, refused and granted requests together |
| `package_db` | Does the database stay consistent through sequences of commands? Do versions have one order? | three names, so that one needs another through a third; two versions; three commands that change something, the least that installs, overwrites and removes or restores, on the essential name, the meta-package, or two that may depend on each other; one name essential, one a meta-package. Versions of up to three of six tokens and some longer ones with revisions and epochs, all pairs, in three formats |
| `transaction` | Are depths, order, sweep, files and scripts of a session right, and does it return? | three families of initial states (`MCPackageTransaction`): every graph and assignment to bases over three packages; every graph of three installed ones, with candidates for the sweep; every file, upgrade, batch and format of a small plan |
| `store_serial` | Do environments stay independent, is an accepted entry whole and a removed package gone, one command after another with deaths? | two movers and a hard-linker; two files, so that a command stops halfway; deaths anywhere but inside the replacement of an entry |
| `store_faults` | What is left when everything happens at once, garbage collection and death anywhere included? | a copying environment, two movers, a symbolic link; two commands at a time, as a third adds no step the two do not take |
| `store_gc` | "only removes unreferenced store data" (`src/docs/en/reference/paths.md:46`) | violated: section 5 |
| `download` | Whatever fails, is the file right, never older, and in the end there? | each kind of file; three versions, two of one size, so that size alone does not tell them apart; two mirrors, one ahead of the other, one without ranges; three failures: one to leave a `.part` file, one to break its resumption, one for the next; the default of six retries |
| `manager` | Is the manager the simple service, is its flag cleared, is everyone answered? | one caller of each kind, three URLs of which two are shared, one download at a time, three loops: enough for two loops to overlap and a third caller to be misled |
| `chunk_layout` | Do plans cover the file through crashes, cuts and retries, and is it there in the end? | a file too small for chunks and files of up to four, in units of an eighth of a chunk, on-demand cuts down to two; three faults: two to make a recovery of a recovery, one to cut in between |
| `chunked` | Who writes what, is what is merged right, does it end? | two chunks of two units, two attempts, two threads at a time, a file left from before, one failure |
| `vm_session` | Is there one machine per environment, is it found, is all tidy in the end? | three commands that overlap in any way: a start, then two in its environment of which one is another start at most, or a start in another one and any in the first; one keeper killed anywhere |

The largest, `removal`, has 4.2 million states; each takes about two
minutes at most with two workers.

Bounds. `MaxGen` and `MaxVersion` bound counters that are unbounded in the code;
`MaxRunning` bounds commands at work at a time, `Slots` chunk threads, `Commands`
commands of a VM; `MaxFaults` and `MaxCrashes` bound failures of network, disk and
process, which stop some time, as liveness needs. `MaxRetries` and `NrParallel` are
no bounds but the code's own parameters. Packages are interchangeable where
`MCSymmetry` is used, which is with safety and step properties only. Keys that are
recorded but no longer installed (`Ghosts`) are none in `removal`, for the number of
graphs, and one in `transaction`; the theorems cover any.

Deadlock is checked in `removal`, `transaction` and `download`: a planner or a
session has a step `Done` and must not stop elsewhere, and the user can always run
a download again. The others may stop: `generations`, `package_db` and the stores
when the people who use them give no more commands or the bounds are reached;
`manager`, `chunk_layout` and `chunked` when all is downloaded; `vm_session` when
all commands have returned and no machine runs. That they do not stop earlier is
what `EveryoneIsAnswered`, `EventuallyWhole`, `Terminates` and `Settles` say.

Fairness, and what in the code justifies it:

- `transaction`: weak fairness of the next step. One thread that waits for nothing.
- `download`: of `Work`, one thread that waits only for the network, every
  failure of which is a step of its own, and of `Start`: the user runs the download
  until the file is there.
- `manager`: of each caller, each loop and each download's thread. They are threads of
  the system, and a download ends, since its network calls time out and its retries
  are counted.
- `chunk_layout`: of `Progress`: the threads run, and the program is started again
  after a crash.
- `chunked`: of the master and of each chunk thread. Not of the manager's loop, as
  the master starts what the loop does not.
- `vm_session`: of each command once it has begun, of each keeper and each guest.
  Not of the beginning of a command.

Nothing is assumed of failures, of mirrors, of which mirror is chosen, or of users.
For `removal` termination is shown without fairness: by `Progress`
(`PackageDbProofs`) every step uses up something finite, and TLC finds no state
where it is stuck. For `transaction`, `chunked` and `chunk_layout` both are proved:
`SessionEnds` and `NeverStuck`, `DownloadEnds` and `MasterServed`, `LayoutEnds` and
`LayoutGoesOn`.

## 4. Proofs

| Module | Theorems | Assumptions |
|---|---|---|
| `GenerationsProofs` | `TypeCorrect`; `CurrentIsComplete`, `HistoryIsImmutable`, `ImplementsHistory`, `DamageStaysLocal` | none; `Alone`: one process, and it does not die between removing and making the link |
| `PackageTransactionProofs` | `Ordered`, `InstallOrder`; `SweepSound`, `SweepMinimal`, `SweepComplete`; `TransactionCorrect`, `EachScriptOnce`, `Completed`, `FilesAreRight`, `NeverStuck`, `SessionEnds` | finitely many packages; those installed before are none of the new; for `SessionEnds` finitely many of those |
| `PackageDbProofs` | `TypeCorrect`, `OneVersionEach`, `DependentsTrue`, `WrappersThere`, `RestoresExactly`, `RequirementsKept`; of `RemovalPlan`: `PlanTypeCorrect`, `Minimal`, `Complete`, `Sound`, `Progress`; of `VersionOrder`: `OrderOfVersions` | names are numbers, and what a name needs is numbered lower: no cycles; none for `RemovalPlan`; finitely many versions of any length, in whose upstream parts no two numbers are neighbours, as a number takes all the digits there are |
| `SharedStoreProofs` | `TypeCorrect`, `CopiesAreSafe`; `SharingIsIndependent`; `AcceptedIsWhole`, `NothingIsLeft`, `MoversAreIndependent` | none; `Sharing`: no environment moves files, no garbage collection, no death inside the replacement of an entry; `OneAtATime`: one command at a time, no garbage collection, no restore, no runpath, no death inside the replacement (the last theorem also: no symlinks) |
| `ResumableDownloadProofs` | `TypeCorrect`, `ChecksumHolds`, `NeverMixed`, `NeverOlder`, `ReceiverComplete`, `UnchangedTrue`, `RunEnds` | the types of the constants |
| `ChunkLayoutProofs` | `CreateTiles`, `SplitTiles`, `RecoveryTiles`, `OndemandTiles`; `PlansAlwaysTile`; `RecoveryKeepsAll`, `NoCountedFileLeft`; `LayoutGoesOn`, `LayoutEnds` | sizes are positive |
| `DownloadManagerProofs` | `TypeCorrect`, `LimitKept`, `FlagCleared`, `Implements`, `TellsTheTruth`, `NobodyForgotten`, `WorkRunsOut`; of `ChunkedDownload`: `ChunksInductive`, `OneThreadPerTask`, `PartHasNoHole`, `CompletedChunksAreThere`, `MasterServed`, `DownloadEnds` | the types of the constants; finitely many URLs and thread slots; for `WorkRunsOut` finitely many callers |
| `VmSessionProofs` | `TypeCorrect`, `OneVmPerEnvironment`, `VmCanBeFound`, `NoFileIsStale`, `AnswersCome`, `SessionsEnd` | the types of the constants; for `SessionsEnd` finitely many environments |

*Generations.* That the current generation is whole does not follow from itself:
`IInv` adds that the link, when it is there, names the highest generation, that
*every* generation up to that one is complete, and for each step of a command how
much of the next directory it has written. `StepWrites` shows that a step writes
nothing but the directory after the highest one; with it immutability and
refinement follow step by step. `Alone` is needed: with death allowed at every step
(`DiePoints = Steps`) TLC shows `DamageIsLocal` violated, since the numbering starts
again at 1, and section 5 says what two processes do; of several processes only
`TypeCorrect` is shown. `DamageStaysLocal` needs to know of a running command how
far it is: by `LocalInv` the cache it will save agrees with the current generation
outside its plan (`Progress`), new packages have their files before their entry, old
ones lose both in one step, and what is neither in a plan nor in `dirty` has its
files exactly when it is recorded.

*RemovalPlan.* `Justified` (a marked package was granted, or all its recorded
dependents are marked) gives `Sound` and `Minimal`. Completeness needs `Ahead`:
an unmarked orphan below a marked package is below one that is still queued or
whose dependencies are being walked. A package examined too early satisfies it
because the dependent marked last brings it back, which is where
`TrueDependents` is used. `Progress` is the termination argument: requests,
phases, packages not popped before and dependencies of the one popped are each
finite and used up in this order.

*PackageTransaction.* Three inductive invariants, of the three things a session
does. `DepthInv`: `RemainingExact` and `DepthsBelow` give the order of depths,
`DeepestRan` carries it over to the order of operations. `SweepInv`: `Accurate`,
`remaining_rdepends` is exactly the set of staying dependents that are not yet
swept, although dependents are struck out along `depends` and tested along
`rdepends`. `TransactionInv`: `Stages` says what each batch has linked and processed
by its end, `Leaving` that what was installed before is in the cache as long as
nothing replaced or removed it, and `Counts` that a script has run once if the
operation it belongs to has been processed and never before. That a batch finds
its own among all operations is what makes `Counts` inductive. `FilesInv` follows
each path: it holds a file of a package linked so far or of an old one that is still
recorded (`Possessed`), one that a package of the running batch has is in that
batch's hands (`HeldByBatch`), an old package keeps its files as long as its entry
(`OldKept`), and a new one has lost a file only where an old owner of the path was
swept in the first batch, which is also its own, or replaced in a later batch
(`NewKept`, which says `ChangedHands` without the `CHOOSE` of `BatchOf`). That a
command returns has two parts. `SessionEnds`: each step makes `Left` smaller, seven
natural numbers in lexicographic order: the phases of the session, the packages without
a depth, the stages of the sweep, the candidates not swept, the packages not run, the
steps of the batch and what its step still has to do (each finite, whatever the cycles). `NeverStuck`: for
each stage the guard of some action holds (`Ready`), since there is a lightest package
among those without a depth, a deepest among those to place, a base format if any
format is left.

*PackageDb.* `IInv` says of the installed map and of *every generation's* map that
each name has one version, that recorded edges are between names of which one
requires the other, that a recorded dependent that is installed names the package
as its dependency, and that as long as nothing new was published all versions are
the first. Generations are part of it since restore brings them back. From the last
part follows `RequirementsKept`: a package that stays and needs another keeps it.

*VersionOrder.* The invariant is only about types; what has to be shown is about the
comparison. Every comparison of two characters, tokens or rounds is the order of
their places on one scale: `Sorting` and the value for characters, `Standing` for the
beginnings of what is left (for Debian a tilde, the end, a number, other text; for RPM
a tilde, the end, text, a number). Three of those agree (`Agree`: equality
passes on, and two that go the same way are followed by the third), and so do three
lists of rounds of which the first that differs decides (`FirstFacts`). A loop is
`Rounds`, a function on the naturals whose equation is proved (`RoundsAre`); what is
left gets shorter, so that rounds beyond the longer version find two ends and change
nothing (`RoundsEnd`, `FirstExtended`), and three versions can be compared over the
same number of rounds. The special cases for pre-release markers break agreement but
not antisymmetry, for which they have to exclude each other (`SpecialCases`). Since
versions without markers agree, counting the older ones tells the place
(`OlderTellPlace`). The policy of Debian takes a text and a number a round, the code
one of them: `OrderIsPolicy` goes by induction on the length. A round of two texts
and one of two numbers make one of the policy's (`TextsRound`), and where only one
version goes on with a text the first character decides either way (`HeadsDecide`).
It needs parts that end in a number (`Regular`); for others the two differ, as
section 5 says.

*SharedStore.* `Whole` (the entry is complete or absent), `Kept` (if it is
absent and nobody is about to place it, nothing leads to it), `NotYetRecorded`
and `Filled` (a command that gets as far as recording has made every file) are
inductive together under `Sharing`; each alone is not. `CopiesAreSafe` needs
nothing of the store: `Copied` says which copies a command has made so far, and a
command that does not find a file fails. Where files are moved out, the entry is
whole unless it is marked, and only the mover takes files from a marked one
(`Marked`); with one command at a time (`Alone`) whoever is past planning finds the
entry (`EntryThere`), an environment without the package has nothing of it
(`Emptied`), and one with it has files of its own (`Held`). `OneAtATime` is needed:
with two commands at once, restores or a collection, a mover empties the entry under
another command, which section 5 describes.

*ResumableDownload.* `CheckedExact` needs only that what is about to be renamed
has passed the checksum. `WholeUnlessLeftover` is about memory and disk
agreeing: `Clean` says that every attempt starts without a `.part` file and
without `resumed_bytes`, that the `.part` file is a prefix of the version being
served and as long as the task has counted (`Prefix`), and that `file_size` is
the size of that version (`KnownSize`), so that the body ends exactly when the
file is whole. Each fails as soon as a run starts over a `.part` file, hence
`leftover`. `TimeInv` carries the comparison of times made at the response to the
replacement of the file. `GotInv`: in a first attempt the receiver has got what is
in the `.part` file, and `hasSent` says whether that was anything; `TrustInv`: as
long as every accepted response led to its file, the saved ETag is that of the file
in place, or of the one about to be. `RunEnds`: each step of a process uses up a retry, a
stage of its attempt or a piece of the body.

*ChunkLayout.* The lemmas say of each operator of `ChunkPlan` that what it makes of
an area, or of the whole file, tiles it: no overlap, nothing left out, room for what
is there. `IInv` adds to the tiling that areas are inside the file even where a cut
has left a gap; then each action either leaves the plan alone or
replaces one area by a tiling of it. `FilesInv` is about the chunk files on disk
that are not from an earlier plan of the run: no two areas overlap even if a cut left
a gap (`Apart`), such a file is the file of an area (`Owned`), begins at or after the
end of the `.part` file (`Ahead`) and ends before the next area begins (`Room`).
That is what recovery tests after a crash at any step. `LayoutGoesOn` adds `Boundary`:
the `.part` file never ends inside an area other than the master's, since those are
appended whole, recovery plans them beyond its end and a cut leaves them there. So
the area that, by the tiling, holds the next byte is the master's or begins there, and
can be downloaded, discarded or merged. `LayoutEnds`: each step takes something from
one of six finite sets (faults, the gap, steps of the process, bytes to append, files
to discard, bytes to download) and leaves those before it alone.

*DownloadManager.* The limit holds since the threads that go on are among the
handles (`Counted`), whichever loop counts and cleans. The flag is cleared since a
loop that will end, or a caller about to spawn one, is there for every time it was
set. The refinement needs `Orderly`: what a thread's stage says of the status, and
that a task whose end was read has its end for good. `NobodyForgotten` is the safety
part of `EveryoneIsAnswered`. A caller goes to wait without anybody `Attended` only as
one of the `unseen`; a loop stops looking only when it has seen nothing pending
(`Watched`), while what a caller waits for was submitted before (`Submitted`), so that
nobody becomes pending behind a loop that stops and a caller that waits. What is not
pending has a thread or has ended (`Threaded`), and a finished task has no channel but
late ones (`Shut`): then the answer is there. `WorkRunsOut`: every step takes something
from one of four finite sets (submissions, steps of callers, of tasks' threads, of
loops that stop), or is a loop's polling, which goes on only while a download is under
way or handles of ended ones are left.

*ChunkedDownload.* `ChunksInv` adds to the types that no file is longer than its chunk
(`Fitting`) and that a thread whose file has not been removed finds it (`Backed`).
On it rest three invariants that do not need one another. `FetchInv`: nothing that
runs, is held or is checked belongs to an attempt to come, and the task of every
thread is downloading, unless `OnFailed` overwrote a status that had changed since it
was read; so a test-and-set that finds a task not downloading finds it without a
thread. `HoleInv`: until a thread opens a shorter file than it measured, no file has a
hole and no writer is past the end of its file; that the length may grow under a
writer, through a thread of an earlier attempt, does no harm. `ThereInv` is
`CompletedIsThere` without its condition on the master: writes never shorten a file,
and what the master removes is behind `head`. That a download ends has two parts
again. `MasterServed` rests on `ServeInv`: what is downloading has a thread
(`HasThread`), the tasks of all attempts so far are made (`Made`), and as long as
nothing failed the part file ends where `head` begins (`PartFits`), so that no merge
finds the wrong offset. `DownloadEnds`: each step makes `DownloadLeft` smaller, nine
numbers: attempts, stages of the master, chunks not merged, tries of the head, pending
tasks that were not collected, pending tasks, what the manager holds, what the master
has not read, and the work of the threads.

*VmSession.* Neither property is inductive: whether a start may fork depends on what
other commands are about to delete. `Frame` relates commands, keepers and files
whatever happens: a VM is on in a living keeper only, a session file names a keeper
of its environment that has registered. `CalmInv` is about environments that are not
`disturbed`: a start in one is the only command there is (`Solo`), it has one living
keeper at most (`OneLiving`), which the file and the socket lead to once its start
has returned (`Registered`), no other socket is in its place before (`OwnSocket`),
and whoever is about to fork, to stop or to delete knows that keeper or that there is
none (`Polling`, `Stopping`, `Dropping`, `Leaving`). A keeper that has removed its
socket no longer counts as living there (`Holds`). The proof needs `disturbed` to cover
a keeper whose VM has ended but which has not unregistered: it may lose its socket to
a start elsewhere, the next start in its environment takes its session for stale, and
it then removes the new keeper's file. `Settling` holds in disturbed environments too and is what `Settles` rests on. A
session file has an owner until a keeper is killed (`FilesOwned`): the living keeper
it names, one about to write its name, or a stop that will delete it, which needs that
a stop has read a keeper of its own environment (`StopsItsOwn`). A command connects
once, to a guest that is on (`Connected`). Hence `NoFileIsStale` and `AnswersCome`.
`SessionsEnd`: each step takes something from one of seven finite sets (steps of
commands, steps of keepers, VMs, files, decisions to delete, connections, guests at
leisure) and leaves those before it alone. A start that polls needs the fifth: it may
decide to delete again only while there is a file, and the deletion then removes that
first, and the socket after it.

Only model-checked: what is about liveness, which is beyond the prover
(`Returns`, `EventuallyExact`, `EveryoneIsAnswered`, `EventuallyWhole`, `Terminates`,
`Settles`). Of all but `EventuallyExact` the two facts each rests on are proved, that
somebody can go on (`NeverStuck`, `MasterServed`, `LayoutGoesOn`, `AnswersCome`,
`NobodyForgotten`) and that not for ever (`SessionEnds`, `DownloadEnds`, `LayoutEnds`,
`SessionsEnd`, `WorkRunsOut`), of `Settles` also `NoFileIsStale`; the passage from
there to *eventually* needs ENABLED and stays with TLC. Of `EventuallyExact` it is
proved that every run ends (`RunEnds`) and that what is there is exact
(`ChecksumHolds`); that some run succeeds is false for an odd `MaxRetries` (section 5)
and is checked for the default, 6. Every other property of the
runs follows from a theorem.

## 5. Where code and documentation disagree

Shown by a run: `gc.rs:157` reads `installed-packages.json` as a map, `io.rs` writes
an array: nothing is found in use and every entry is deleted (`store_gc`).

Met while modelling. Each is how the modules behave, and most explain a condition
in a property, named in parentheses.

Generations and the installed map:

- `history.rs:75`: the link is removed and then made; a death in between leaves
  none, which reads as generation 0, so that the numbering goes back to 1 and old
  generations are written over, against "always increment by 1"
  (`history.rs:35`). (`Alone`, and `DiePoints` of the run `generations`.)
- `install.rs:440`: `pending-packages.json` is deleted before the generation
  that replaces it exists, so a death in between loses what `io.rs:604-605`
  keeps it for. (`DamageIsLocal` excludes the packages of commands cut short.)
- `history.rs:207`: restore accepts any directory `generations/N`; with no
  `installed-packages.json` it reads as empty, and everything is removed.
- Two commands in one environment at once take the same number, and the later
  one wins. (`Alone`.)
- `install.rs:716`: a later session overwrites `depend_depth` and
  `ebin_exposure`, and `remove` then takes a package the user had asked for,
  against "NOT automatically removed if it's marked as user-installed"
  (`remove.rs:104`).
- `remove.rs:243`: a request is granted because its dependent is requested too,
  also when that one is refused: with 3 needing 2 and 2 needing 1, `epkg remove 1 2`
  removes 1, refuses 2, and leaves 2 without what it needs. (`NothingBroken` asks
  that all are granted; `RequirementsMet` speaks of what was not to be removed.)
- `plan.rs:600`: the sweep goes by the overwritten depth as `remove` does;
  `install.rs:709` writes back dependents that were struck out, which keeps
  orphans for ever; `depends.rs:1455` drops dependents outside the session when
  their dependency is replaced. (`RequirementsMet` is claimed as long as nothing new
  was published.)
- `upgrade.rs:23`: an upgrade of everything unexposes what was requested, and
  favours the installed version of dependencies, which stay as they are.
- `install.rs:242`: a request for what is already installed as a dependency is
  not recorded; `history.rs:236`: restore saves an empty world.

Order and transaction:

- `depends.rs:1146`: breaking a cycle may take a package below it; a package
  outside every cycle can then be as shallow as its dependent.
  (`DeeperUnlessBroken` excludes packages taken.)
- `aur.rs:789`: ascending order of minimum depth builds a base before the bases it
  needs, which are deeper, against "build dependencies are built first"
  (`aur.rs:755-757`).
- `link.rs:403-407`: a path is unlinked by its name, after everything was linked: a
  file that moves from a package that is removed, or that an upgrade of a later batch
  replaces, to a new one is lost, against "Files are already linked"
  (`transaction.rs:255-273`). `validate_file_conflicts` leaves such packages out.
  (`ChangedHands`.)
- "Pre-install scriptlet (before files are linked)" (`transaction.rs:81`): all
  packages of a batch are linked before the first operation. For Debian, `prerm`
  of the old version runs with the files of the new one.
- `scriptlets.rs:586-592`: `%postuntrans` never runs. `transaction.rs:312` and its
  callers run the hooks before and after a transaction twice each.
  `transaction.rs:451` is a `todo!()`: upgrading an Epkg, Python or Brew package
  panics.

Versions:

- With pre-release markers the order is a ring: 6.0-b24-1 < 6.0-rc1 < 6.0 <
  6.0-b24-1 (`version_compare.rs:95-115`; the tests at 940-945 assert the last two),
  and 3.4 < 3.git1 < 3.rc1 < 3.4 for Debian (134-166). `sort_candidates`
  (`resolve/candidate.rs:270`) hands it to `sort_by`, which may panic on it.
  (`Plain`.)
- "according to Debian/RPM versioning rules" (`version_compare.rs:4`): where a number is
  missing, as in 1. against 1.0, it is less than 0. (`EndsInNumber`.)
- `version_constraint.rs:693` takes `>= X` with `<= X` to exclude each other, so that
  they become alternatives and any version will do, against "<= 2.3 and >= 2.3 are
  NOT mutually exclusive" (803). How constraints are grouped into alternatives
  depends on their order: `<1, >2, <3, >4` and `<1, >4, <3, >2` differ. (Not
  modelled.)

Store:

- `link.rs:183`, `store.rs:339`, `store.rs:1350`, `remove.rs:38`: moving out of
  an entry others lead to, dying between delete and rename, restoring a
  consumed entry, replacing an entry during a move or a removal. (`Sharing`,
  `MaxRunning = 1` in `store_serial`, and `Independent` not being claimed in
  `store_faults`.)

Download of a file:

- `chunk.rs:838` sets up the range before `check_existing_partfile` has found
  `resumed_bytes`: the first attempt over a `.part` file left by a disk error or
  a kill asks for the whole body and appends it, against "partial files are
  always valid prefixes" (`src/docs/design-notes/download-integrity.md:34`).
  A checksum rejects the result, but without one it is kept if the size is right.
  (`WholeUnlessLeftover` speaks of runs that start without one.)
- `orchestration.rs:501-508` removes the `.part` file "so the next retry starts
  fresh", but keeps `resumed_bytes`, and the retry asks for the rest of a file
  that is gone. With the default of six retries a later run succeeds; with an odd
  number (`--retry`, `main.rs:1451`) every run over a `.part` file ends with
  another one, and TLC finds `EventuallyExact` violated.
- `progress.rs:344` saves `.etag.json` before the body. If the body then breaks,
  the next request is answered 304, and the old file counts as up to date, or,
  if there is only a `.part` file, the download counts as done without a final
  file. (`UnchangedIsCurrent` excludes it by `broken`.)
- `http.rs:568` adds `resumed_bytes` to the size of a whole body, so that a
  mutable file over a `.part` file gets the size of both.

Chunks:

- `chunk.rs:1399` leaves the area that is cut another size than the comments at 1390
  and 1398 say, and can leave a gap at which the merge stops. (`miscut`.)
- `file_ops.rs:324` takes what follows the first "-O" for the offset: with a file
  whose own name has a "-O" every chunk counts as offset 0.
- After an attempt that ended incomplete, the next recovers chunk files that overlap
  those of the earlier plan, and recovery gives all of them up. (`stale`.)
- `chunk.rs:1449-1454`, "No conflicts occur between chunk retries and master task
  retries": nobody stops the chunk threads of an attempt that failed. One that
  reopens a path after its file was merged and removed seeks to the offset it
  measured, and the hole of zeros before it passes every check of size and is merged
  (`file_ops.rs:843`). (`holed`.)
- `chunk.rs:1539`: `handle_failed_chunk` can put a chunk that somebody has started
  since back to Pending, so that two threads fetch it, or it is fetched again after
  it was merged. (`overwritten`.)
- `chunk.rs:1706-1714`: when the manager has just started the chunk the master
  wanted to start, the master takes that for a failure and the whole attempt is
  discarded, though nothing failed. The removal of a `.part` file after "byte count
  mismatch" (`chunk.rs:1572`) cannot happen, because the bytes are counted from the
  same appends (1012).

Manager:

- `manager.rs:225, 293` against `orchestration.rs:86-88`: a caller that finds
  `is_processing` set when the loop has already decided to stop starts none, and
  its tasks stay pending until another caller comes. (`unseen`.)
- `manager.rs:124`: a duplicate submission can add its channel to a task whose
  channels have been closed; its receiver waits for ever. (`late`.) A body is sent
  to the first of several channels only (`task.rs:342`, `http.rs:358`), against "Add
  the new data channel to the existing task for data sharing" (`manager.rs:125`); the
  other receivers get the chunks and the end.
- Around `manager.rs:643`, `NeedOndemandChunk` is set from a state read under an
  earlier lock and can replace a status set since.

Virtual machines:

- Two starts can each find no session and start a machine, and the cleanup of a
  stop or of a dying keeper removes file and socket by the name of the environment
  (`session.rs:222`), whoever's they are by then; against "ONE active VM per env_root"
  (`session.rs:6`) and `stop.rs:41-43`. (`disturbed`.)
- A keeper whose machine has ended removes the socket first (`session.rs:226`): a start
  that then looks finds a session without one, deletes it and forks; when its keeper
  has registered, the old one removes the new file (230), and the next start makes a
  second machine. No two commands overlap in this. (`disturbed`.)
- `session.rs:124`: the start that waits for its keeper's file deletes it when it
  reads it half written; the keeper goes on writing to a file without a name.
  A start gives up after 30 seconds, a keeper goes on.
- `libkrun/bridge.rs:13-28`: starting a machine deletes the sockets of all
  environments; the next look at another environment's session finds no socket,
  declares it stale and deletes its file: start a, start b, start a gives a two
  machines, or, if a's first machine has just ended, its keeper removes the session
  file of the second. (`disturbed`.)
- `main.rs:342-345`: a command that was routed to the guest is run on the host
  again, since `try_route_command_via_vm` answers `None` either way
  (`main.rs:2489-2548`).
- A timeout of 0, "never" (`session.rs:16`), is sent as none, for which the guest
  takes 30 seconds; the first connection has no timeout at all. A keep-alive of more
  than `i32::MAX` milliseconds panics in the guest (`guest_daemon.rs:1700`).
- `epkg run` in a virtual machine takes over the environment's socket
  (`libkrun/core.rs:986`). QEMU's context id is fixed, so that one machine runs on a
  host, and its keeper leaves the child behind at SIGTERM. (Not modelled.)

Debian triggers (`deb_triggers.rs:654-683`): what remains pending is computed before
the hooks run and written after, so that activations the hooks make are lost. (Not
modelled.)

## 6. What is abstracted

- Package contents and requirements: a key is a name and a small version;
  capabilities and the solver's search are external.
- `depend_depth` in `PackageDb` is reduced to whether it is 0; its value is
  `DependencyDepth`'s subject. `PackageDb` has no dependency cycles;
  `RemovalPlan`, `OrphanSweep` and `DependencyDepth` have.
- In `VersionOrder` a version is a sequence of numbers, words, tildes and symbols;
  words are atomic, so that none is the beginning of another, and numbers fit 64 bits.
- Files of different packages collide in `PackageTransaction` only. Configuration files and
  paths that are always copied are left out of `SharedStore`, which has one entry.
- Scriptlets do not fail and, like hooks, do not change the database. Conda goes as
  RPM does, APK as Pacman.
- `ResumableDownload` is about a file below the chunking threshold
  (`MIN_FILE_SIZE_FOR_CHUNKING`), one process at a time, which the PID file
  provides for, mirrors that send an ETag, a time and a length with each
  response, and versions further apart than the ten minutes that count as equal.
- `ChunkedDownload`: writing to a chunk file and looking at its length are one
  step; servers without ranges, on-demand chunks and the limit of active chunks are
  left out. What the threads do after the download has ended is, too.
- `VmSession`: libkrun on Unix; booting and setting up the sockets are one step;
  reading a session and deciding what it means are one, for all environments at once
  where `cleanup_stale_vm_sessions` reads them, and the deletions that follow are steps
  of their own, one file at a time; input and output of the commands, `vm status` and `vm list` are left out.
- A JSON file is written atomically or left torn; directories and links are atomic, and
  so is the removal of a store entry's directory before its successor is renamed into
  place (`store.rs:339`).

## 7. Not modelled

- *Solver* (`resolve/`, but for candidates): glue to an external SAT solver, whose
  answer is a choice in `PackageDb`. *Constraints and requirements*
  (`version_constraint.rs`, `parse_*.rs`), *repository metadata* (`*_repo.rs`) and
  *package formats* (`*_pkg.rs`): functions of text and archives, whose cases their
  unit tests list. They keep no state but caches of one thread.
- *Debian and RPM triggers, hooks*: which run depends on files and scripts of
  packages; the states of Debian triggers are those of dpkg's files.
- *libkrun and QEMU* beyond the life of a keeper, *namespaces, mounts, user ids*:
  system calls in a fixed order, whose effect is the kernel's. *Privileged worker*
  (`ipc.rs`): its client is dead code.
- *Environments*: creation is generation 0 of `Generations`; registration, export and
  removal are input and output. *Services, alternatives, disk space, installation of
  epkg itself, queries and output*: one process at a time on files nothing else
  reads.
- *Busybox applets*: standard tools, which share no state with the package manager.
- *Mirror scores*: rates measured at run time; the models leave the choice open.

What could be added: the groups of version constraints; Debian triggers with scripts
as choices.
