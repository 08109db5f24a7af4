# TLA+ verification of incusos-builder

`incusos-builder` downloads an IncusOS image from an update server (or takes it
from a local mirror), verifies it, replaces the first bytes of its `seed-data`
partition with a tar rendered from a YAML file, for an offline build also
writes rescue media with a mirror of the release, and publishes one or two
files. This directory holds TLA+ models of its parts, TLC configurations that
check them on small instances, and TLAPS proofs of what matters most.

Contents: [inventory](#inventory), [modules](#modules),
[Publisher](#publisher), [Acquisition](#acquisition),
[ImageBuild](#imagebuild), [GptProbe](#gptprobe), [Command](#command),
[InitPrompt](#initprompt), [Release](#release), [RescueTree](#rescuetree),
[ConfigParse](#configparse), [Reporter](#reporter), [fairness](#fairness),
[what is proved](#what-is-proved),
[findings](#findings), [what is not modelled](#what-is-not-modelled),
[plan](#plan).

## Inventory

| Part | Code | State it keeps | Operations |
|------|------|----------------|------------|
| Process entry, exit codes | `cmd/`, `cli/{root,execute,exit,pin}.go`, `errdefs` | context cancelled by SIGINT and SIGTERM | run a command, map an error chain to one exit code |
| Build command | `cli/build.go`, `cli/policy.go` | flags, policy, reporter | check usage, choose the source, stream to stdout or publish, print the summary or the JSON envelope |
| Publisher | `cli/publish.go` | a session: two artifacts with temp, final and .bak names and the flags claimed, published, backedUp | Begin, ImageWriter, Publish, Abort |
| Image build | `build/build.go` | position in the stream | resolve, acquire, probe, render, splice, writeRescue |
| GPT probe | `build/probe.go` | none | find the seed-data partition in the head of the image |
| Release resolution | `build/resolve.go` | none | choose a release, an image and applications from the index |
| Acquisition | `update/{cache,client,local}.go` | cache directory `sha256/<digest>`, temps `.fetch-*`, issued handles | Index, Asset, ReleaseMetadata; VerifiedAsset.Open |
| Release metadata | `update/{metadata,validate}.go` | none | validate update.json, update.sjson and the files they bind |
| Rescue media | `media/{rescue,iso,fat}.go` | the resources temp, re-created by name | WriteRescue |
| Configuration | `config/` | none | decrypt, decode, defaults, validate |
| Seed renderer | `seed/` | none | render documents to a tar |
| Init | `cli/init.go` | scanner goroutine, two channels, the output file | ask questions, render and write a config |
| validate, versions | `cli/{validate,versions}.go` | none | load and summarise; list releases |
| Reporters | `ux/` | rate limit of the progress line | Step, Progress, Done |
| Fixtures, spikes, scripts | `testfixture/`, `spikes/`, `.github/scripts` | none | not part of the program |

How they interact. The build command opens a publisher session, passes its
writer and its resources temp to the image build, and calls Publish or, by
`defer`, Abort. The image build calls the source (acquisition), the probe, the
renderer and the rescue writer through the interfaces of `build/ports.go`.
A `VerifiedAsset` is a path, not an open file: the probe, the splice and the
rescue writer each open it again later. Processes share two things: the
destination directory (final, `.bak` and temp names) and the cache directory.
Neither has a lock. Within a process everything is sequential, except the
scanner goroutine of `init` and the reporter's mutex.

What is hard, and what makes each part correct:

* **Publisher.** Several processes target the same names; a kill may fall
  between any two calls; the rollback itself may fail. Nobody's file may be
  lost, nobody may see half a pair, and the outcome reported must be true.
* **Acquisition.** Entries are shared by name, verified once and opened many
  times, neither synced nor locked; three kinds of failure share one budget of
  attempts; cancellation can come anywhere. Nobody may read bytes that were
  not verified, and every request must end.
* **Image build.** Reads and writes are cut anywhere, the end of the stream may
  come with the last bytes, the image may be too short. Every byte written must
  be the right one and a success must mean the whole image.
* **Command.** A dozen early returns, three streams that may be closed, a
  signal at any moment, and errors that are wrapped on their way up. The exit
  status, the document on standard output and the files must tell one story.
* **Probe, rescue sizes.** 64-bit arithmetic on values read from an image must
  not wrap, and what is computed in advance must hold what is written later.
* **Resolution, metadata.** Documents fetched one after the other must agree,
  and two independent selections (build and listing) must too.
* **Rescue media.** The temp is removed and created anew by name; a failure at
  any of many steps must leave nothing open and nothing behind.
* **Init.** Line, error and cancellation race in one `select`; no line may be
  lost, no goroutine may hold up the command.
* **Configuration, seeds.** The order of decryption, decoding, defaults and
  validation decides which error wins and what reaches the image.
* **Reporters.** A throttle must not swallow the completion; a bar that is drawn
  over must leave nothing, and must stay out of logs and artifacts.

`PROJECT.json` lists each hazard at its line with the properties about it.

## Modules

| Module | Contents |
|--------|----------|
| `Publisher` | publish.go as publishBuild drives it, one system call per action |
| `PublisherProperties` | its properties, and the refinement mappings |
| `WriteOnceName`, `AtomicPair` | abstract specifications of racing and of replacing publication |
| `Acquisition` | cache.go, client.go and local.go, several processes on one cache |
| `AcquisitionProperties` | its properties and the mapping to `BlobStore` |
| `BlobStore` | abstract specification of the cache: a store of verified blobs |
| `ImageBuild`, `ImageBuildProperties` | runBuild, splice, writeRescue |
| `GptProbe`, `GptProbeProperties` | probe.go with a width as constant |
| `ProbedBuild` | composition: the build splices into the partition that the probe finds |
| `Command`, `CommandProperties` | one process from its command line to its exit status |
| `InitPrompt`, `InitPromptProperties` | the prompts of `init`: scanner goroutine and `select` |
| `ConfigParse`, `ConfigParseProperties` | from the configuration file to the seed archive |
| `InitConfig` | composition: the file that `init` writes is the one that is parsed |
| `Release`, `ReleaseProperties` | resolution, listing, names, the documents of a release |
| `RescueTree`, `RescueTreeProperties` | the writer of rescue media |
| `OfflineMedia` | composition: the writer is given what the release selected |
| `Reporter`, `ReporterProperties` | both progress reporters and their modes |
| `Loops` | the loops over a slice that `Release` and `ConfigParse` share, as recursive functions |
| `MC...` | constants for TLC |
| `PublisherProofs`, `AcquisitionProofs`, `ProbedBuildProofs`, `CommandProofs`, `OfflineMediaProofs`, `InitConfigProofs`, `ReporterProofs` | theorems |
| `LoopProofs` | lemmas on what loops leave, for `OfflineMediaProofs` and `InitConfigProofs` |

Each model can be read alone: `Publisher` sees the build as one action that
fills the temps or fails, `ImageBuild` sees acquisition as a call that returns
a handle or an error, and `Acquisition` sees the build as a plan of items that
it asks for and handles that it opens. `Command` sees each of them as one step
with the errors it may return.

Three modules compose components that hand data to each other. Each `EXTENDS`
one of them, takes the other by `INSTANCE`, names the properties of both, and adds
the step between them and a property of the two together:

| Composition | What goes over | Property of both |
|-------------|----------------|------------------|
| `ProbedBuild` | the partition that the table parser found in the head of the image | `SeedInItsPartition`: bytes differ from the image only where its table, in numbers that do not wrap, has the partition |
| `InitConfig` | the document that init renders | `InitConfigIsAccepted`: it is never refused, and the archive holds what was answered |
| `OfflineMedia` | the applications of the plan under their media paths | `MediaHoldsApplications`: the media hold each application asked for, whole, under the name the signed document has |

The other links are properties: `OnlyVerifiedBytesRead` (both passes of the splice
read the same bytes), `WholeImage` (what the temp holds on success) and
`WrappingKeepsOneCode` (an error that passes through several parts keeps the status
for its code).

Definitions marked *Mutant* are plausible mistakes in the code: a
run must fail when one of them takes the place of the definition it mirrors.
They belong to no behaviour of the specification.

Each component has a few properties, most of them about a hazard that
`PROJECT.json` lists. Where one question has several sides, the property is a
conjunction of named parts, each with its own comment, and there is a mutant
for the parts that matter:

| Property | Parts |
|----------|-------|
| `OldNeverLost` | `OldAtHand`, `RecoveryScriptSafe` |
| `CleanupIsTold` | `FailureRestoresPrior`, `BackupsReported`, `TempsGone` |
| `TableIsRead` | `EntriesInHead`, `PartitionIsExact`, `OverflowIsReal`, `FirstSeedDecides` |
| `DocumentIsReliable` | `OneDocument`, `DocumentHasStatus` |
| `StatusTellsArtifact` | `StreamIsArtifact`, `StatusTellsFile` |
| `EarlierFilesStay` | `CancelledBuildKeepsFiles`, `InitKeepsFile` |
| `CommandsAgree` | `SelectsHighest`, `SelectedIsListed`, `ListedCanBeBuilt` |
| `FilesOfOneRelease` | `AppsAsRequested`, `DocumentsBindFiles`, `OnlyLegalNames` |
| `MediaIsSound` | `MediaIsComplete`, `ParentsFirst`, `RefusalKeepsPlaceholder`, `NothingHeld` |
| `ImageIsAsConfigured` | `OfflineImageIsSelfContained`, `ArchiveIsTheFile` |
| `RefusalTellsFieldOnly` | `RefusalNamesTheFault`, `SentinelOfStage`, `OnlyUnquotedIsTold` |
| `LinesBecomeAnswers` | `NoMissedMeeting`, `NoLineLost`, `AnswersAreLines` |
| `ProgressIsReadable` | `CompletionShown`, `ThreeLinesTakeTime`, `RowIsKnown`, `ModesRespected` |

The type invariants of the last seven modules are parts of such a property as
well. What the proofs need beyond the properties stands at the end of each
properties module.

## Publisher

`pc[s]` is the system call a session makes next and `art[s]` the artifact it
is about; every call is an action, so processes interleave between any two.

| Code | Actions |
|------|---------|
| existingFinals, authorize, promptConfirm | `StatFinal`, `Authorize`, `Answer` |
| createTemps | `CreateTemp` |
| build.Build | `Build` |
| finishImageTemp, finishResourcesTemp | `Finish` |
| bak (publishForce) | `BakStat`, `BakRename` |
| claimThenRename | `ClaimFinal`, `RenameTemp` |
| removeBaks | `DropBak` |
| cleanup: unpublish, restore, removeTemp | `Unpublish`, `Restore`, `DropTemp` |
| fail; Abort, and the Abort that publishBuild defers | `Fail`, `ReturnError`; `Abort`, `DeferredAbort` |
| complete, cleaned | `cleaned` |
| kill or crash; another program | `Kill`, `ForeignCreate` |

A file is its kind and its author: the previous generation ("old"), a `.bak`
of an earlier crash ("stale"), a file of another program, a 0-byte claim, an
incomplete temp, a complete artifact. Every call has a branch in which it
fails, and `Unpublish`, `Restore` and `RenameTemp` act on whatever is at the
name by then, as the system calls do.

There are two ways into the cleanup, and they differ in what the user is told.
`Session.fail` (finish, .bak, claim, rename) puts what the cleanup could not remove or
restore into the error; `Session.Abort` (Begin without its temps, a failing build)
returns the error as it was and drops the list. Every return of publishBuild also runs
the deferred `Abort`, after a success as well: `DeferredAbort` cleans up unless
`complete` or `cleaned` is set, so a `Publish` that forgot to set it would remove
what it has published. `outcome` says how the session ended and `told` what its error
lists. Hence the scope of `CleanupIsTold`: backups are gone or listed however the
session ends; temps are gone or listed, but for those of an aborted session.

| Run | Question | Bounds |
|-----|----------|--------|
| `noclobber_race` | do processes without `--force` keep off each other's files, and does one win when nothing fails? | 2 processes, 2 faults, 1 kill, 1 foreign file; 3 processes when nothing fails |
| `replace_alone` | does one replacing run swap the pair atomically and recoverably? | 1 process, 3 faults, 1 kill, 1 foreign file |
| `force_race`, `mixed_race` | findings, see below | 2 processes, no faults |

`noclobber_race` checks `PublishedPairIntact`, `ImageLast`, `FailureLeavesNothing`,
`ExactlyOneWins`, `NoClobberKeepsOthers`, `ImageIsWriteOnce` and `SessionsEnd`;
`replace_alone` checks `OldNeverLost`, `CleanupIsTold` and `ReplaceIsAtomic`.
`ImageIsWriteOnce` says that the racing processes implement `WriteOnceName`:
the image name is filled once, and each verdict is true. `ReplaceIsAtomic`
says that a replacing run implements `AtomicPair`: the pair of files a user
has, or gets back from `.bak` names, changes in one step. The bounds suffice
for the interesting cases: two faults let a call fail and its rollback fail
too, three let both names of the rollback fail; a second kill adds nothing to
one process, and in a race leaves one process that still has to cope; one
foreign file can take the name at any moment it is free. In `noclobber_race` the
third process starts only where no fault, kill or foreign file occurs
(`QuietForThree`), which keeps both questions in one run.

Abstractions: resolvePaths is string work and gives the two distinct names;
a failing chmod of a new temp leaves nothing; `Start` is a valid command line.

## Acquisition

| Code | Actions |
|------|---------|
| Asset, Index, ReleaseMetadata | `Request` |
| reuse | `StatEntry`, `HashEntry` |
| doGET, getOnce; openFile | `Get` |
| readCapped, decodeJSON | `Read` |
| admit | `MakeTemp`, `Copy`, `Commit`, `Discard` |
| fetchAndAdmit, shouldRetryDownload | `Settle`, `TryAgain`, `ShouldRetry` |
| sleep | `Sleep` |
| cachedAsset.Open | `Open` |
| signals, kill, power loss, the user | `Cancel`, `Kill`, `PowerLoss`, `Evict` |

A file is "absent", "cut" (another length), "bad" (the length but other
bytes) or "good"; an asset stands for its digest, so SHA-256 is taken to be
collision-free. A server or a mirror may send anything. Every call of an admission may
fail, the remove of the temp included (`RemoveFails`); `strays` counts the temps that
stay so, and `NoTempLeftBehind` allows for no other, whatever fails. `PowerLoss` lets an
entry come back with any content, since neither the temp nor the directory is
synced; this is more than a file system does. `Evict` is a user who deletes an
entry, the only way the documentation gives to shrink the cache.

| Run | Question | Bounds |
|-----|----------|--------|
| `shared_cache` | is the directory a store of verified blobs for all? | 2 processes, 1 digest, 2 attempts, 1 kill, power loss, deletion |
| `offline_acquire` | do the requests of an offline build end, tidily? | 1 process, 2 assets and 1 malformed one, 3 attempts as in the code, 2 faults, 1 kill, power loss, deletion |
| `mismatch_budget` | finding, see below | 1 process, 3 attempts |

`CacheIsBlobStore` maps the directory to `BlobStore`. One digest is enough for
sharing: entries of different digests have nothing in common but the
directory, and the theorem covers any number.

## ImageBuild

One action per turn of a copy loop. A byte is known by where it comes from,
so a shift by one shows as a wrong byte. `CopySome` chooses how much a read
gives and whether all of it is written; `CopyRest` also has the end of the
stream come with the last bytes. In `copyN` and `discardN` that case is the
ordinary turn, because the loop ends on the count. The port calls are one
action each with the errors they can return; a cancelled context fails those
that look at it.

| Run | Question | Bounds |
|-----|----------|--------|
| `probed_build` | is every byte right, is a success the whole image, and does the tar go where the table says? | images of 0 to 8 bytes, partition expected at 2, tar of 0 to 3 bytes, buffer of 2; tables as below |

The prefix, the tar and the rest each take more than one turn, the image may
end inside the prefix, inside the replaced range, at its end and behind it,
and the tar may be shorter than, as long as and longer than the partition.

## GptProbe

One action per check of the header and per entry. The width of a word is the
constant `Bits`; products and differences wrap at it as `bits.Mul64` and
`uint64` do, so TLC meets every overflow with words of 4 bits and sectors of
1 and 2 units.

`ProbedBuild` runs the parser between `AcquireImage` and `Probe`: the head is that
of the image which is spliced afterwards (`HeadLimit`), and start and length are
what the parser returns. The inputs that the build meets later are chosen
when it meets them (`Meet`), and the parser's variables end with its call, which
keeps the product of both small; a signal during parsing is taken as one
before or after it. Run `probed_build`, with heads of 2 to 7 bytes, every LBA of
four bits for table, first and last, and up to three entries.

## Command

Every step of root.go, policy.go, build.go, validate.go, versions.go, init.go
and exit.go that can return is an action named after its function:
`Parse`, `resolvePolicy`, `checkFlags`, `loadBuildSpec`, `openImageSource`, `Index`,
`streamBuild`, `Begin`, `promptConfirm`, `Image`, `Publish`, `collectInitAnswers`,
`writeInitOutput`, `finishBuild`, `Execute`. `err` is the set of sentinels an error
chain wraps, built as the code builds it: `Wrapped` puts one more sentinel around a chain
(`%w: %w`), `outputWrap` one only where none of its own is in it, and `Flattened`, the
rescue writer's, keeps the text alone. `exitCode` takes the first in the order of exit.go;
`WrappingKeepsOneCode` says that the order never decides, for that status and the code
of the document are the same for each sentinel in the chain. `out`
is what standard output holds, `file` what is at the output paths. A signal may
come before any step; `Waits` marks the steps that wait for a server or a person.

| Run | Question | Bounds |
|-----|----------|--------|
| `every_command` | do status, document and files agree at every exit? | all four commands, one deviation of the flags at a time and the pairs that interact, both streams open or closed, one signal |

`DocumentIsReliable` is about every exit, that of a command line which does not parse and
of a closed stream too. It says what the code does there: a `--json` behind a flag that
does not parse was not seen, so no document is owed; a document that standard output does
not take makes the command fail; and where the error line cannot be written the status
of every failure is 1, whatever its document says.

A command has no loop, so the only bound is the set of command lines. The
insides of the steps are in the other modules.

## InitPrompt

The command goroutine (`line`, `wrapInitFormError`) and the scanner
(`Scan`, `Send`, `CloseLines`) meet at two channels. `parked` says that the
`select` of the command waits; who comes second takes the other with it, and
where several cases are ready any of them is taken, as Go does. Each question has
its own reading of a line (`Value`), one of which is asked again.

The run is `init_config`, see [ConfigParse](#configparse): 6 lines for 5
questions, so that one is asked again, with an end of input, a failing read and
a signal at any moment.

## Release

`Resolve`, `filterVersions` and the helpers of both are operators, with the folds
of the code as recursive functions; the state machine fetches the index, the image,
the applications and both documents, and a server may publish others between
any two. A digest stands for a content.

The run is `offline_media`, see [RescueTree](#rescuetree): indexes of 0 to 3
updates over 3 versions and 2 channels; one update of 3 files out of 9 kinds;
documents for any subset of 3 files. Three updates are enough for a tie, a pin
that stands twice and an update without a version beside the one that is
selected; three files for a duplicate beside the match.

## RescueTree

The actions are the calls of WriteRescue with the two layouts; each of them may
fail. `temp` is what is at the name of the session's temp, with another program
that may take the name while it is free.

`OfflineMedia` gives the writer the applications of a build of `Release` that
is done, under the paths of `rescueRelPath`; the writer is also started alone
(`caller = "alone"`), over trees that no build makes and it must refuse. When it
is called, the variables of `Release` return to their initial values, for the build
does not look at them again; `order` keeps what the property needs.

| Run | Question | Bounds |
|-----|----------|--------|
| `offline_media` | do selection, listing, files and documents agree; is reported media complete, and does a failure leave nothing? | the indexes above; trees of up to two assets with shared, nested and conflicting directories, contents of zero to two bytes with a buffer of two; sizes from nothing to 8 GiB around the limits of FAT32 |

Not modelled there: the case-insensitive names of FAT, and the session that
removes its temp by name although another program owns the file by then (its
`DropTemp` in `Publisher` acts on a name).

## ConfigParse

| Code | Actions |
|------|---------|
| readConfig, hasTopLevelSOPS, decrypt.Data, wrapDecodeError | `readConfig`, `hasTopLevelSOPS`, `Decrypt`, `Decode` |
| checkVersion, applyDefaults, validate | `checkVersion`, `applyDefaults`, `validate` |
| seed.Render | `Render` |

The bytes of a file are an input: YAML gives a document, or complaints; SOPS
decrypts, or not. A section keeps its version and the one field the code looks
at. The code lists the eleven sections by hand for the defaults
(`presentSeedVersions`), for the build.Spec (`spec`) and for the archive; the model
has the same lists, so a section that one of them forgets shows.

A diagnostic is a sequence of words and quotation marks, and nothing is assumed of it:
a library may print a value between marks that do not occur in it, between marks that
do, or between none, and TLC is given all three. `OnlyUnquotedIsTold` says what
`sanitizeYAMLMessage` achieves then, no more and no less: a value gets into an error
only by a diagnostic of the last two kinds. `SentinelOfStage` says which stage gives
which status: 4 for a file that was not decrypted and for nothing else.

| Run | Question | Bounds |
|-----|----------|--------|
| `init_config` | does the archive hold what the file says, does a refusal name its fault, is every line of a prompt used once and in order, and is what init writes accepted? | every subset of five sections with every value the code distinguishes; all eleven together; diagnostics with a value quoted, quoted by a mark it holds, and unquoted; images with every type, architecture and channel; 6 lines at the prompts |

`InitConfig` has three authors of the file: somebody who writes any document,
the prompts, and `init --no-input` with its example answers. The reader of the file
is another process, so the prompts have ended when it starts (`Answered`).

## Reporter

`Announce` is what Step and Done have in common, `Progress` the update; both in
the plain and the fancy form, chosen by `New`. Calls come in any order, which
covers the nested steps of a download within a build and attempts that start
again at zero. `row` is the terminal: how many cells of the cursor's row are in
use. Time is counted in ticks, two of which make the 200 ms of the throttle.

| Run | Question | Bounds |
|-----|----------|--------|
| `reporters` | when may progress and styles appear; is the completion shown, the log not flooded, the row clean? | all 432 combinations of flags, terminals and environment with 2 calls; both reporters with 5 calls, 2.5 intervals, totals of 0, 2 and 1000 |

Five calls are a line, a completion, a retry, its completion and what follows;
the properties speak of at most three consecutive lines.

## Fairness

Liveness (`SessionsEnd`, `RequestsEnd`) assumes weak fairness of `Run(p)`, one
process's own calls: a started process that can go on is scheduled until it
exits, and its system calls return. The HTTP client has no timeout, so nothing
is assumed of a server: `Acquisition` has no fairness where a process awaits
one (`AwaitsServer`) and is not cancelled, and `Publisher` none for the build.
`RequestsEnd` then says that a request ends, or waits for ever for one answer,
and that a cancelled one ends. Nothing is assumed of starting a process, of the
user's answer to the overwrite prompt, of signals, or of opening a handle.
`Command` assumes weak fairness of its steps where it `Waits` for neither a server
nor a person: `Ends` says that every command exits or is at one of these, and
`InitConfig` the same of both goroutines of the prompts, but not of `Scan`: a terminal may
stay silent. There `Ends` says that the command ends once input or a signal
comes.

## What is proved

The theorems hold for every value of the constants that satisfies the named
assumptions: any processes, assets, plans, attempts, sizes, images, tables, indexes,
documents, diagnostics, command lines and bounds. Each model declares its assumption in
the module with its constants, and TLC evaluates it on the runs:

| Assumption | Says of the constants, beyond their types |
|------------|-------------------------------------------|
| `PublisherAssumption` | names were free or held a complete old file; a `.bak` is absent or stale |
| `AcquisitionAssumption` | digests, documents and malformed items differ; at least one attempt |
| `ImageBuildAssumption` | a buffer is not empty |
| `CommandAssumption` | `-o -` stands only where the command has the flag (build and init) |
| `ReleaseAssumption`, `RescueAssumption` | types only |
| `GptAssumption` | `Word` is a modulus above `MaxInt`, a sector has 1 to `MaxInt` units, and the longest table fits in `MaxInt` (as `uint32` counts and sizes do in `int64`) |
| `ConfigAssumption` | a document has the fields of the schema, and sections of it only; the name of an unknown field is no value; of diagnostics, nothing |
| `ReporterAssumption` | an update is two integers, a width a natural number |

Some theorems have a hypothesis of their own. `NoReplaceRequested` (no `--force` and
no prompt, the contract of automation) is that of no-clobber publication, `OneRun`
(one session) that of replacement: the findings show that neither guarantee holds
without it. `SizesOfTheCode` gives the constants of fat.go and iso.go their
values, because a formula for room is only right for its numbers.

**PublisherProofs.** For every request, `TypeCorrect` and `CleanupRunsOnce`: `EndingInv`
ties the steps of a session to `cleaned`, `outcome` and `told`, so that the deferred
`Abort` finds nothing to do after a success or a `fail`, and nothing is marked when
an aborted session is done. `NoClobberInv` is behind the rest:

* `FlagsTellOwner`: the flags of a session say exactly which finals hold its
  claim or its artifact. It is what makes `Unpublish` and `RenameTemp`, which
  act on a name and not on a file, safe.
* `PublicationOrder`: what is published and what the temps hold at each call.
* `RolledBack`, `StaleBaks`, `NothingReplaced`: what a cleanup has undone, and
  that nobody moves a final aside.

`StepsAreLocal` says that a step of one session changes no other session's
part, which leaves one lemma per action. Results: `NoClobberInvariant`,
`NoClobberTouchesOnlyOwnFiles`, `WinnersKeepTheirFiles`, `ImageNeverAlone`,
`FailuresLeaveNothing`, and two that need more:

* `RaceRefinesWriteOnce`: any number of sessions implement `WriteOnceName`, one lemma
  for each action that fills the image name or gives a verdict; every other is a stutter.
* `RaceHasOneWinner`: with no fault, kill or foreign file, a race that has ended has
  exactly one winner. "At least one" is the hard half: `RaceInv` says that while anybody
  has given way, somebody leads, and that a leader gives way only to the session that
  claimed the image, which then leads itself.

The second half of the module is one run with `--force`, with any faults, kills and
foreign files. Neither property is inductive, since both speak of `.bak` names and flags that the
cleanup reads. `RunInv` says what each stage has marked and filled (`StageOf`,
`TempsOf`), which finals and backups the flags claim (`FlagsOf`), what was reported
(`ToldOf`) and where the prior file is (`PriorKept`). Results: `OneRunInvariant`,
`OldSurvives`, `PublicationTellsWhatIsLeft`, `RunRefinesAtomicPair`; the refinement has one
lemma per action, and only the rename of the image changes the abstract pair.

**AcquisitionProofs.** The inductive invariant is `TypeOK /\ CacheInv /\
NewHoldsNothing`. The heart is `VerifiedBeforeCommit`: only a verified temp is
renamed onto a name, so an entry that was good stays good under any other
process's step, and `HandlesHold` needs no lock. `TempsAreRemoved` has no hypothesis on
what fails: a temp outlives its admission only by a kill, or by a remove that failed
itself, and `StepStrays` counts the latter. Results: `TypeCorrect`,
`HandlesAreVerified`, `ReadersSeeVerifiedBytes`, `OneRedownload`,
`CacheStaysSound`, `GoodEntriesAreKept`, `TempsAreRemoved`, and `CacheRefinesBlobStore`,
the refinement of the abstract store step by step.

**ProbedBuildProofs** starts with `ImageBuild` alone. `NoWrongByte` is not inductive:
whether the next byte is right depends on source and stream being level. `Alignment` says how far each
is in every step and what has been compared by then; `IndInv == TypeOK /\
NoWrongByte /\ Alignment` is inductive. Results: `TypeCorrect`,
`StreamIsSpliced`, `StreamIsAligned`, `SuccessIsWhole`, `OutsideIsUntouched`.

The rest carries both halves of the composition, for words of any width.
`ParserInv` adds to `TableIsRead` that the table is measured once and before an entry is
read (`TableIsMeasured`); `PartitionIsOfTable` says that the build works with what the
parser returned. The arithmetic is in lemmas about the operators: `BytesAre` (a
product in words is exact or refused) and `RangeOfSectors`. Results:
`ProbedBuildInvariant`, `TableIsReadExactly`, `SeedStaysInPartition`; the last uses the
lemmas of the first half for the bytes.

**CommandProofs.** A status is set at the end, by a step that no longer knows what
happened. `CommandInv` says at each step what the error is and whose (`OneSentinel`: every
way of wrapping that occurs leaves one; lemma `Chains` about the operators that wrap),
what standard output and the files hold (`OutputOf`, `FileOf`), which steps the flags
allow (`StepOfFlags`, `OneStream`) and that a cancelled build does not come to publish
(`CancelledBuildFails`). Results: `CommandInvariant`, `DocumentCanBeRelied` (every
command line, those that do not parse included, and every combination of open and
closed streams), `StatusTells`, `EarlierFilesAreKept`, `WrappingKeepsTheCode`.

**LoopProofs.** The library's induction takes an operator as its parameter, which is out
of the provers' reach. `LoopInduction` says the same with the set of places at which a
loop is right, from the least-number principle; `LoopIsDefined` says that a recursive
function over a slice has a value at each of its turns. `KeptElements` and `KeptOnce`: a
loop that appends keeps what it is told to, and each element once.

**OfflineMediaProofs.** `BuildAndListingAgree` and `BuildTakesOneRelease` are about what
the folds of resolve.go and validate.go compute for an index or a document of any length,
by those lemmas. `RescueInv`
says how far the writer is in the tree it prepared (`TreeIsPrepared`, `OneAtATime`,
`DirsBeforeFiles`); `OfflineMediaInv` adds what the build handed over (`OrderIsGiven`),
which the two halves do not know of each other. Results: `OfflineMediaInvariant`,
`WriterIsSound`, `ContentFits`, `ApplicationsReachMedia`.

**InitConfigProofs** has three parts, like `InitConfigInv`.

* The prompts (`PromptInv`). `NoLineLost` is not inductive, since it allows for a signal
  that has come: `OneLineAhead` says where the scanner holds a line. `AnswersAreLines` is
  kept because a replay of one line more is the replay so far and one `After`
  (`ReplayOfLine`, for any number of lines).
* The file (`ConfigInv`). `DocumentOfFile` ties each stage to the document as it was
  decoded. On it rest lemmas about the operators, for every document: what defaults change
  (`DefaultsAre`), that the validators find a fault of the defaulted document exactly if
  something was wrong with the file (`FaultIsWrong`), that the renderer goes through every
  section once (`SectionsOnce`), that nothing is lost on the way to the build.Spec
  (`SpecIsAll`). For diagnostics of any length that quote their values (`IsQuoted`, the
  hypothesis of this lemma and no assumption of the model), `NoValueIsLeft` follows the
  scan of `sanitizeYAMLMessage`: it is inside a literal exactly where the quoting says so
  (`WordIsCut`). From it, `LibraryTells` says of every diagnostic what an error tells.
* The two together (`FileIsWritten`): what is read is what the answers give, and nothing is
  wrong with that (`WrittenIsRight`).

Results: `InitConfigInvariant`, `TypedIsAnswered`, `ArchiveIsConfigured`,
`RefusalTellsWhatIsWrong`, `WrittenIsAccepted`.

**ReporterProofs.** `ThreeLinesTakeTime` speaks of lines that were printed, the code
decides from the last one it remembers. `LastIsRemembered` ties them, and
`QuickIsFirstComplete` says that a line that did not wait for the interval is the first at
100 %, of which there are never two in a row. Results: `ReporterInvariant`,
`EveryoneCanRead`.

The type invariants of `Command`, `GptProbe`, `Release`, `RescueTree`, `Reporter`,
`InitPrompt` and `ConfigParse` are parts of the invariants above.

Only model-checked: liveness (`SessionsEnd`, `RequestsEnd` and both `Ends`), which the
prover cannot reach. Every other property of a run that is expected to pass is stated by
a theorem.

## Findings

* `force_race`, code: two `--force` processes use the same `.bak` names. The
  rollback of one renames the other's 0-byte claim over rescue media that were
  published with success (publish.go:655).
* `mixed_race`, code: a `--force` process that runs between the claim and the
  rename of a process without it has its published image renamed over
  (publish.go:554).
* `mismatch_budget`, documentation: a mismatch that comes on the last of the
  three attempts gets no re-download, against cache.md:122 and client.go:112.

Each of the three is a run that TLC must find violated. Other disagreements met
while modelling, which the models contain and whose properties are stated
so that they hold:

* When the error line cannot be written, `Execute` returns 1 (execute.go:21)
  although the error document has named the code of the error;
  automation.md:50 calls it the same value. `DocumentHasStatus` says 1 for that case.
* What a cleanup could not remove is in the error of `Session.fail` only. `Abort` drops it
  (publish.go:186, publish.go:248, build.go:233), so the temp of a failed build that cannot be
  removed is told nowhere; recover-interrupted-build.md:51 lists every such path
  after `leftover`. `TempsGone` excepts it.
* The leftovers of a successful publication are returned and not looked at
  (build.go:244); recover-interrupted-build.md:64 says so, publish.go:569 says that they are
  reported. `Returns` is what Publish returns.
* After a top-level sops key only a failing decryption has status 4; decoding and
  validation have 3, whatever the file was (load.go:46). configuration.md:156 and the
  comment at load.go:30 say otherwise, sops-encryption.md:131 agrees with the code.
  `SentinelOfStage` is about the code.
* doc.go:6 promises that errors name no secret value. `sanitizeYAMLMessage` cuts what
  stands between marks: an unquoted text of SOPS, and what follows a backtick inside a
  value that yaml prints between backticks (load_test.go:276 has the form), get through.
  `OnlyUnquotedIsTold` allows for these two and nothing else.
* A flag that does not parse ends the parsing before a `--json` behind it is seen
  (root.go:229), against automation.md:41; and operands are refused before
  `INCUSOS_BUILDER_JSON` is read (root.go:258), against run-in-ci.md:86.
* The scanner of init puts its error into one channel and closes the other; the
  `select` may take the closed one, and a read that failed becomes a usage error
  (init.go:431), against the comment at init.go:256.
* The channel is written without quotes (init.go:542): a text with a meaning in YAML
  makes a configuration that does not parse. `InitConfigIsAccepted` excepts it.
* An application that is listed twice is accepted by the parser and by Resolve and
  refused by the writer of the media, after the whole image has been written
  (`Distinct` in `RescueTree`).

## What is not modelled

* go-diskfs, pgzip, net/http, YAML, SOPS, huh and the standard library beyond
  what a call may return. SHA-256 is the identity of an asset.
* Formatting: summaries, tables, help texts, the bytes of the seed tar, colours.
* Path resolution: the two final names are distinct. Symlinks that make them
  one are outside the model.
* Names that differ in case only, on the FAT file system of rescue media.
* Fixtures (`internal/testfixture`): they make images and releases for tests and
  are no part of the program.
* Spikes (`spikes/`): experiments that preceded the program, in Go modules of
  their own; nothing imports them, and they share no code with it.
* Repository scripts (`.github/scripts`): release automation in Python.

## Plan

All parts of the program are modelled, and every safety property and refinement that a
run checks is proved. What may follow the code:

1. Paths: two final names that one symlink makes the same, and the case-insensitive names
   of FAT, which need a model of a directory below `Publisher` and `RescueTree`.
2. The tables of `Command`: which error of a step wraps which sentinel is an input of that
   model; `ConfigParse` and `Acquisition` could give it.
