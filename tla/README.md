# chromecarve in TLA+

`chromecarve` finds Chrome cache files on a disk (`scan`), shows what one of
them holds (`inspect`) and recovers the images in them (`extract`). This
directory holds TLA+ modules of the parts of it whose correctness depends on
interleavings, failures and orders of steps, the TLC configurations that check
them, and TLAPS proofs. Paths below are relative to the repository's root,
which `PROJECT.json` calls `src/`.

## The system

| Part | Source | State | Operations | What makes it correct |
|---|---|---|---|---|
| scan pipeline | `internal/scanner/scanner.go` `Scan`, `reportProgress` | two bounded channels, a cancellable context, atomic counters, the collector's locals | walk, inspect, collect, cancel, return | nil means complete; counters exact; the error is the cause; it always returns |
| root walking | same file, `walk`, `coveredByRoot`, `excluded` | pending roots, seen roots | walk a root, follow a link | terminates on loops; no file missed because of another root |
| inventory writer | `internal/manifest/jsonl.go` | a JSON encoder with a sticky I/O error | write a record | append-only, whole records |
| inspection, scoring | `scanner.go` `inspect`, `internal/scoring`, `internal/discovery`, `internal/reddit` | none | stat, read, detect, score | a file that changes meanwhile is reported, not misread |
| cache parser | `internal/simplecache` | none (reads a file) | layout, header, key, EOF records, streams, HTTP metadata | no read outside the file; the streams tile it |
| extraction | `internal/extractor/extractor.go` | the output directory, staging files | stage, decode, recognise, install, clean up | artifacts contain what their names say, are never replaced; no staging file stays |
| HTTP metadata | `internal/simplecache/http.go`, `parse.go` `parseHTTPStream` | a cursor | read the pickle's fields, split the headers | no read outside stream 0; intact headers are found |
| signatures | `internal/signatures` | none | detect, find | every signature found, none outside the data |
| commands | `internal/cli`, `cmd/chromecarve` | the output file, exit status | parse flags, configure, run, batch over JSONL | exit status tells what happened; a usage error harms nothing; a bad record does not stop the batch |

How they interact: `runScan` opens the output and calls `Scan`; the walker
goroutine sends paths to the workers over one channel, the workers send results
to the collector over the other, the collector writes records. The JSONL is then
the input of `inspect --input` and `extract --input`, which run the parser on
each path (so `Inspect` is what `ScanPipeline` calls `Outcomes`, `WalkRoots`
what it calls the order of the walk, `Extract` and `SimpleCacheLayout` what
`Batch` calls `Outcomes`; `Chromecarve` joins `CommandLine`, which starts any of
them, and `Batch`; `StoredImage` joins `ResponsePickle` and `ContentCoding`, the
two ends of `entry.ContentEncoding`). `Extract` keeps the source open while it
parses and copies it, and shares nothing with other `chromecarve` processes but
the output directory.

The hard behaviours, with their lines, are the `hazards` of `PROJECT.json`.

## Modules

| Module | Models | Kind |
|---|---|---|
| `ScanPipeline` | `Scan`: walker, workers, closer, collector, cancellation | state machine, properties, inductive invariant |
| `CandidateInventory` | what a scan promises | abstract specification |
| `ScanPipelineProofs` | theorems about `ScanPipeline` | TLAPS |
| `MCScanPipeline` | instances | TLC |
| `Extract` | `Extract` in several processes over one directory, with faults | state machine, properties |
| `ArtifactStore` | what the output directory promises | abstract specification |
| `ExtractProofs` | theorems about `Extract` | TLAPS |
| `MCExtract` | instances | TLC |
| `WalkRoots` | `walk`: roots, followed links, loops | state machine, properties, liveness |
| `WalkRootsProofs` | theorems about `WalkRoots` | TLAPS |
| `Inspect` | `inspect`, `scoring.Evaluate`, `Detect`, `ParseHeaderAndKey` on one changing file | state machine, properties, inductive invariant |
| `InspectProofs` | theorems about `Inspect` | TLAPS |
| `SignatureScan` | `signatures.Find` and `Detect` | state machine, reference definition |
| `SignatureScanProofs` | theorems about `SignatureScan` | TLAPS |
| `ContentCoding` | `Content-Encoding`, `parseEncodings`, `decoderChain` | state machine, properties, inductive invariant |
| `ResponsePickle` | `parseResponseMetadata` | state machine, properties |
| `StoredImage` | `parseHTTPStream` and what `Extract` makes of the body, in one entry | composition of `ResponsePickle` and `ContentCoding`, properties |
| `StoredImageProofs` | theorems about `ResponsePickle`, `ContentCoding` and `StoredImage` | TLAPS |
| `ExitCodes` | the exit statuses | constants |
| `Batch` | `inspect` and `extract` on a path or on JSONL | state machine, properties |
| `CommandLine` | `Run`, `runScan`, flags, `Config.defaults`, statuses | state machine, properties |
| `Chromecarve` | the program: commands, and the batches within them | composition of `CommandLine` and `Batch`, liveness |
| `ChromecarveProofs` | theorems about `CommandLine`, `Batch` and `Chromecarve` | TLAPS |
| `MCWalkRoots`, `MCInspect` (of `Inspect` and of `SignatureScan`), `MCStoredImage`, `MCChromecarve` | instances | TLC |
| `SimpleCacheFiles` | entry files: as written, and as damaged | values and operators |
| `SimpleCacheLayout` | `simplecache.ParseFile`, read by read, on a file that may change | state machine, properties, inductive invariant |
| `SimpleCacheLayoutProofs` | theorems about `SimpleCacheLayout` | TLAPS |
| `MCSimpleCacheLayout` | instances | TLC |

Definitions named after a bug ("Variant: ...") are not part of the
specifications: each is a plausible mistake in the definition that follows it,
and `PROJECT.json` lists under `mutants` the property that notices it.

### ScanPipeline

An *entry* is one call of the `WalkDir` callback. `unvisited`, `walker`,
`offer`, `walkErr` are the walk goroutine: `WalkOffer`, `WalkFault` and
`WalkSkip` are the three things the callback does with an entry after its check
of the context, `WalkSend` and `WalkAbandon` the two cases of its `select`,
`WalkInterrupted` that check when the context is done, `WalkUnresolved` a failing
`filepath.Abs`, `WalkFinish` the end. The value of `walk` is sent *before* the
deferred `close(paths)`, so `closing` and `done` are different states and `Scan`
may return between them. A worker is `idle` (in the `range`), `inspecting`,
`sending` (in its `select`) or `done`; `held` and `wres` are its locals. The
collector has no program counter: it takes a result and handles it in one step
(`CollectNothing`, `CollectWrite`, `CollectFault`), because what it shares with
the others meanwhile are only counters that are added to. `fatal` and `cancel()`
change together, so `CtxDone` is `parentDone \/ fatal`.

Where the code takes several steps that no other goroutine can tell apart they
are one: receiving a path, the check of the context and `scanned.Add`; the loads
of a progress report (its count of candidates is the collector's own). The file
system and `inspect` are choices: any kind of entry in `WalkKinds`, any result in
`Outcomes`. `settled`, `found` and `faulty` are history variables.

The abstract view is `CandidateInventory`: entries are settled once, candidates
are appended when they are, and a scan ends `complete`, with everything settled,
or `stopped`. `ImplementsInventory` is checked with the mapping of `ret` to a
status.

### Extract

Each process makes up to `MaxRuns` calls. A call goes through the states
`create`, `copy`, `sync` (the raw staging file), `encodings`, `chain`, `create`,
`decode`, `sync` (the decoded one, if there is an encoding to undo), `detect`,
then `link`, `unlink` or `hash` for the image and again for the raw body, and
`cleaning` (the deferred removals). Every system call in it may return an error
(`Faults`); a failing call goes to `cleaning`. `Crash` kills a process between
any two steps. `PowerLoss` kills all of them, damages the content of files that
were never synced, and drops any set of names from the directory, which
`Extract` does not sync.

A content is a value, and a SHA-256 digest is the content it was computed from,
so the artifact names are `<<"image", content, type>>` and `<<"raw", content>>`.
`Size`, `Type` and `Decoding` are constants: what the byte count,
`signatures.Detect` and the decoders say. `Partial` is a prefix of a body and
still looks like an image, which is the worst case. A hard link is a second name
with the same content: nothing writes to a staging file after it is linked.

### SimpleCacheLayout

One parse of one file, of either caller (`Extract` has the file open already,
`inspect` lets `ParseFile` open it). Every read is a step: `Open` takes the size,
`ReadHeader`, `ReadKey` and `ReadLastEOF` are `parseHeaderAndKey` and the first
`readEOF`, `ReadCombined` and `TakeStream2` the two layouts, `Validate0` to
`Validate2`, `Digest`, `VerifyKeySHA` and `ParseHTTP` the reads that verify and
whose failures are only warnings. `Return` is a `return` with the class of the
error. Between two reads `Change` may turn the file into any other of `Files`;
the parser goes by the size it took at the beginning.

`SimpleCacheFiles` says what a file is: its size, its header, and the footers and
key digests at the offsets where they are. `Written` lays out a combined or a
stream-2 file as the builders of `parse_test.go` (and
`docs/cache-format-notes.md`) do, `Damages` is every file one damage away: cut
anywhere, a byte altered anywhere, or a field of the header or of a footer
changed. Bytes are named by the file, the place they were written at and the
alterations since, so two regions have the same checksum only if they are the
same: collisions of CRC-32 and of the key hash are outside the model. A body may
be made to end in what looks like a footer. A read error of the operating system
at a bounded read has the effect of a file cut in time; at the verifying reads it
is a choice, for the files in `Unstable`, which are also those that may change.

### WalkRoots

A node is an absolute path with no link on its way, so canonical paths are
nodes; a *spelling* is a node together with whether it is written relative to
the working directory. `NextRoot` is the head of `walk`'s loop, `PassOver`,
`Enter`, `EnterFails`, `RootFails`, `Follow` and `Offer` are what the callback
and `WalkDir` do with a node, `AbsFails`, `Interrupted` and `Finish` the returns.
`WalkDir`'s order is left open but for directories before their entries.

A link met under a relative root resolves to a relative path. `filepath.Rel`
then fails in `coveredByRoot`, and `seenRoots` is keyed by absolute paths, so
such a link is neither covered nor seen, its target waits in `pending` although
the root holds it, and files may be sent once more, from another root; the test
at the head of the loop still walks each canonical path once, which is what
makes `walk` end. A root that is itself a link is only entered with
`--follow-symlinks`. The name of a root may be hidden, but not excluded.
Overlapping roots send a file once each. What is hidden or excluded is so on the
way from the root that is being walked (`Open`): a followed link that leads to a
directory below a hidden one makes a root of it, and it is walked.
`StaysInRoots` therefore says two things: nothing below what is hidden or
excluded in its root is sent, and no root is walked but those asked for
(`AskedFor`) and those that links met in other roots lead to (`LeadsTo`), in
chains that begin with one asked for. Exclusion patterns are a set of nodes;
roots spelled through a link in the middle are not modelled.

### Inspect

One call of `inspect`. A file is what the call can tell of it: its size, its
magic, version and claimed key length, the lengths by which the bytes behind the
header show a URL when they are read as a key (`urls`), whether its time is in
the window, and where the first Reddit address, image type and image signature
end. The header and the key are two reads, so the length may be one version's
and the bytes another's, part of a body included: `ReadKey` looks for the URL in
those, and `KeyShown` says what `valid-cache-key` is then worth. Every system
call is a step (`Stat`, `Open`, `Read`, `Detect`, `ParseHeader`, `ReadKey`,
`Score`), and `Change` may put another version in between any two. `Points` are
the rules of `scoring.Evaluate`. `seen`, `reach` and `broken` are history.
`ReadBounded` is the bound the code keeps on what is read: the limit, or a
header and one key of up to 1 MiB where that is more. `docs/SPEC.md` promises
the limit alone, and the run `inspect_scan_limit` shows the difference.

### SignatureScan

`appendPattern` for each pattern (`SearchPattern`, `NextPattern`), then the
containers place by place. A cell is a byte of a pattern or a word of a
container's header; a word read as a length claims `Claim` words. The search
sees the first `Window` cells of a file. `DetectSignature` is the other function
of the package, which `detectImage` asks about the first `HeaderLength` cells of
a body, with the size of all of it. `AgreesWithDetect` compares the two for
every place at which an uncoded body may lie in the file: what `Extract` takes
it for is among the matches, if its header, and all that a WebP image claims,
lie in the window (`InSight`). An image that begins beyond the window, or a WebP
image that goes on beyond it, can be extracted although the scan has no match of
it.

### ContentCoding

What becomes of a body between its headers and its type: the first
`Content-Encoding` header is taken (`TakeHeader`), split (`ParseToken`), and a
chain of decoders is put on the raw body from the end of the list. gzip and zlib
read their header when they are opened (`OpenEager`), brotli reads nothing until
the copy (`OpenLazy`). A body is the stack of codings the server applied, with
at most one of them damaged; brotli makes an error or garbage of what is not
brotli. gzip and zlib data end in a checksum of what they decode to, brotli data
have none. So `Copy` has three outcomes for damage that passes its decoders: an
error, always possible; altered data without one, where only brotli undoes it
and what is further in (`NoChecksum`); and the right data without one, where a
zlib reader further in ends before the damage is reached (`ErrorUnread`).
`Detect` looks at 64 bytes, so an altered image may still be taken for one. Size
limits, staging files and the errors of the file system are in `Extract`, which
has the whole chain as one step. `ContentCoding` has no behaviour of its own:
its headers and bodies are those of `StoredImage`.

### ResponsePickle

The cursor of `parseResponseMetadata`, one action per field, over a stream given
by its length, the payload size it claims, its version and flags, the length of
the header string where the cursor looks for it, and the status line's worth.
`Intact` is the layout of `buildResponsePickle` in `parse_test.go`.

### StoredImage

One entry on its way to an image. `ParseMetadata` is a step of `ResponsePickle`;
when that is over, `Extract` is a step of `ContentCoding`, over the headers if
the pickle could be read and over none if not, because a metadata error is only
a warning. So an unreadable pickle makes the extractor look for an image in the
raw body; `NothingGuessed` says that this never turns an encoded body into one,
and that what comes out is what the server encoded, or was damaged where no
checksum covers it.

### Batch

`inspect` and `extract` with one path (`Single`) or with a file of lines. A file
is the lines `bufio.Scanner` delivers and how the reading ends; a line is blank,
not JSON, without a path, a record, or too long for the buffer. What a path comes
to is any of `Outcomes`, a set of the error sentinels an error may wrap (two of
them joined included). `Kill` may come between the installation of an artifact
and its result line, and the command is then given again on the same directory.

### CommandLine

A command line is its command, what `flag` makes of it, and the values that
decide. Integers are `2 * Half` values wide, and `Wrap` is Go's conversion.
`Delegate` stands for what a valid `inspect` or `extract` does. `Check` is what
each command asks before it does anything, `Open` truncates the inventory,
`Configure` is `Config.defaults` and comes after it: a refused configuration (no
workers, a limit below the magic, a window that ends before it begins) therefore
exits with 3, not 2, and leaves an empty inventory where an earlier one was. No
document promises otherwise. A size is digits times a factor and wraps: what is
left of it may be small enough to be refused, or zero, which is the default of a
scan, or anything less than what was asked for, which is accepted in silence.
`LimitAsAsked` says that it is never more, and exact if an integer holds it.
`UsageHarmless` says what does hold: status 2 leaves the earlier inventory
alone. `Again` is a next command on the same output.

### Chromecarve

The program: `CommandLine` with `Batch` in the place of `Delegate`. `Dispatch` is
`Check`, and for a valid `inspect` or `extract` gives the batch its command and
its input; `BatchStep` is any step of `Batch`; `Return` hands its status to the
command. A kill in a batch is either `BatchAgain` (the same command is given
again, over the same directory) or `GiveUp` (something else comes next).

## Runs

| Run | Question | Bounds, and why they are enough |
|---|---|---|
| `scan_safety` | is a nil return complete and exactly counted, is the cause named, is everything quiet after it, are progress reports honest | 2 workers, 3 entries, all kinds and outcomes, with a callback: three entries put one in each stage while another worker is at work; entries and workers are symmetric |
| `scan_queues` | does `Scan` always return, and implement `CandidateInventory` to its end | 1 worker, 6 entries met in order: the least that fills both channels (2+2), the worker and the walker at once |
| `extract_shared` | concurrent and repeated calls on one directory: results backed, one fresh, no staging file left, retries succeed | 2 processes, 2 calls, three encodings of one image, failing links and removals, kills |
| `extract_faults` | integrity, truthfulness and the write-once store under every fault | 1 process, 2 calls, all bodies, all faults, source rewritten, kills, power failure, a directory with wrong artifacts |
| `extract_identity_limit` | violation: README says decoded images are limited; identity bodies are not | 1 process |
| `extract_largest_limit` | violation: the largest limit makes every encoded image fail (`limit+1` wraps) | 1 process, `Limit = MaxInt` |
| `layout_damage` | are intact files recovered as written under every name, does a single damage ever pass in silence; do streams tile and allocations stay bounded, also when the file changes between any two reads | header and footers of 2 bytes, digests of 3 (as in the real format, longer than a footer), keys of 0 to 2, bodies of 0, 1 and 4, metadata of 0 to 3 bytes, so that each limit (4, 2 and 3) is met and exceeded; every cut, every altered byte, every changed field; about 80 files of three entries of which any may turn into any other once and fail to be read |
| `walk_links` | does `walk` end on any tangle of links, having been everywhere, once per root, below nothing hidden or excluded, and in no roots but those asked for or linked to, whatever cannot be read | a tree of 14 nodes with a link back to the root, one out of the tree and back in, one into a hidden directory, one to a file, a broken one; six lists of roots, absolute and relative, overlapping, the same directory twice, links; each with and without following; every part of a directory unread, cancellation |
| `chromecarve_status` | is a usage error harmless, is every status true of the inventory or of the batch, is a limit ever more than the one asked for, is every bad line explained, does every command end | integers of 256 values with sizes on both sides of every limit and of both wraps, all flags, two commands on one output; every file of up to 3 lines of every kind, one outcome of each class, one kill and repetition: three lines put a good record before, between or after failures |
| `inspect_changing` | are signals true of some version, failures kept, types and reads bounded at every step, and is a file nobody writes judged exactly by the rules; is every signature found, and nothing else, and what `Extract` would see of a body among them | 20 versions on both sides of every limit, one of them with a URL that only shows by another one's key length, two changes, five kinds of paths, every call failing: two changes give three versions to the four reads. Beside it every content of up to 5 of 9 bytes and words, and those of 6 that hold the header of a WebP image, of which 5 are read and 3 are a header: room for a pattern that overlaps itself, for a container with one word around it, and for bodies cut by the window |
| `inspect_scan_limit` | violation: `docs/SPEC.md` says that at most `--max-content-scan` bytes of a file are read; the key is read beyond it | the same versions, at rest, no call failing |
| `stored_images` | does the cursor stay inside, are truthful stacks recovered from intact pickles, does anything else, or anything altered that a checksum covers, ever come out, are types kept and decoders closed | all lengths up to 44 (the longest layout with 4 bytes of headers), all claims, flags and three versions, each with a plain and a gzipped image; for one intact stream, stacks of up to 3 of 3 codings under headers of up to 3 of 7 elements or two headers, damage in each layer |

Deadlock is checked everywhere: a system that is over has one step that changes
nothing (`Terminated`, `Returned`, `Stopped`).

Fairness: `ScanPipeline` states weak fairness of each goroutine, since Go
schedules every runnable goroutine, and never of a single case of a `select`. It
assumes that `inspect` and the writer return; on a hung file system they do not,
and then `Scan` does not either. `WalkRoots` and `Chromecarve` are single
threads and state weak fairness of their own steps, under the same assumption;
nobody is obliged to cancel, to kill or to give another command, and kills are
bounded. The other modules state none: they are straight lines.

## Proofs

`ScanPipelineProofs` proves for every finite set of entries, every non-empty set
of workers, every outcome and order of the walk:

* `TypeCorrect`: the types. Not inductive alone (a worker must hold an entry
  while it inspects), so it is proved with `HoldersHold`.
* `InvariantHolds`: `ScanInvariant`, the inductive invariant: types,
  `HoldersHold`, `ShutdownOrder` (a worker ends uncancelled only after `paths`
  is closed and drained, `results` is closed after the last worker, `Scan`
  returns after it is drained), `NothingLost` (while nobody has cancelled, every
  entry is at one of the six places between the walk and the collector) and
  `CandidatesTracked` (the same for candidates, from `inspect` to the
  inventory). `CompleteOnSuccess` alone is not inductive: it says nothing before
  the return.
* `Completeness`, `CausesNamed`, `Quiet`: what follows at the return.
* `Exact`: the counts, which need three more invariants, each resting on the one
  before. `OnePlace`: an entry is in one place at most (still to be visited,
  offered, in a channel, in one worker's hands, settled), cancelled or not.
  `Recorded`: an entry in transit has the errors `inspect` returned for it and
  no others. `Counting`: every record is of a settled entry, so it is written
  once, and until a write fails the error counters are the numbers of errors of
  settled entries. At a return of nil all entries are settled.
* `Honest`: the candidates, the busy workers and the waiting results together
  never exceed the files scanned, so no report does.
* `IsInventory`: `Scan` implements the initial states and steps of
  `CandidateInventory`, by `OnePlace` (nothing is settled twice) and
  `CompleteOnSuccess`.

These rest on the named assumptions of `ScanPipeline` (the entries are finitely
many and do not include `NoEntry`, there is a worker, the constants are in their
ranges) and on the library's facts about sequences and finite sets. One lemma
per group of variables has one step per action; the lemmas `RangeOfAppend` and
`RangeOfTail` say what sending to and receiving from a channel do.

`SimpleCacheLayoutProofs` proves for files of any size and content, any sizes of
header, footer and digest, any limits, and any number of changes of the file
between reads (up to the bound `MaxChanges`, which may be anything):

* `LayoutInvariant`: the inductive invariant `LayoutInv`: the types, the tiling,
  the bound on allocations, and `StepsInOrder` (which streams there are at each
  step, which steps a name excludes, that a key is read only after its length
  was checked). The properties alone are not inductive: that the tiling survives
  the re-reading of the last footer needs that there are no streams yet, and the
  bound needs the check of the key length made a step earlier.
* `ParserTyped`, `Tiling`, `BoundedAllocation`, `NamesRespected`: what follows.
* `FindsWhatIsThere`: `Undisturbed`. While the file has not changed, each step's
  conclusions are true of the file: the header and the key are the file's,
  `last` is its footer, the inner footer is where stream 1 ends, and each stream
  has the checksum of its footer and has been compared with it, or there is a
  warning. It is stated by step, because a parse that has failed has concluded
  nothing.
* `DamageIsNoticed`. At the end `Undisturbed` makes of a parse without warnings
  a file that is *clean* (`CleanCombined`, `CleanStream2`: magic, hash, footers
  and checksums fit, at the offsets the file itself claims). What is left has no
  steps in it: `CleanUnharmed` says that a clean file one damage away from a
  written one has the size, the bytes and the lengths that were written. It goes
  by the damage: a cut moves the last footer off the end; an altered byte is in
  a footer, a digest or a region with a checksum; a footer with another length,
  or with a key digest it did not have, puts the inner footer where there is
  none; another key length changes what the key hash is compared with.
* `Recovers`: `Recovering`, for an intact file under a name that fits: no step
  fails, each layout is taken only by files written that way, a key digest is
  only read where one was written, and then it is right. `IntactIsRecovered`
  follows with `Undisturbed`. The layouts are the hard part: a stream-2 file
  whose name does not tell is tried as a combined one first, and
  `RecoveringReadCombined` shows that the place of the inner footer is then
  inside the body, where there is none unless the body looks like one.

All of them rest on `SizesAssumption` (header, footer and digest are not empty),
`LimitsAssumption` and `FilesAssumption` (files have the fields of a file), and
those up to `FindsWhatIsThere` on no more: they hold of files nobody ever wrote.
`DamageIsNoticed`, `Recovers` and `IntactIsRecovered` also use
`DamageAssumption`, that a file is as it was written or one damage away from
that, with `Lengths` as what a damaged length may claim, and `Recovers` uses
`WidthsAssumption`, that the lengths the parser allows stay below 2^63. There is
one lemma per step and invariant.

`WalkRootsProofs`, for any tree, links, roots, spellings and faults (assuming
that links are resolved to the end and that `Inside` is what being below means):
`TypeCorrect`, `NoRepeats`, `RootsRespected`, and `Everywhere` from
`WalkInvariant`. The invariant says of every node met how far its handling has
come (its entries wait in `todo` or were met, its link waits in `pending` or was
walked, its file was sent); `WentEverywhere` alone says nothing before the
return. For `RootsRespected` it says of every node met, and of every one about
to be, that the way down to it is open (`OpenSoFar`), and of every root that
waits or was walked how it came to be one (`PendingCaused`, `RootsCaused`); the
latter is stated over sets of roots, any of which has one that was asked for or
was led to from outside of the set, so that no roots can be there only because
of each other.

`ExtractProofs`, for any number of processes and calls, any bodies, any directory
to begin with (its files on the disk) and any fault, kill and loss of power:
`ExtractInvariant` says of every call how far its locals have come, what its
staging files hold and whether they were synced, and which artifacts it has
installed or found, and of every artifact that it is on the disk. No property
is inductive without it: that an artifact holds what its name says needs that the
staging file linked to it held it, and still did after every step of the other
processes. The lemma `StepEffect` says that a step changes no file but the staging
files of its own process, which `OthersKept` turns into what the others may rely
on. From it follow `Integrity`, `Truthful` (the arithmetic of the limit is in
`WholeImage`), `Backed`, `Fresh` (two calls cannot both have linked an image),
`NothingLeft`, `CleanSucceeds` and `IsStore`, the refinement of `ArtifactStore`.
`CleanSucceeds` assumes `Limit < MaxInt`, without which it is false: that is the
run `extract_largest_limit`.

`ChromecarveProofs` has first, for any width of integers, limits, flags and
number of commands, what holds of `CommandLine`: `CommandInvariant` says whose
records the output holds at every step; `CommandTyped`, `Harmless`,
`StatusTells` and `LimitNeverAbove` follow; the last from `SizeRead`, by which a
size is the product wrapped (`WrapNeverAbove`).

Then, for files of any length and any number of restarts, what holds of `Batch`:
`BatchInvariant` relates the line to be read, the flag and the sets of lines
tried, good and complained about, after every line; `TruthfulStatus`,
`OrderOfFile` and `Explained` follow.

Last, for the program as a whole, `ProgramCommands` is the
refinement of `CommandLine` (a batch stutters until it returns, and then is one
`Delegate`), which carries over what was proved there (`ProgramHarmless`,
`ProgramStatus`); `ProgramInvariant` says that outside a batch the variables of
`Batch` are as a new one needs them, so that its inductive invariant holds in
every batch of every command (`ProgramTruthful`, `ProgramOrdered`,
`ProgramExplained`).

`StoredImageProofs`, for pickles of any length and any claims, headers and stacks
of codings of any length:

* Of the pickle, `CursorInvariant` says where the cursor stands before each
  field; `ReadsInside` and `HeadersFound` follow.
* Of the entry, `EntryInvariant` joins that to `DecodingInv` (in
  `ContentCoding`) and to `PickleFirst`, that nothing is decoded before the
  pickle has been read. `DecodingInv` says that the codings accepted so far are
  those that the elements looked at so far declare (`ParsedSoFar`), and that the
  reader built so far yields the body without the codings undone so far, unless
  brotli has made garbage of it (`ChainedSoFar`, `OutcomeSoFar`). The latter
  also say what damage can have passed without an error (`DamageMet`,
  `AlteredOnlyUnderBrotli`). From it `ImageInvariant` (types, and no decoder
  open at the end), `ImageComesOut` and `NothingElseComesOut`; `ReadsPickle` is
  the refinement of `ResponsePickle`, and carries over what was proved of it.
* What a list of codings declares is a recursive function, `DeclaredBy`. That
  there is such a function, and that it does at each element what its definition
  says, is proved by induction over the number of elements: `SetInduction` is
  induction for a *set* of numbers, from `NatLessThanWellFounded` and `WFMin`,
  which have no operator for a parameter. `DeclaredStays` then says that what an
  element declares is not lost again, which is how an element nobody can undo
  makes the whole header untruthful (`UnsupportedUntruthful`).

`SignatureScanProofs`, for any files, windows, patterns, brands and claims:
`ScanInvariant` says that the matches so far are the signatures of the places
searched so far; `FindsEverySignature` follows, and `FindAgreesWithDetect`,
because what `DetectSignature` goes by stands at the beginning of the body, and
at the same cells of the part that was read if it is in sight.

`InspectProofs`, for any versions of the file, paths, limits, faults and any
number of changes: `InspectInvariant`, where `EvidenceSoFar`, `FailuresSoFar`
and `QuietSoFar` say of every step what the properties say of the result. That
signals were there (`SignalsWereThere`) needs that each signal is true of a
version the file had when it was read, not of the present one, and of the key
length that some version claimed it when it was read (`KeyBounded`), and that
neither is forgotten by a later change (`EvidenceStays`); that a file at rest is
judged exactly (`RestingFileJudgedExactly`) needs that a read is as long as the
file allows (`ReadLengthBounds`) and that whatever begins like a cache entry is
a candidate (`Scores`).

Only model-checked: liveness (`ScanReturns`, `WalkReturns`, `CommandEnds`: TLAPS
has no fairness), and of the refinement of `CandidateInventory` that an open
scan ends. What is proved and is in no run's list (types, `SuffixRespected`,
`InFileOrder`, `IntactFound`, `Undisturbed`, `Recovering`) holds for every value
of the constants and needs no instance.

## Not modelled

* The decoders, SHA-256, CRC-32 and the key hash themselves: values are named by
  what they were computed from.
* Text: how `discovery`, `reddit`, `extractURL` and `parseRawHeaders` match it.
  The models have what the matching says (a signal, a URL, a status line's
  worth).
* Real time: the progress interval (a report is a choice), hung system calls,
  and signals that `inspect` and `extract` never look at.
* The file system's own rules: mounts, changes of the tree during a walk, roots
  spelled through a link, exclusion patterns as patterns.
* `internal/fsutil` (three fields of a stat result), diagnostics, the layout of
  the `inspect` report, the search for a running Chrome, build and release
  files.
