---------------------------- MODULE ScanPipeline ----------------------------
(***************************************************************************)
(* The concurrent part of scanner.Scan: one walker goroutine, a pool of     *)
(* inspection workers, the goroutine that closes the results channel, and   *)
(* the collector, which is Scan's own goroutine and the only writer of the  *)
(* inventory.  Two bounded channels connect them and one context stops them.*)
(*                                                                          *)
(* An entry is one call of the WalkDir callback.  What the callback and     *)
(* inspect find out about it depends on the file system, so it is chosen    *)
(* when the step runs: the outcome is any member of the constants below, and *)
(* the order of the walk any order that WalkedBefore allows.                *)
(***************************************************************************)
EXTENDS Integers, FiniteSets, Sequences, Functions

CONSTANTS Entries,          \* what the walk meets
          WalkedBefore,     \* pairs of entries the walk meets in this order
          Workers,          \* the inspection goroutines, cfg.Workers of them
          NoEntry,          \* "holds no entry"
          WalkKinds,        \* what the callback may make of an entry
          Outcomes,         \* what inspect may return
          WriteFaults,      \* how manifest.Writer.Write may fail
          ParentMayCancel,  \* the caller's context may be cancelled
          Progress          \* cfg.Progress # nil

\* inspect returns a candidate or none, with or without an error.
AnyOutcome == [candidate : BOOLEAN, err : {"none", "denied", "other"}]

ASSUME EntriesAssumption == IsFiniteSet(Entries) /\ NoEntry \notin Entries
ASSUME OrderAssumption == WalkedBefore \subseteq Entries \X Entries
ASSUME WorkersAssumption == IsFiniteSet(Workers) /\ Workers # {}
ASSUME KindsAssumption == /\ WalkKinds \subseteq {"file", "denied", "other", "skipped", "abs"}
                          /\ Outcomes \subseteq AnyOutcome
                          /\ WriteFaults \subseteq {"marshal", "io"}
ASSUME FlagsAssumption == ParentMayCancel \in BOOLEAN /\ Progress \in BOOLEAN

\* make(chan ..., cfg.Workers*2), for both channels.
QueueCap == 2 * Cardinality(Workers)

VARIABLES
    unvisited,      \* entries the walk has not met yet
    walker,         \* program counter of the walk goroutine
    offer,          \* the path in the walker's select
    walkErr,        \* what walk returns
    paths,          \* the paths channel
    wpc,            \* program counter of each worker
    held,           \* the path each worker has received
    wres,           \* what inspect returned to each worker
    results,        \* the results channel
    resultsClosed,  \* close(results) has run
    parentDone,     \* parent.Err() # nil
    fatal,          \* the collector's fatal # nil, and so cancel() has run
    encoder,        \* "torn" once the JSON encoder keeps a sticky I/O error
    inventory,      \* complete records in the output
    stats,          \* the counters of Stats
    snapshot,       \* the counters of the last progress report
    ret,            \* how Scan returned
    settled,        \* history: entries accounted for
    found,          \* history: entries inspect returned a candidate for
    faulty          \* history: <<entry, class>> of every error met

walkVars == <<unvisited, walker, offer, walkErr>>
workerVars == <<wpc, held, wres>>
collectorVars == <<fatal, encoder, inventory, snapshot, ret>>
history == <<settled, found, faulty>>
vars == <<walkVars, paths, workerVars, results, resultsClosed, parentDone,
          collectorVars, stats, history>>

ErrorClasses == {"denied", "other"}
NoResult == [candidate |-> FALSE, err |-> "none"]
NoStats == [scanned |-> 0, candidates |-> 0, permissionErrors |-> 0, errors |-> 0]

Init == /\ unvisited = Entries
        /\ walker = "walking"
        /\ offer = NoEntry
        /\ walkErr = "nil"
        /\ paths = <<>>
        /\ wpc = [w \in Workers |-> "idle"]
        /\ held = [w \in Workers |-> NoEntry]
        /\ wres = [w \in Workers |-> NoResult]
        /\ results = <<>>
        /\ resultsClosed = FALSE
        /\ parentDone = FALSE
        /\ fatal = FALSE
        /\ encoder = "ok"
        /\ inventory = <<>>
        /\ stats = NoStats
        /\ snapshot = NoStats
        /\ ret = "running"
        /\ settled = {}
        /\ found = {}
        /\ faulty = {}

-----------------------------------------------------------------------------
(* Shared helpers.                                                          *)

\* ctx.Err() # nil: ctx is derived from parent and cancelled with fatal.
CtxDone == parentDone \/ fatal

\* close(paths) is deferred, so it runs after walk's result was sent.
PathsClosed == walker = "done"

\* Variant: every error is counted as a plain one.
CountedAlike(s, err) == IF err = "none" THEN s ELSE [s EXCEPT !.errors = @ + 1]

\* errors.Is(err, fs.ErrPermission) decides which counter an error adds to.
Counted(s, err) ==
    CASE err = "denied" -> [s EXCEPT !.permissionErrors = @ + 1]
      [] err = "other"  -> [s EXCEPT !.errors = @ + 1]
      [] OTHER          -> s

\* The same error, in the history the counters are compared with.
Blamed(e, err) == IF err \in ErrorClasses THEN {<<e, err>>} ELSE {}

\* reportProgress: nothing without a callback; otherwise the interval may or
\* may not have passed since the last report.
ReportProgress ==
    IF Progress THEN snapshot' \in {snapshot, stats'} ELSE UNCHANGED snapshot

\* Variant: the error of walk is looked at before the one of the writer.
ScanErrorWalkFirst(cancelled) ==
    IF walkErr # "nil" THEN walkErr
    ELSE IF fatal THEN "write"
    ELSE IF cancelled THEN "context" ELSE "ok"

\* Variant: the error of walk is only logged.
ScanErrorNoWalk(cancelled) ==
    IF fatal THEN "write" ELSE IF cancelled THEN "context" ELSE "ok"

\* The value Scan returns, from the checks that follow <-walkDone.
ScanError(cancelled) ==
    IF fatal THEN "write"
    ELSE IF walkErr # "nil" THEN walkErr
    ELSE IF cancelled THEN "context" ELSE "ok"

\* Variant: the first worker to end closes the channel.
ResultsMayCloseEarly == \E w \in Workers : wpc[w] = "done"

\* workers.Wait() returned.
ResultsMayClose == \A w \in Workers : wpc[w] = "done"

-----------------------------------------------------------------------------
(* The walker: walk(ctx, ...) in its own goroutine.  The callback looks at  *)
(* ctx first; the walker re-checks it only in the select on paths.          *)

\* WalkDir goes through a directory in lexical order.
WalkReaches(e) == /\ e \in unvisited
                  /\ \A f \in unvisited : <<f, e>> \notin WalkedBefore

\* A regular file, or a followed link to one, reaches the select.
WalkOffer(e) ==
    /\ walker = "walking" /\ ~CtxDone
    /\ "file" \in WalkKinds
    /\ WalkReaches(e)
    /\ unvisited' = unvisited \ {e}
    /\ offer' = e
    /\ walker' = "sending"
    /\ UNCHANGED <<walkErr, paths, workerVars, results, resultsClosed, parentDone,
                   collectorVars, stats, history>>

\* The callback is handed an error: counted, logged, and the walk goes on.
WalkFault(e, err) ==
    /\ walker = "walking" /\ ~CtxDone
    /\ err \in WalkKinds \cap ErrorClasses
    /\ WalkReaches(e)
    /\ unvisited' = unvisited \ {e}
    /\ stats' = Counted(stats, err)
    /\ settled' = settled \cup {e}
    /\ faulty' = faulty \cup Blamed(e, err)
    /\ UNCHANGED <<walker, offer, walkErr, paths, workerVars, results, resultsClosed,
                   parentDone, collectorVars, found>>

\* Directories, hidden and excluded entries, special files, broken links.
WalkSkip(e) ==
    /\ walker = "walking" /\ ~CtxDone
    /\ "skipped" \in WalkKinds
    /\ WalkReaches(e)
    /\ unvisited' = unvisited \ {e}
    /\ settled' = settled \cup {e}
    /\ UNCHANGED <<walker, offer, walkErr, paths, workerVars, results, resultsClosed,
                   parentDone, collectorVars, stats, found, faulty>>

\* select: case paths <- path, ready only while the buffer has room.
WalkSend ==
    /\ walker = "sending"
    /\ Len(paths) < QueueCap
    /\ paths' = Append(paths, offer)
    /\ offer' = NoEntry
    /\ walker' = "walking"
    /\ UNCHANGED <<unvisited, walkErr, workerVars, results, resultsClosed, parentDone,
                   collectorVars, stats, history>>

\* select: case <-ctx.Done().  When both cases are ready, either is taken.
WalkAbandon ==
    /\ walker = "sending" /\ CtxDone
    /\ offer' = NoEntry
    /\ walkErr' = "context"
    /\ walker' = "closing"
    /\ UNCHANGED <<unvisited, paths, workerVars, results, resultsClosed, parentDone,
                   collectorVars, stats, history>>

\* The check that opens the callback, or the one that opens each root.
WalkInterrupted ==
    /\ walker = "walking" /\ CtxDone
    /\ walkErr' = "context"
    /\ walker' = "closing"
    /\ UNCHANGED <<unvisited, offer, paths, workerVars, results, resultsClosed, parentDone,
                   collectorVars, stats, history>>

\* filepath.Abs fails on a root: walk gives up, without cancelling anybody.
WalkUnresolved ==
    /\ walker = "walking" /\ ~CtxDone
    /\ "abs" \in WalkKinds
    /\ unvisited # {}
    /\ walkErr' = "unresolved"
    /\ walker' = "closing"
    /\ UNCHANGED <<unvisited, offer, paths, workerVars, results, resultsClosed, parentDone,
                   collectorVars, stats, history>>

\* No root is pending: walkDone <- nil.
WalkFinish ==
    /\ walker = "walking" /\ unvisited = {}
    /\ walker' = "closing"
    /\ UNCHANGED <<unvisited, offer, walkErr, paths, workerVars, results, resultsClosed,
                   parentDone, collectorVars, stats, history>>

\* Variant: close(paths) is not deferred and an early return misses it.
ClosePathsUnlessFailed ==
    /\ walker = "closing" /\ walkErr = "nil"
    /\ walker' = "done"
    /\ UNCHANGED <<unvisited, offer, walkErr, paths, workerVars, results, resultsClosed,
                   parentDone, collectorVars, stats, history>>

\* The deferred close(paths), after walkDone was sent.
ClosePaths ==
    /\ walker = "closing"
    /\ walker' = "done"
    /\ UNCHANGED <<unvisited, offer, walkErr, paths, workerVars, results, resultsClosed,
                   parentDone, collectorVars, stats, history>>

Walk == \/ \E e \in Entries : \/ WalkOffer(e)
                              \/ WalkSkip(e)
                              \/ \E err \in ErrorClasses : WalkFault(e, err)
        \/ WalkSend \/ WalkAbandon \/ WalkInterrupted
        \/ WalkUnresolved \/ WalkFinish \/ ClosePaths

-----------------------------------------------------------------------------
(* A worker: for path := range paths { ... }.                               *)

\* Variant: only a later step counts the file as scanned.
WorkerStartUncounted(w) ==
    /\ wpc[w] = "idle" /\ paths # <<>> /\ ~CtxDone
    /\ held' = [held EXCEPT ![w] = Head(paths)]
    /\ paths' = Tail(paths)
    /\ wpc' = [wpc EXCEPT ![w] = "inspecting"]
    /\ UNCHANGED <<walkVars, wres, results, resultsClosed, parentDone, collectorVars, stats,
                   history>>

\* Receives a path, sees no cancellation, counts the file as scanned.
WorkerStart(w) ==
    /\ wpc[w] = "idle" /\ paths # <<>> /\ ~CtxDone
    /\ held' = [held EXCEPT ![w] = Head(paths)]
    /\ paths' = Tail(paths)
    /\ wpc' = [wpc EXCEPT ![w] = "inspecting"]
    /\ stats' = [stats EXCEPT !.scanned = @ + 1]
    /\ UNCHANGED <<walkVars, wres, results, resultsClosed, parentDone, collectorVars, history>>

\* Receives a path after cancellation: the path is dropped, the worker ends.
WorkerQuit(w) ==
    /\ wpc[w] = "idle" /\ paths # <<>> /\ CtxDone
    /\ paths' = Tail(paths)
    /\ wpc' = [wpc EXCEPT ![w] = "done"]
    /\ UNCHANGED <<walkVars, held, wres, results, resultsClosed, parentDone, collectorVars,
                   stats, history>>

\* inspect(path, cfg) returns; cancellation does not interrupt it.
WorkerInspect(w) ==
    /\ wpc[w] = "inspecting"
    /\ \E o \in Outcomes :
          /\ wres' = [wres EXCEPT ![w] = o]
          /\ found' = IF o.candidate THEN found \cup {held[w]} ELSE found
          /\ faulty' = faulty \cup Blamed(held[w], o.err)
    /\ wpc' = [wpc EXCEPT ![w] = "sending"]
    /\ UNCHANGED <<walkVars, paths, held, results, resultsClosed, parentDone, collectorVars,
                   stats, settled>>

\* select: case results <- ..., ready only while the buffer has room.
WorkerSend(w) ==
    /\ wpc[w] = "sending"
    /\ Len(results) < QueueCap
    /\ results' = Append(results, [file |-> held[w], candidate |-> wres[w].candidate,
                                   err |-> wres[w].err])
    /\ held' = [held EXCEPT ![w] = NoEntry]
    /\ wpc' = [wpc EXCEPT ![w] = "idle"]
    /\ UNCHANGED <<walkVars, paths, wres, resultsClosed, parentDone, collectorVars, stats,
                   history>>

\* Variant: a worker gives up on a full channel instead of waiting.
WorkerAbandonWhenFull(w) ==
    /\ wpc[w] = "sending" /\ (CtxDone \/ Len(results) = Cardinality(Workers))
    /\ held' = [held EXCEPT ![w] = NoEntry]
    /\ wpc' = [wpc EXCEPT ![w] = "done"]
    /\ UNCHANGED <<walkVars, paths, wres, resultsClosed, parentDone, collectorVars, results,
                   stats, history>>

\* select: case <-ctx.Done(): the result of a finished inspection is dropped.
WorkerAbandon(w) ==
    /\ wpc[w] = "sending" /\ CtxDone
    /\ held' = [held EXCEPT ![w] = NoEntry]
    /\ wpc' = [wpc EXCEPT ![w] = "done"]
    /\ UNCHANGED <<walkVars, paths, wres, results, resultsClosed, parentDone, collectorVars,
                   stats, history>>

\* The range ends: paths is closed and drained.
WorkerExit(w) ==
    /\ wpc[w] = "idle" /\ paths = <<>> /\ PathsClosed
    /\ wpc' = [wpc EXCEPT ![w] = "done"]
    /\ UNCHANGED <<walkVars, paths, held, wres, results, resultsClosed, parentDone,
                   collectorVars, stats, history>>

Worker(w) == \/ WorkerStart(w) \/ WorkerQuit(w) \/ WorkerInspect(w)
             \/ WorkerSend(w) \/ WorkerAbandon(w) \/ WorkerExit(w)

-----------------------------------------------------------------------------
(* The closer and the collector.                                            *)

\* go func() { workers.Wait(); close(results) }()
CloseResults ==
    /\ ~resultsClosed /\ ResultsMayClose
    /\ resultsClosed' = TRUE
    /\ UNCHANGED <<walkVars, paths, workerVars, results, parentDone, collectorVars, stats, history>>

\* A result without a candidate: its error, if any, is counted.
CollectNothing ==
    /\ ret = "running" /\ results # <<>>
    /\ ~Head(results).candidate
    /\ results' = Tail(results)
    /\ stats' = Counted(stats, Head(results).err)
    /\ settled' = settled \cup {Head(results).file}
    /\ ReportProgress
    /\ UNCHANGED <<walkVars, paths, workerVars, resultsClosed, parentDone, fatal, encoder,
                   inventory, ret, found, faulty>>

\* A candidate whose record is written.
CollectWrite ==
    /\ ret = "running" /\ results # <<>>
    /\ Head(results).candidate /\ encoder = "ok"
    /\ results' = Tail(results)
    /\ inventory' = Append(inventory, Head(results).file)
    /\ stats' = [Counted(stats, Head(results).err) EXCEPT !.candidates = @ + 1]
    /\ settled' = settled \cup {Head(results).file}
    /\ ReportProgress
    /\ UNCHANGED <<walkVars, paths, workerVars, resultsClosed, parentDone, fatal, encoder,
                   ret, found, faulty>>

\* A candidate whose record cannot be written: the error is fatal and cancels
\* the others, and the loop goes on to drain results.  The encoder keeps an
\* I/O error for good; a value it cannot marshal leaves it usable.
CollectFault ==
    /\ ret = "running" /\ results # <<>>
    /\ Head(results).candidate
    /\ \/ encoder = "ok" /\ "marshal" \in WriteFaults /\ UNCHANGED encoder
       \/ (encoder = "torn" \/ "io" \in WriteFaults) /\ encoder' = "torn"
    /\ results' = Tail(results)
    /\ stats' = Counted(stats, Head(results).err)
    /\ fatal' = TRUE
    /\ UNCHANGED <<walkVars, paths, workerVars, resultsClosed, parentDone, inventory,
                   snapshot, ret, history>>

\* Variant: a failed write returns at once instead of draining results.
ReturnOnFatal ==
    /\ ret = "running"
    /\ fatal \/ (resultsClosed /\ results = <<>> /\ walker \in {"closing", "done"})
    /\ ret' = ScanError(parentDone)
    /\ UNCHANGED <<walkVars, paths, workerVars, results, resultsClosed, parentDone, fatal,
                   encoder, inventory, snapshot, stats, history>>

\* The range over results ends and <-walkDone has a value to give.
Return ==
    /\ ret = "running"
    /\ resultsClosed /\ results = <<>>
    /\ walker \in {"closing", "done"}
    /\ ret' = ScanError(parentDone)
    /\ UNCHANGED <<walkVars, paths, workerVars, results, resultsClosed, parentDone, fatal,
                   encoder, inventory, snapshot, stats, history>>

Collect == CollectNothing \/ CollectWrite \/ CollectFault \/ Return

\* Ctrl-C, through signal.NotifyContext in main.
ParentCancel ==
    /\ ParentMayCancel /\ ~parentDone /\ ret = "running"
    /\ parentDone' = TRUE
    /\ UNCHANGED <<walkVars, paths, workerVars, results, resultsClosed, collectorVars, stats,
                   history>>

\* Scan has returned and the walk goroutine is gone.
Terminated == ret # "running" /\ walker = "done" /\ UNCHANGED vars

Next == \/ Walk
        \/ \E w \in Workers : Worker(w)
        \/ CloseResults
        \/ Collect
        \/ ParentCancel
        \/ Terminated

\* Go schedules every runnable goroutine, and inspect is assumed to return.
\* Nobody is obliged to cancel, and a select with two ready cases may choose
\* either: fairness is per goroutine, never per case.
Fairness == /\ WF_vars(Walk)
            /\ \A w \in Workers : WF_vars(Worker(w))
            /\ WF_vars(CloseResults)
            /\ WF_vars(Collect)

Spec == Init /\ [][Next]_vars /\ Fairness

-----------------------------------------------------------------------------
(* Properties.                                                              *)

StatsType == [scanned : Nat, candidates : Nat, permissionErrors : Nat, errors : Nat]

\* Every variable has its type: the channels carry entries and results, the
\* program counters of walk and of the workers stay in their states.
TypeOK ==
    /\ unvisited \subseteq Entries
    /\ walker \in {"walking", "sending", "closing", "done"}
    /\ offer \in Entries \cup {NoEntry}
    /\ walkErr \in {"nil", "context", "unresolved"}
    /\ paths \in Seq(Entries)
    /\ wpc \in [Workers -> {"idle", "inspecting", "sending", "done"}]
    /\ held \in [Workers -> Entries \cup {NoEntry}]
    /\ wres \in [Workers -> AnyOutcome]
    /\ results \in Seq([file : Entries, candidate : BOOLEAN,
                        err : {"none", "denied", "other"}])
    /\ resultsClosed \in BOOLEAN
    /\ parentDone \in BOOLEAN
    /\ fatal \in BOOLEAN
    /\ encoder \in {"ok", "torn"}
    /\ inventory \in Seq(Entries)
    /\ stats \in StatsType
    /\ snapshot \in StatsType
    /\ ret \in {"running", "ok", "write", "context", "unresolved"}
    /\ settled \subseteq Entries
    /\ found \subseteq Entries
    /\ faulty \subseteq (Entries \X ErrorClasses)

\* When Scan returns nil nothing was lost on the way through the two channels:
\* every entry of the walk is accounted for, and every candidate that inspect
\* returned is a record of the inventory.
CompleteOnSuccess ==
    ret = "ok" => settled = Entries /\ found \subseteq Range(inventory)

\* The inventory holds each candidate once, holds nothing inspect did not call
\* a candidate, and is as long as the count Scan reports, however it ended.
InventoryCounted ==
    /\ Len(inventory) = stats.candidates
    /\ Cardinality(Range(inventory)) = Len(inventory)
    /\ Range(inventory) \subseteq found

\* On success the two error counters tell exactly the errors met, by the walker
\* and by the workers together.
FaultsCounted ==
    ret = "ok" =>
        /\ stats.permissionErrors = Cardinality({f \in faulty : f[2] = "denied"})
        /\ stats.errors = Cardinality({f \in faulty : f[2] = "other"})

\* The Stats that Scan returns, from which runScan chooses between success and
\* ExitPartial and prints its summary, are what the inventory and the errors
\* come to, whichever goroutine counted what, and when.
CountsExact == InventoryCounted /\ FaultsCounted

\* Scan blames what really happened: cancelling the walk because a write
\* failed is reported as the write failure and never as a cancellation, and a
\* cancellation is reported only when the caller asked for one.
FailureNamesItsCause ==
    /\ (ret # "running" /\ fatal) => ret = "write"
    /\ ret = "write" => fatal
    /\ ret = "context" => parentDone

\* When Scan returns no worker is left, so nobody inspects a file or blocks on
\* a channel any more: whatever is still in the paths channel stays there.
QuietAfterReturn ==
    ret # "running" =>
        /\ \A w \in Workers : wpc[w] = "done" /\ held[w] = NoEntry
        /\ results = <<>> /\ resultsClosed
        /\ offer = NoEntry

\* A progress report never claims more candidates than files scanned, nor
\* anything the final counters do not have.
ProgressHonest ==
    /\ snapshot.candidates <= snapshot.scanned
    /\ \A c \in DOMAIN snapshot : snapshot[c] <= stats[c]

\* Scan returns, whatever fails and whenever it is cancelled: no goroutine is
\* left waiting on a channel nobody serves.
ScanReturns == <>(ret # "running" /\ walker = "done")

\* Scan, seen through its entries and its inventory, is a CandidateInventory.
ScanStatus == CASE ret = "running" -> "open"
                [] ret = "ok"      -> "complete"
                [] OTHER           -> "stopped"

Inventory == INSTANCE CandidateInventory WITH status <- ScanStatus

ImplementsInventory == Inventory!Spec

-----------------------------------------------------------------------------
(* The inductive invariant behind the safety properties.                    *)

\* The files named by the results that wait in the channel.
Queued == {r.file : r \in Range(results)}

\* Where an entry can be while nobody has cancelled: the six sets cover all of
\* Entries, so an entry moves from one to the next and never falls between.
NothingLost ==
    ~CtxDone => \A e \in Entries :
        \/ e \in unvisited \/ e = offer
        \/ e \in Range(paths)
        \/ \E w \in Workers : held[w] = e
        \/ e \in Queued
        \/ e \in settled

\* Where a candidate can be between inspect and the inventory.
CandidatesTracked ==
    ~CtxDone => \A e \in found :
        \/ \E w \in Workers : held[w] = e /\ wpc[w] = "sending" /\ wres[w].candidate
        \/ \E r \in Range(results) : r.file = e /\ r.candidate
        \/ e \in Range(inventory)

\* A goroutine holds an entry exactly while it is to pass it on.
HoldersHold ==
    /\ walker = "sending" <=> offer # NoEntry
    /\ \A w \in Workers : wpc[w] \in {"inspecting", "sending"} <=> held[w] # NoEntry

\* The pipeline shuts down from the walker to the collector: without
\* cancellation a worker ends after paths is closed and drained, results is
\* closed after the last worker, and Scan returns after results is drained.
ShutdownOrder ==
    /\ walker \in {"walking", "sending"} => walkErr = "nil"
    /\ walkErr = "context" => CtxDone
    /\ (walker \in {"closing", "done"} /\ walkErr = "nil") => unvisited = {}
    /\ \A w \in Workers : wpc[w] = "done" /\ ~CtxDone => PathsClosed /\ paths = <<>>
    /\ resultsClosed => ResultsMayClose
    /\ ret # "running" => resultsClosed /\ results = <<>> /\ walker \in {"closing", "done"}

\* All of it together, with the properties it implies at the return.
ScanInvariant == /\ TypeOK /\ HoldersHold /\ ShutdownOrder
                 /\ NothingLost /\ CandidatesTracked
                 /\ CompleteOnSuccess /\ FailureNamesItsCause
=============================================================================
