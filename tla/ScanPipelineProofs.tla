------------------------- MODULE ScanPipelineProofs -------------------------
(***************************************************************************)
(* Proofs about ScanPipeline, for any set of entries, any number of workers *)
(* and any outcome of the file system: the types, that a scan which returns *)
(* nil lost nothing, that what it counts and reports is right, and that its *)
(* steps are those of a CandidateInventory.                                 *)
(***************************************************************************)
EXTENDS ScanPipeline, SequenceTheorems, FiniteSetTheorems, TLAPS

-----------------------------------------------------------------------------
(* Lemmas about the operators.                                              *)

\* Sending to a channel adds exactly the value sent.
LEMMA RangeOfAppend ==
    ASSUME NEW S, NEW s \in Seq(S), NEW x \in S
    PROVE  /\ Append(s, x) \in Seq(S)
           /\ Range(Append(s, x)) = Range(s) \cup {x}
<1>1. Append(s, x) \in Seq(S) /\ Len(Append(s, x)) = Len(s) + 1
    OBVIOUS
<1>2. /\ \A i \in 1 .. Len(s) : Append(s, x)[i] = s[i]
      /\ Append(s, x)[Len(s) + 1] = x
    OBVIOUS
<1>3. /\ Range(s) = {s[i] : i \in 1 .. Len(s)}
      /\ Range(Append(s, x)) = {Append(s, x)[i] : i \in 1 .. Len(Append(s, x))}
    BY <1>1, RangeEquality
<1>4. Len(s) \in Nat
    BY LenProperties
<1>5. 1 .. Len(s) + 1 = (1 .. Len(s)) \cup {Len(s) + 1}
    BY <1>4
<1>6. QED
    BY <1>1, <1>2, <1>3, <1>5

\* Receiving from a channel takes its first value and keeps the others.
LEMMA RangeOfTail ==
    ASSUME NEW S, NEW s \in Seq(S), s # <<>>
    PROVE  /\ Head(s) \in S /\ Tail(s) \in Seq(S)
           /\ Head(s) \in Range(s)
           /\ Range(s) = {Head(s)} \cup Range(Tail(s))
<1>1. Head(s) \in S /\ Tail(s) \in Seq(S) /\ Len(Tail(s)) = Len(s) - 1
    BY HeadTailProperties
<1>2. \A i \in 1 .. Len(Tail(s)) : Tail(s)[i] = s[i + 1]
    BY HeadTailProperties
<1>3. /\ Range(s) = {s[i] : i \in 1 .. Len(s)}
      /\ Range(Tail(s)) = {Tail(s)[i] : i \in 1 .. Len(Tail(s))}
    BY <1>1, RangeEquality
<1>4. Len(s) \in Nat \ {0} /\ Head(s) = s[1]
    BY EmptySeq, LenProperties
<1>5. \A i \in 1 .. Len(s) : i = 1 \/ (i - 1 \in 1 .. Len(Tail(s)) /\ s[i] = Tail(s)[i - 1])
    BY <1>1, <1>2, <1>4
<1>6. \A i \in 1 .. Len(Tail(s)) : i + 1 \in 1 .. Len(s) /\ Tail(s)[i] = s[i + 1]
    BY <1>1, <1>2, <1>4
<1>7. ASSUME NEW x \in Range(s)
      PROVE  x \in {Head(s)} \cup Range(Tail(s))
    <2>1. PICK i \in 1 .. Len(s) : x = s[i]
        BY <1>3
    <2>2. CASE i = 1
        BY <2>1, <2>2, <1>4
    <2>3. CASE i # 1
        <3>1. i - 1 \in 1 .. Len(Tail(s)) /\ x = Tail(s)[i - 1]
            BY <2>1, <2>3, <1>5
        <3>2. QED
            BY <3>1, <1>3
    <2>4. QED
        BY <2>2, <2>3
<1>8. ASSUME NEW x \in Range(Tail(s))
      PROVE  x \in Range(s)
    <2>1. PICK i \in 1 .. Len(Tail(s)) : x = Tail(s)[i]
        BY <1>3
    <2>2. i + 1 \in 1 .. Len(s) /\ x = s[i + 1]
        BY <2>1, <1>6
    <2>3. QED
        BY <2>2, <1>3
<1>9. Head(s) \in Range(s)
    <2>1. 1 \in 1 .. Len(s)
        BY <1>4
    <2>2. QED
        BY <2>1, <1>3, <1>4
<1>10. QED
    BY <1>1, <1>7, <1>8, <1>9

\* Adding one to the counter of scanned files leaves the counters counters,
\* and so does adding one to the counter of candidates.
LEMMA AddedType ==
    ASSUME NEW s \in StatsType
    PROVE  /\ [s EXCEPT !.scanned = @ + 1] \in StatsType
           /\ [s EXCEPT !.candidates = @ + 1] \in StatsType
    BY DEF StatsType

\* An empty channel names nothing.
LEMMA RangeOfEmpty == Range(<<>>) = {}
    BY DEF Range

\* Counting an error leaves the counters counters.
LEMMA CountedType ==
    ASSUME NEW s \in StatsType, NEW err \in {"none", "denied", "other"}
    PROVE  Counted(s, err) \in StatsType
    BY DEF Counted, StatsType

-----------------------------------------------------------------------------
(* Types.                                                                   *)

ResultType == [file : Entries, candidate : BOOLEAN, err : {"none", "denied", "other"}]

TypedInv == TypeOK /\ HoldersHold

\* The initial state is typed, and no goroutine holds an entry in it.
LEMMA TypedInit == Init => TypedInv
<1> SUFFICES ASSUME Init PROVE TypedInv
    OBVIOUS
<1>1. NoStats \in StatsType /\ NoResult \in AnyOutcome
    BY DEF NoStats, StatsType, NoResult, AnyOutcome
<1>2. /\ wpc \in [Workers -> {"idle", "inspecting", "sending", "done"}]
      /\ held \in [Workers -> Entries \cup {NoEntry}]
      /\ wres \in [Workers -> AnyOutcome]
    BY <1>1 DEF Init
<1>3. TypeOK
    BY <1>1, <1>2, EmptySeq DEF Init, TypeOK
<1>4. HoldersHold
    BY DEF Init, HoldersHold
<1>5. QED
    BY <1>3, <1>4 DEF TypedInv

\* The walker keeps the types.
LEMMA TypedWalk == TypedInv /\ Walk => TypedInv'
<1> SUFFICES ASSUME TypedInv, Walk PROVE TypedInv'
    OBVIOUS
<1> USE EntriesAssumption DEF TypedInv, TypeOK, HoldersHold
<1>1. ASSUME NEW e \in Entries, WalkOffer(e) PROVE TypedInv'
    BY <1>1 DEF WalkOffer, WalkReaches, workerVars, collectorVars, history
<1>2. ASSUME NEW e \in Entries, WalkSkip(e) PROVE TypedInv'
    BY <1>2 DEF WalkSkip, WalkReaches, workerVars, collectorVars
<1>3. ASSUME NEW e \in Entries, NEW err \in ErrorClasses, WalkFault(e, err) PROVE TypedInv'
    <2>1. stats' \in StatsType
        BY <1>3, CountedType DEF WalkFault, ErrorClasses
    <2>2. faulty' \subseteq (Entries \X ErrorClasses)
        BY <1>3 DEF WalkFault, Blamed
    <2>3. QED
        BY <1>3, <2>1, <2>2 DEF WalkFault, WalkReaches, workerVars, collectorVars
<1>4. CASE WalkSend
    <2>1. paths' \in Seq(Entries)
        BY <1>4 DEF WalkSend
    <2>2. QED
        BY <1>4, <2>1 DEF WalkSend, workerVars, collectorVars, history
<1>5. CASE WalkAbandon \/ WalkInterrupted \/ WalkUnresolved \/ WalkFinish \/ ClosePaths
    BY <1>5 DEF WalkAbandon, WalkInterrupted, WalkUnresolved, WalkFinish, ClosePaths,
                workerVars, collectorVars, history
<1>6. QED
    BY <1>1, <1>2, <1>3, <1>4, <1>5 DEF Walk

\* A worker keeps the types.
LEMMA TypedWorker ==
    ASSUME TypedInv, NEW w \in Workers, Worker(w)
    PROVE  TypedInv'
<1> USE EntriesAssumption DEF TypedInv, TypeOK, HoldersHold
<1>1. CASE WorkerStart(w)
    <2>1. Head(paths) \in Entries /\ Tail(paths) \in Seq(Entries)
        BY <1>1, HeadTailProperties DEF WorkerStart
    <2>2. stats' \in StatsType
        BY <1>1, AddedType DEF WorkerStart
    <2>3. QED
        BY <1>1, <2>1, <2>2 DEF WorkerStart, walkVars, collectorVars, history
<1>2. CASE WorkerQuit(w)
    <2>1. Tail(paths) \in Seq(Entries)
        BY <1>2, HeadTailProperties DEF WorkerQuit
    <2>2. QED
        BY <1>2, <2>1 DEF WorkerQuit, walkVars, collectorVars, history
<1>3. CASE WorkerInspect(w)
    <2>1. held[w] \in Entries
        BY <1>3 DEF WorkerInspect
    <2>2. PICK o \in Outcomes : /\ wres' = [wres EXCEPT ![w] = o]
                                /\ found' = IF o.candidate THEN found \cup {held[w]} ELSE found
                                /\ faulty' = faulty \cup Blamed(held[w], o.err)
        BY <1>3 DEF WorkerInspect
    <2>3. o \in AnyOutcome
        BY <2>2, KindsAssumption
    <2>4. faulty' \subseteq (Entries \X ErrorClasses)
        BY <2>1, <2>2 DEF Blamed
    <2>5. wres' \in [Workers -> AnyOutcome] /\ found' \subseteq Entries
        BY <2>1, <2>2, <2>3
    <2>6. QED
        BY <1>3, <2>4, <2>5 DEF WorkerInspect, walkVars, collectorVars
<1>4. CASE WorkerSend(w)
    <2>1. held[w] \in Entries
        BY <1>4 DEF WorkerSend
    <2>2. [file |-> held[w], candidate |-> wres[w].candidate, err |-> wres[w].err] \in ResultType
        BY <2>1 DEF ResultType, AnyOutcome
    <2>3. results \in Seq(ResultType)
        BY DEF ResultType
    <2>4. results' = Append(results, [file |-> held[w], candidate |-> wres[w].candidate,
                                      err |-> wres[w].err])
        BY <1>4 DEF WorkerSend
    <2>5. results' \in Seq(ResultType)
        BY <2>2, <2>3, <2>4, AppendProperties
    <2>6. results' \in Seq([file : Entries, candidate : BOOLEAN, err : {"none", "denied", "other"}])
        BY <2>5 DEF ResultType
    <2>7. held' \in [Workers -> Entries \cup {NoEntry}] /\ wpc' \in [Workers -> {"idle", "inspecting", "sending", "done"}]
        BY <1>4 DEF WorkerSend
    <2>8. \A x \in Workers : wpc'[x] \in {"inspecting", "sending"} <=> held'[x] # NoEntry
        <3>1. wpc'[w] = "idle" /\ held'[w] = NoEntry
            BY <1>4 DEF WorkerSend
        <3>2. \A x \in Workers \ {w} : wpc'[x] = wpc[x] /\ held'[x] = held[x]
            BY <1>4 DEF WorkerSend
        <3>3. QED
            BY <3>1, <3>2
    <2>9. UNCHANGED <<unvisited, walker, offer, walkErr, paths, wres, resultsClosed, parentDone,
                      fatal, encoder, inventory, stats, snapshot, ret, settled, found, faulty>>
        BY <1>4 DEF WorkerSend, walkVars, collectorVars, history
    <2>10. QED
        BY <2>6, <2>7, <2>8, <2>9
<1>5. CASE WorkerAbandon(w)
    BY <1>5 DEF WorkerAbandon, walkVars, collectorVars, history
<1>6. CASE WorkerExit(w)
    BY <1>6 DEF WorkerExit, walkVars, collectorVars, history
<1>7. QED
    BY <1>1, <1>2, <1>3, <1>4, <1>5, <1>6 DEF Worker

\* The collector keeps the types.
LEMMA TypedCollect == TypedInv /\ Collect => TypedInv'
<1> SUFFICES ASSUME TypedInv, Collect PROVE TypedInv'
    OBVIOUS
<1> USE DEF TypedInv, TypeOK, HoldersHold
<1>1. ASSUME results # <<>>
      PROVE  /\ Head(results).file \in Entries
             /\ Head(results).err \in {"none", "denied", "other"}
             /\ Tail(results) \in Seq([file : Entries, candidate : BOOLEAN,
                                      err : {"none", "denied", "other"}])
             /\ Counted(stats, Head(results).err) \in StatsType
    <2>1. /\ Head(results) \in ResultType
          /\ Tail(results) \in Seq(ResultType)
        BY <1>1, HeadTailProperties DEF ResultType
    <2>2. QED
        BY <2>1, CountedType DEF ResultType
<1>2. ASSUME ReportProgress, stats' \in StatsType PROVE snapshot' \in StatsType
    BY <1>2 DEF ReportProgress
<1>3. CASE CollectNothing
    BY <1>1, <1>2, <1>3 DEF CollectNothing, walkVars, workerVars
<1>4. CASE CollectWrite
    <2>1. stats' \in StatsType
        BY <1>1, <1>4, AddedType DEF CollectWrite
    <2>2. inventory' \in Seq(Entries)
        BY <1>1, <1>4 DEF CollectWrite
    <2>3. QED
        BY <1>1, <1>2, <1>4, <2>1, <2>2 DEF CollectWrite, walkVars, workerVars
<1>5. CASE CollectFault
    BY <1>1, <1>5 DEF CollectFault, walkVars, workerVars, history
<1>6. CASE Return
    BY <1>6 DEF Return, ScanError, walkVars, workerVars, history
<1>7. QED
    BY <1>3, <1>4, <1>5, <1>6 DEF Collect

\* The types are an invariant by themselves.
LEMMA TypedNext == TypedInv /\ [Next]_vars => TypedInv'
<1> SUFFICES ASSUME TypedInv, [Next]_vars PROVE TypedInv'
    OBVIOUS
<1>1. CASE CloseResults
    BY <1>1 DEF TypedInv, TypeOK, HoldersHold, CloseResults, walkVars, workerVars,
                collectorVars, history
<1>2. CASE ParentCancel
    BY <1>2 DEF TypedInv, TypeOK, HoldersHold, ParentCancel, walkVars, workerVars,
                collectorVars, history
<1>3. CASE UNCHANGED vars
    BY <1>3 DEF TypedInv, TypeOK, HoldersHold, vars, walkVars, workerVars, collectorVars, history
<1>4. QED
    BY <1>1, <1>2, <1>3, TypedWalk, TypedWorker, TypedCollect DEF Next, Terminated

\* Every variable keeps its type: no goroutine ever sends "no entry".
THEOREM TypeCorrect == Spec => []TypeOK
<1>1. TypedInv => TypeOK
    BY DEF TypedInv
<1>2. QED
    BY TypedInit, TypedNext, <1>1, PTL DEF Spec

-----------------------------------------------------------------------------
(* The order of the shutdown.                                               *)

LEMMA ShutdownInit == Init => ShutdownOrder
    BY WorkersAssumption DEF Init, ShutdownOrder, CtxDone

LEMMA ShutdownNext == TypedInv /\ ShutdownOrder /\ [Next]_vars => ShutdownOrder'
<1> SUFFICES ASSUME TypedInv, ShutdownOrder, [Next]_vars PROVE ShutdownOrder'
    OBVIOUS
<1> USE DEF ShutdownOrder, CtxDone, PathsClosed, ResultsMayClose
<1>1. ASSUME NEW e \in Entries, WalkOffer(e) PROVE ShutdownOrder'
    BY <1>1 DEF WalkOffer, workerVars, collectorVars, history
<1>2. ASSUME NEW e \in Entries, WalkSkip(e) PROVE ShutdownOrder'
    BY <1>2 DEF WalkSkip, workerVars, collectorVars
<1>3. ASSUME NEW e \in Entries, NEW err \in ErrorClasses, WalkFault(e, err)
      PROVE ShutdownOrder'
    BY <1>3 DEF WalkFault, workerVars, collectorVars
<1>4. CASE WalkSend
    BY <1>4 DEF WalkSend, workerVars, collectorVars, history
<1>5. CASE WalkAbandon \/ WalkInterrupted \/ WalkUnresolved \/ WalkFinish \/ ClosePaths
    BY <1>5 DEF WalkAbandon, WalkInterrupted, WalkUnresolved, WalkFinish, ClosePaths,
                workerVars, collectorVars, history
<1>6. ASSUME NEW w \in Workers, Worker(w) PROVE ShutdownOrder'
    <2>0. wpc \in [Workers -> {"idle", "inspecting", "sending", "done"}]
        BY DEF TypedInv, TypeOK
    <2>1. CASE WorkerStart(w)
        BY <2>0, <2>1 DEF WorkerStart, walkVars, collectorVars, history
    <2>2. CASE WorkerQuit(w)
        BY <2>0, <2>2 DEF WorkerQuit, walkVars, collectorVars, history
    <2>3. CASE WorkerInspect(w)
        BY <2>0, <2>3 DEF WorkerInspect, walkVars, collectorVars
    <2>4. CASE WorkerSend(w)
        BY <2>0, <2>4 DEF WorkerSend, walkVars, collectorVars, history
    <2>5. CASE WorkerAbandon(w)
        BY <2>0, <2>5 DEF WorkerAbandon, walkVars, collectorVars, history
    <2>6. CASE WorkerExit(w)
        BY <2>0, <2>6 DEF WorkerExit, walkVars, collectorVars, history
    <2>7. QED
        BY <1>6, <2>1, <2>2, <2>3, <2>4, <2>5, <2>6 DEF Worker
<1>7. CASE CloseResults
    BY <1>7 DEF CloseResults, walkVars, workerVars, collectorVars, history
<1>8. CASE CollectNothing
    BY <1>8 DEF CollectNothing, walkVars, workerVars
<1>9. CASE CollectWrite
    BY <1>9 DEF CollectWrite, walkVars, workerVars
<1>10. CASE CollectFault
    BY <1>10 DEF CollectFault, walkVars, workerVars, history
<1>11. CASE Return
    BY <1>11 DEF Return, walkVars, workerVars, history
<1>12. CASE ParentCancel
    BY <1>12 DEF ParentCancel, walkVars, workerVars, collectorVars, history
<1>13. CASE UNCHANGED vars
    BY <1>13 DEF vars, walkVars, workerVars, collectorVars, history
<1>14. QED
    BY <1>1, <1>2, <1>3, <1>4, <1>5, <1>6, <1>7, <1>8, <1>9, <1>10, <1>11, <1>12, <1>13
    DEF Next, Walk, Collect, Terminated

-----------------------------------------------------------------------------
(* Nothing is lost between the walk and the collector.                      *)

LEMMA LostInit == Init => NothingLost
    BY DEF Init, NothingLost

LEMMA LostNext == TypedInv /\ ShutdownOrder /\ NothingLost /\ [Next]_vars => NothingLost'
<1> SUFFICES ASSUME TypedInv, ShutdownOrder, NothingLost, [Next]_vars PROVE NothingLost'
    OBVIOUS
<1> USE DEF NothingLost
<1>0. /\ paths \in Seq(Entries) /\ results \in Seq(ResultType)
      /\ held \in [Workers -> Entries \cup {NoEntry}]
      /\ Queued' = {r.file : r \in Range(results')}
    BY DEF TypedInv, TypeOK, ResultType, Queued
<1>1. ASSUME NEW x \in Entries, WalkOffer(x) PROVE NothingLost'
    <2>1. offer = NoEntry
        BY <1>1 DEF TypedInv, HoldersHold, WalkOffer
    <2>2. QED
        BY <1>0, <1>1, <2>1, EntriesAssumption
        DEF WalkOffer, Queued, workerVars, collectorVars, history, CtxDone
<1>2. ASSUME NEW x \in Entries, WalkSkip(x) PROVE NothingLost'
    <2>1. unvisited \subseteq unvisited' \cup settled' /\ settled \subseteq settled'
        BY <1>2 DEF WalkSkip
    <2>2. UNCHANGED <<offer, paths, held, results, parentDone, fatal>>
        BY <1>2 DEF WalkSkip, workerVars, collectorVars
    <2>3. /\ Queued' = Queued /\ Range(paths') = Range(paths)
          /\ CtxDone' = CtxDone /\ offer' = offer /\ held' = held
        BY <2>2 DEF Queued, CtxDone
    <2>4. \A e \in unvisited \cup settled : e \in unvisited' \/ e \in settled'
        BY <2>1
    <2>5. QED
        BY <2>3, <2>4
<1>3. ASSUME NEW x \in Entries, NEW err \in ErrorClasses, WalkFault(x, err) PROVE NothingLost'
    <2>1. unvisited \subseteq unvisited' \cup settled' /\ settled \subseteq settled'
        BY <1>3 DEF WalkFault
    <2>2. UNCHANGED <<offer, paths, held, results, parentDone, fatal>>
        BY <1>3 DEF WalkFault, workerVars, collectorVars
    <2>3. /\ Queued' = Queued /\ Range(paths') = Range(paths)
          /\ CtxDone' = CtxDone /\ offer' = offer /\ held' = held
        BY <2>2 DEF Queued, CtxDone
    <2>4. \A e \in unvisited \cup settled : e \in unvisited' \/ e \in settled'
        BY <2>1
    <2>5. QED
        BY <2>3, <2>4
<1>4. CASE WalkSend
    <2>1. offer \in Entries
        BY <1>4 DEF WalkSend, TypedInv, TypeOK, HoldersHold
    <2>2. Range(paths') = Range(paths) \cup {offer}
        BY <1>0, <1>4, <2>1, RangeOfAppend DEF WalkSend
    <2>3. QED
        BY <1>0, <1>4, <2>2 DEF WalkSend, Queued, workerVars, collectorVars, history, CtxDone
<1>5. CASE WalkAbandon \/ WalkInterrupted
    BY <1>5 DEF WalkAbandon, WalkInterrupted, collectorVars, CtxDone
<1>6. CASE WalkUnresolved \/ WalkFinish \/ ClosePaths
    BY <1>0, <1>6 DEF WalkUnresolved, WalkFinish, ClosePaths, Queued, workerVars, collectorVars,
                history, CtxDone
<1>7. ASSUME NEW v \in Workers, Worker(v) PROVE NothingLost'
    <2>1. CASE WorkerStart(v)
        <3>1. Range(paths) = {Head(paths)} \cup Range(paths')
            BY <1>0, <2>1, RangeOfTail DEF WorkerStart
        <3>2. held[v] = NoEntry
            BY <2>1 DEF WorkerStart, TypedInv, HoldersHold
        <3>3. held'[v] = Head(paths) /\ \A w \in Workers \ {v} : held'[w] = held[w]
            BY <1>0, <2>1 DEF WorkerStart
        <3>4. QED
            BY <1>0, <2>1, <3>1, <3>2, <3>3, EntriesAssumption
            DEF WorkerStart, Queued, walkVars, collectorVars, history, CtxDone
    <2>2. CASE WorkerQuit(v) \/ WorkerAbandon(v)
        BY <2>2 DEF WorkerQuit, WorkerAbandon, collectorVars, CtxDone
    <2>3. CASE WorkerInspect(v)
        BY <1>0, <2>3 DEF WorkerInspect, Queued, walkVars, collectorVars, CtxDone
    <2>4. CASE WorkerSend(v)
        <3>1. held[v] \in Entries
            BY <2>4 DEF WorkerSend, TypedInv, TypeOK, HoldersHold
        <3>2. wres[v] \in AnyOutcome
            BY DEF TypedInv, TypeOK
        <3> DEFINE r == [file |-> held[v], candidate |-> wres[v].candidate, err |-> wres[v].err]
        <3>3. r \in ResultType
            BY <3>1, <3>2 DEF ResultType, AnyOutcome
        <3>4. Range(results') = Range(results) \cup {r}
            BY <1>0, <2>4, <3>3, RangeOfAppend DEF WorkerSend
        <3>5. held[v] \in Queued' /\ Queued \subseteq Queued'
            BY <1>0, <3>4 DEF Queued
        <3>6. \A w \in Workers \ {v} : held'[w] = held[w]
            BY <1>0, <2>4 DEF WorkerSend
        <3>7. QED
            BY <1>0, <2>4, <3>5, <3>6 DEF WorkerSend, walkVars, collectorVars, history, CtxDone
    <2>5. CASE WorkerExit(v)
        BY <1>0, <2>5 DEF WorkerExit, Queued, walkVars, collectorVars, history, CtxDone
    <2>6. QED
        BY <1>7, <2>1, <2>2, <2>3, <2>4, <2>5 DEF Worker
<1>8. CASE CloseResults
    BY <1>0, <1>8 DEF CloseResults, Queued, walkVars, workerVars, collectorVars, history, CtxDone
<1>9. CASE CollectNothing \/ CollectWrite
    <2>1. Range(results) = {Head(results)} \cup Range(results')
        BY <1>0, <1>9, RangeOfTail DEF CollectNothing, CollectWrite
    <2>2. Queued \subseteq Queued' \cup settled'
        BY <1>0, <1>9, <2>1 DEF CollectNothing, CollectWrite, Queued
    <2>3. settled \subseteq settled'
        BY <1>9 DEF CollectNothing, CollectWrite
    <2>4. QED
        BY <1>9, <2>2, <2>3 DEF CollectNothing, CollectWrite, walkVars, workerVars, CtxDone
<1>10. CASE CollectFault
    BY <1>10 DEF CollectFault, CtxDone
<1>11. CASE Return
    BY <1>0, <1>11 DEF Return, Queued, walkVars, workerVars, history, CtxDone
<1>12. CASE ParentCancel
    BY <1>12 DEF ParentCancel, CtxDone
<1>13. CASE UNCHANGED vars
    BY <1>0, <1>13 DEF vars, Queued, walkVars, workerVars, collectorVars, history, CtxDone
<1>14. QED
    BY <1>1, <1>2, <1>3, <1>4, <1>5, <1>6, <1>7, <1>8, <1>9, <1>10, <1>11, <1>12, <1>13
    DEF Next, Walk, Collect, Terminated

-----------------------------------------------------------------------------
(* No candidate is lost between inspect and the inventory.                  *)

LEMMA TrackedInit == Init => CandidatesTracked
    BY DEF Init, CandidatesTracked

LEMMA TrackedNext == TypedInv /\ CandidatesTracked /\ [Next]_vars => CandidatesTracked'
<1> SUFFICES ASSUME TypedInv, CandidatesTracked, [Next]_vars PROVE CandidatesTracked'
    OBVIOUS
<1> USE DEF CandidatesTracked
<1>0. /\ results \in Seq(ResultType) /\ inventory \in Seq(Entries)
      /\ held \in [Workers -> Entries \cup {NoEntry}]
      /\ wpc \in [Workers -> {"idle", "inspecting", "sending", "done"}]
      /\ wres \in [Workers -> AnyOutcome]
    BY DEF TypedInv, TypeOK, ResultType
<1>1. ASSUME UNCHANGED <<workerVars, results, inventory, found, parentDone, fatal>>
      PROVE  CandidatesTracked'
    BY <1>1 DEF workerVars, CtxDone
<1>2. CASE Walk
    BY <1>1, <1>2 DEF Walk, WalkOffer, WalkSkip, WalkFault, WalkSend, WalkAbandon, WalkInterrupted,
                      WalkUnresolved, WalkFinish, ClosePaths, collectorVars, history
<1>3. ASSUME NEW v \in Workers, Worker(v) PROVE CandidatesTracked'
    <2>1. CASE WorkerStart(v)
        <3>1. UNCHANGED <<wres, results, inventory, found, parentDone, fatal>>
            BY <2>1 DEF WorkerStart, collectorVars, history
        <3>2. \A w \in Workers : wpc[w] = "sending" => held'[w] = held[w] /\ wpc'[w] = wpc[w]
            BY <1>0, <2>1 DEF WorkerStart
        <3>3. QED
            BY <3>1, <3>2 DEF CtxDone
    <2>2. CASE WorkerQuit(v) \/ WorkerAbandon(v)
        BY <2>2 DEF WorkerQuit, WorkerAbandon, collectorVars, CtxDone
    <2>3. CASE WorkerInspect(v)
        <3>1. UNCHANGED <<held, results, inventory, parentDone, fatal>>
            BY <2>3 DEF WorkerInspect, collectorVars
        <3>2. \A w \in Workers : wpc[w] = "sending" => wpc'[w] = "sending" /\ wres'[w] = wres[w]
            BY <1>0, <2>3 DEF WorkerInspect
        <3>3. \A e \in found' \ found : held[v] = e /\ wpc'[v] = "sending" /\ wres'[v].candidate
            BY <1>0, <2>3 DEF WorkerInspect
        <3>4. QED
            BY <3>1, <3>2, <3>3 DEF CtxDone
    <2>4. CASE WorkerSend(v)
        <3> DEFINE r == [file |-> held[v], candidate |-> wres[v].candidate, err |-> wres[v].err]
        <3>1. UNCHANGED <<wres, inventory, found, parentDone, fatal>>
            BY <2>4 DEF WorkerSend, collectorVars, history
        <3>2. held[v] \in Entries
            BY <2>4 DEF WorkerSend, TypedInv, TypeOK, HoldersHold
        <3>3. r \in ResultType
            BY <1>0, <3>2 DEF ResultType, AnyOutcome
        <3>4. Range(results') = Range(results) \cup {r}
            BY <1>0, <2>4, <3>3, RangeOfAppend DEF WorkerSend
        <3>5. \A w \in Workers \ {v} : held'[w] = held[w] /\ wpc'[w] = wpc[w]
            BY <1>0, <2>4 DEF WorkerSend
        <3>6. ASSUME NEW e \in found, held[v] = e, wres[v].candidate
              PROVE  \E q \in Range(results') : q.file = e /\ q.candidate
            BY <3>4, <3>6
        <3>7. QED
            BY <3>1, <3>4, <3>5, <3>6 DEF CtxDone
    <2>5. CASE WorkerExit(v)
        <3>1. UNCHANGED <<held, wres, results, inventory, found, parentDone, fatal>>
            BY <2>5 DEF WorkerExit, collectorVars, history
        <3>2. \A w \in Workers : wpc[w] = "sending" => wpc'[w] = "sending"
            BY <1>0, <2>5 DEF WorkerExit
        <3>3. QED
            BY <3>1, <3>2 DEF CtxDone
    <2>6. QED
        BY <1>3, <2>1, <2>2, <2>3, <2>4, <2>5 DEF Worker
<1>4. CASE CollectNothing
    <2>1. Range(results) = {Head(results)} \cup Range(results') /\ ~Head(results).candidate
        BY <1>0, <1>4, RangeOfTail DEF CollectNothing
    <2>2. UNCHANGED <<held, wpc, wres, inventory, found, parentDone, fatal>>
        BY <1>4 DEF CollectNothing, workerVars
    <2>3. QED
        BY <2>1, <2>2 DEF CtxDone
<1>5. CASE CollectWrite
    <2>1. Head(results) \in ResultType /\ Range(results) = {Head(results)} \cup Range(results')
        BY <1>0, <1>5, RangeOfTail DEF CollectWrite
    <2>2. Range(inventory') = Range(inventory) \cup {Head(results).file}
        BY <1>0, <1>5, <2>1, RangeOfAppend DEF CollectWrite, ResultType
    <2>3. UNCHANGED <<held, wpc, wres, found, parentDone, fatal>>
        BY <1>5 DEF CollectWrite, workerVars
    <2>4. QED
        BY <2>1, <2>2, <2>3 DEF CtxDone
<1>6. CASE CollectFault
    BY <1>6 DEF CollectFault, CtxDone
<1>7. CASE Return
    BY <1>1, <1>7 DEF Return, history
<1>8. CASE CloseResults
    BY <1>1, <1>8 DEF CloseResults, collectorVars, history
<1>9. CASE ParentCancel
    BY <1>9 DEF ParentCancel, CtxDone
<1>10. CASE UNCHANGED vars
    BY <1>1, <1>10 DEF vars, collectorVars, history
<1>11. QED
    BY <1>2, <1>3, <1>4, <1>5, <1>6, <1>7, <1>8, <1>9, <1>10 DEF Next, Collect, Terminated

-----------------------------------------------------------------------------
(* The return.                                                              *)

\* A worker that is done holds nothing, and a walker that ended offers nothing.
LEMMA QuietFromOrder == TypedInv /\ ShutdownOrder => QuietAfterReturn
    BY DEF TypedInv, TypeOK, HoldersHold, ShutdownOrder, ResultsMayClose, QuietAfterReturn

LEMMA CompleteNext ==
    TypedInv /\ ShutdownOrder /\ NothingLost /\ CandidatesTracked /\ CompleteOnSuccess
        /\ [Next]_vars => CompleteOnSuccess'
<1> SUFFICES ASSUME TypedInv, ShutdownOrder, NothingLost, CandidatesTracked, CompleteOnSuccess,
                    [Next]_vars
             PROVE  CompleteOnSuccess'
    OBVIOUS
<1>0. found \subseteq Entries /\ settled \subseteq Entries
    BY DEF TypedInv, TypeOK
<1>1. CASE Return
    <2>1. SUFFICES ASSUME ret' = "ok" PROVE settled = Entries /\ found \subseteq Range(inventory)
        BY <1>1 DEF CompleteOnSuccess, Return, history
    <2>2. ~CtxDone /\ walkErr = "nil"
        <3>1. walkErr # "ok" /\ "ok" = ScanError(parentDone)
            BY <1>1, <2>1 DEF Return, TypedInv, TypeOK
        <3>2. QED
            BY <3>1 DEF ScanError, CtxDone
    <2>3. unvisited = {} /\ offer = NoEntry
        BY <1>1, <2>2 DEF Return, ShutdownOrder, TypedInv, HoldersHold
    <2>4. /\ results = <<>> /\ Range(results) = {} /\ Queued = {}
          /\ \A w \in Workers : wpc[w] = "done" /\ held[w] = NoEntry
        BY <1>1, RangeOfEmpty
        DEF Return, ShutdownOrder, ResultsMayClose, TypedInv, HoldersHold, Queued
    <2>5. Range(paths) = {}
        BY <2>2, <2>4, WorkersAssumption, RangeOfEmpty DEF ShutdownOrder
    <2>6. settled = Entries
        BY <1>0, <2>2, <2>3, <2>4, <2>5, EntriesAssumption DEF NothingLost
    <2>7. found \subseteq Range(inventory)
        BY <2>2, <2>4 DEF CandidatesTracked
    <2>8. QED
        BY <2>6, <2>7
<1>2. ASSUME ret' = ret, settled \subseteq settled', settled' \subseteq Entries,
             ret = "ok" => UNCHANGED <<found, inventory>>
      PROVE  CompleteOnSuccess'
    BY <1>0, <1>2 DEF CompleteOnSuccess
<1>3. settled' \subseteq Entries
    BY TypedNext DEF TypedInv, TypeOK
<1>4. CASE Walk
    BY <1>2, <1>3, <1>4
    DEF Walk, WalkOffer, WalkSkip, WalkFault, WalkSend, WalkAbandon, WalkInterrupted,
        WalkUnresolved, WalkFinish, ClosePaths, collectorVars, history
<1>5. ASSUME NEW w \in Workers, Worker(w) PROVE CompleteOnSuccess'
    <2>1. CASE WorkerInspect(w)
        <3>1. ret = "running"
            BY <2>1 DEF WorkerInspect, ShutdownOrder, ResultsMayClose, TypedInv, TypeOK
        <3>2. QED
            BY <1>2, <1>3, <2>1, <3>1 DEF WorkerInspect, collectorVars
    <2>2. CASE \/ WorkerStart(w) \/ WorkerQuit(w) \/ WorkerSend(w)
               \/ WorkerAbandon(w) \/ WorkerExit(w)
        BY <1>2, <1>3, <2>2 DEF WorkerStart, WorkerQuit, WorkerSend, WorkerAbandon, WorkerExit,
                                collectorVars, history
    <2>3. QED
        BY <1>5, <2>1, <2>2 DEF Worker
<1>6. CASE CollectNothing \/ CollectWrite \/ CollectFault
    BY <1>6 DEF CollectNothing, CollectWrite, CollectFault, CompleteOnSuccess
<1>7. CASE CloseResults
    BY <1>2, <1>3, <1>7 DEF CloseResults, collectorVars, history
<1>8. CASE ParentCancel
    BY <1>2, <1>3, <1>8 DEF ParentCancel, collectorVars, history
<1>9. CASE UNCHANGED vars
    BY <1>2, <1>3, <1>9 DEF vars, collectorVars, history
<1>10. QED
    BY <1>1, <1>4, <1>5, <1>6, <1>7, <1>8, <1>9 DEF Next, Collect, Terminated

LEMMA CausesNext ==
    TypedInv /\ ShutdownOrder /\ FailureNamesItsCause /\ [Next]_vars => FailureNamesItsCause'
<1> SUFFICES ASSUME TypedInv, ShutdownOrder, FailureNamesItsCause, [Next]_vars
             PROVE  FailureNamesItsCause'
    OBVIOUS
<1>1. ASSUME UNCHANGED <<ret, fatal>>, parentDone => parentDone'
      PROVE  FailureNamesItsCause'
    BY <1>1 DEF FailureNamesItsCause
<1>2. CASE Return
    <2>1. ret' = ScanError(parentDone) /\ UNCHANGED <<fatal, parentDone>>
        BY <1>2 DEF Return
    <2>2. walkErr \in {"nil", "context", "unresolved"}
        BY DEF TypedInv, TypeOK
    <2>3. walkErr = "context" => parentDone \/ fatal
        BY DEF ShutdownOrder, CtxDone
    <2>4. fatal \in BOOLEAN /\ parentDone \in BOOLEAN
        BY DEF TypedInv, TypeOK
    <2>5. CASE fatal
        BY <2>1, <2>5 DEF ScanError, FailureNamesItsCause
    <2>6. CASE ~fatal
        <3>1. ret' # "write" /\ (ret' = "context" => parentDone)
            BY <2>1, <2>2, <2>3, <2>4, <2>6 DEF ScanError
        <3>2. QED
            BY <2>1, <2>6, <3>1 DEF FailureNamesItsCause
    <2>7. QED
        BY <2>5, <2>6
<1>3. CASE Walk
    BY <1>1, <1>3
    DEF Walk, WalkOffer, WalkSkip, WalkFault, WalkSend, WalkAbandon, WalkInterrupted,
        WalkUnresolved, WalkFinish, ClosePaths, collectorVars
<1>4. ASSUME NEW w \in Workers, Worker(w) PROVE FailureNamesItsCause'
    BY <1>1, <1>4
    DEF Worker, WorkerStart, WorkerQuit, WorkerInspect, WorkerSend, WorkerAbandon, WorkerExit,
        collectorVars
<1>5. CASE CollectNothing \/ CollectWrite
    BY <1>1, <1>5 DEF CollectNothing, CollectWrite
<1>6. CASE CollectFault
    BY <1>6 DEF CollectFault, FailureNamesItsCause
<1>7. CASE CloseResults \/ ParentCancel
    BY <1>1, <1>7 DEF CloseResults, ParentCancel, collectorVars
<1>8. CASE UNCHANGED vars
    BY <1>1, <1>8 DEF vars, collectorVars
<1>9. QED
    BY <1>2, <1>3, <1>4, <1>5, <1>6, <1>7, <1>8 DEF Next, Collect, Terminated

-----------------------------------------------------------------------------
(* The theorems.                                                            *)

\* The conjunction is inductive.
LEMMA InvariantNext == ScanInvariant /\ [Next]_vars => ScanInvariant'
    BY TypedNext, ShutdownNext, LostNext, TrackedNext, CompleteNext, CausesNext
    DEF ScanInvariant, TypedInv

LEMMA InvariantInit == Init => ScanInvariant
<1>1. Init => CompleteOnSuccess /\ FailureNamesItsCause
    BY DEF Init, CompleteOnSuccess, FailureNamesItsCause
<1>2. QED
    BY <1>1, TypedInit, ShutdownInit, LostInit, TrackedInit DEF ScanInvariant, TypedInv

\* Where every entry and every candidate is at every moment, and in which order
\* the goroutines and the channels end, however many workers there are.
THEOREM InvariantHolds == Spec => []ScanInvariant
    BY InvariantInit, InvariantNext, PTL DEF Spec

\* A scan that returns nil accounted for every entry it met, and every candidate
\* inspect returned is in the inventory.
THEOREM Completeness == Spec => []CompleteOnSuccess
<1>1. ScanInvariant => CompleteOnSuccess
    BY DEF ScanInvariant
<1>2. QED
    BY <1>1, InvariantHolds, PTL

\* The error Scan returns is the one that stopped it: a write failure is never
\* masked by the cancellation it causes.
THEOREM CausesNamed == Spec => []FailureNamesItsCause
<1>1. ScanInvariant => FailureNamesItsCause
    BY DEF ScanInvariant
<1>2. QED
    BY <1>1, InvariantHolds, PTL

\* No worker and no undelivered result outlives Scan.
THEOREM Quiet == Spec => []QuietAfterReturn
<1>1. ScanInvariant => QuietAfterReturn
    BY QuietFromOrder DEF ScanInvariant, TypedInv
<1>2. QED
    BY <1>1, InvariantHolds, PTL

-----------------------------------------------------------------------------
(* Every entry is in one place.                                             *)

Offered == {offer} \ {NoEntry}
Hands == {held[w] : w \in Workers} \ {NoEntry}

\* The places an entry passes through, one after the other.
Apart(a, b, c, d, e, f) ==
    /\ a \cap (b \cup c \cup d \cup e \cup f) = {}
    /\ b \cap (c \cup d \cup e \cup f) = {}
    /\ c \cap (d \cup e \cup f) = {}
    /\ d \cap (e \cup f) = {}
    /\ e \cap f = {}

Once(s) == \A i, j \in 1 .. Len(s) : s[i] = s[j] => i = j
OnceByFile(s) == \A i, j \in 1 .. Len(s) : s[i].file = s[j].file => i = j

OnePlace ==
    /\ Apart(unvisited, Offered, Range(paths), Hands, Queued, settled)
    /\ Once(paths) /\ OnceByFile(results)
    /\ \A v, w \in Workers : held[v] = held[w] /\ held[v] # NoEntry => v = w

LEMMA OnceAppended ==
    ASSUME NEW S, NEW s \in Seq(S), NEW x \in S, Once(s), x \notin Range(s)
    PROVE  Once(Append(s, x))
<1>1. /\ Len(Append(s, x)) = Len(s) + 1 /\ Len(s) \in Nat
      /\ \A i \in 1 .. Len(s) : Append(s, x)[i] = s[i]
      /\ Append(s, x)[Len(s) + 1] = x
    BY LenProperties, AppendProperties
<1>2. \A i \in 1 .. Len(s) : s[i] # x
    BY RangeEquality
<1>3. QED
    BY <1>1, <1>2 DEF Once

LEMMA OnceTaken ==
    ASSUME NEW S, NEW s \in Seq(S), s # <<>>, Once(s)
    PROVE  Once(Tail(s)) /\ Head(s) \notin Range(Tail(s))
<1>1. /\ Len(s) \in Nat /\ Len(s) # 0 /\ Head(s) = s[1]
      /\ Tail(s) \in Seq(S) /\ Len(Tail(s)) = Len(s) - 1
      /\ \A i \in 1 .. Len(Tail(s)) : Tail(s)[i] = s[i + 1]
    BY EmptySeq, LenProperties, HeadTailProperties
<1>2. Once(Tail(s))
    BY <1>1 DEF Once
<1>3. \A i \in 1 .. Len(Tail(s)) : Tail(s)[i] # Head(s)
    BY <1>1 DEF Once
<1>4. Range(Tail(s)) = {Tail(s)[i] : i \in 1 .. Len(Tail(s))}
    BY <1>1, RangeEquality
<1>5. QED
    BY <1>2, <1>3, <1>4

LEMMA OnceByFileAppended ==
    ASSUME NEW S, NEW s \in Seq(S), NEW x \in S, OnceByFile(s), \A r \in Range(s) : r.file # x.file
    PROVE  OnceByFile(Append(s, x))
<1>1. /\ Len(Append(s, x)) = Len(s) + 1 /\ Len(s) \in Nat
      /\ \A i \in 1 .. Len(s) : Append(s, x)[i] = s[i]
      /\ Append(s, x)[Len(s) + 1] = x
    BY LenProperties, AppendProperties
<1>2. \A i \in 1 .. Len(s) : s[i].file # x.file
    BY RangeEquality
<1>3. QED
    BY <1>1, <1>2 DEF OnceByFile

LEMMA OnceByFileTaken ==
    ASSUME NEW S, NEW s \in Seq(S), s # <<>>, OnceByFile(s)
    PROVE  OnceByFile(Tail(s)) /\ \A r \in Range(Tail(s)) : r.file # Head(s).file
<1>1. /\ Len(s) \in Nat /\ Len(s) # 0 /\ Head(s) = s[1]
      /\ Tail(s) \in Seq(S) /\ Len(Tail(s)) = Len(s) - 1
      /\ \A i \in 1 .. Len(Tail(s)) : Tail(s)[i] = s[i + 1]
    BY EmptySeq, LenProperties, HeadTailProperties
<1>2. OnceByFile(Tail(s))
    BY <1>1 DEF OnceByFile
<1>3. \A i \in 1 .. Len(Tail(s)) : Tail(s)[i].file # Head(s).file
    BY <1>1 DEF OnceByFile
<1>4. Range(Tail(s)) = {Tail(s)[i] : i \in 1 .. Len(Tail(s))}
    BY <1>1, RangeEquality
<1>5. QED
    BY <1>2, <1>3, <1>4

\* What a step does to the hands of one worker.
LEMMA HandFilled ==
    ASSUME TypedInv, NEW w \in Workers, NEW x \in Entries, held[w] = NoEntry,
           held' = [held EXCEPT ![w] = x]
    PROVE  Hands' = Hands \cup {x}
<1>1. held \in [Workers -> Entries \cup {NoEntry}] /\ x # NoEntry
    BY EntriesAssumption DEF TypedInv, TypeOK
<1>2. held'[w] = x /\ \A v \in Workers \ {w} : held'[v] = held[v]
    BY <1>1
<1>3. QED
    BY <1>1, <1>2 DEF Hands

LEMMA HandEmptied ==
    ASSUME TypedInv, NEW w \in Workers, held[w] # NoEntry,
           \A v, u \in Workers : held[v] = held[u] /\ held[v] # NoEntry => v = u,
           held' = [held EXCEPT ![w] = NoEntry]
    PROVE  Hands' = Hands \ {held[w]}
<1>1. held \in [Workers -> Entries \cup {NoEntry}]
    BY DEF TypedInv, TypeOK
<1>2. held'[w] = NoEntry /\ \A v \in Workers \ {w} : held'[v] = held[v]
    BY <1>1
<1>3. QED
    BY <1>1, <1>2 DEF Hands

LEMMA PassedOn ==
    ASSUME NEW a, NEW b, NEW c, NEW d, NEW e, NEW f, Apart(a, b, c, d, e, f)
    PROVE  /\ \A x \in c : Apart(a, b, c \ {x}, d \cup {x}, e, f)
           /\ \A x \in d : Apart(a, b, c, d \ {x}, e \cup {x}, f)
           /\ \A x : Apart(a, b, c \ {x}, d, e, f) /\ Apart(a, b, c, d \ {x}, e, f)
           /\ \A x \in c : x \notin d
    BY DEF Apart

LEMMA PlacesKept ==
    ASSUME OnePlace, UNCHANGED <<unvisited, offer, paths, held, results, settled>>
    PROVE  OnePlace'
    BY DEF OnePlace, Offered, Hands, Queued

LEMMA PlaceWalk == TypedInv /\ OnePlace /\ Walk => OnePlace'
<1> SUFFICES ASSUME TypedInv, OnePlace, Walk PROVE OnePlace'
    OBVIOUS
<1>0. /\ Apart(unvisited, Offered, Range(paths), Hands, Queued, settled)
      /\ Once(paths) /\ OnceByFile(results)
      /\ \A v, w \in Workers : held[v] = held[w] /\ held[v] # NoEntry => v = w
      /\ paths \in Seq(Entries) /\ unvisited \subseteq Entries /\ offer \in Entries \cup {NoEntry}
    BY DEF OnePlace, TypedInv, TypeOK
<1>1. ASSUME NEW x \in Entries, WalkOffer(x) PROVE OnePlace'
    <2>1. UNCHANGED <<paths, held, results, settled>> /\ x \in unvisited
        BY <1>1 DEF WalkOffer, WalkReaches, workerVars, history
    <2>2. unvisited' = unvisited \ {x} /\ Offered = {} /\ Offered' = {x}
        BY <1>1, EntriesAssumption DEF WalkOffer, Offered, TypedInv, HoldersHold
    <2>3. Apart(unvisited', Offered', Range(paths), Hands, Queued, settled)
        BY <1>0, <2>1, <2>2 DEF Apart
    <2>4. QED
        BY <1>0, <2>1, <2>3 DEF OnePlace, Hands, Queued
<1>2. ASSUME NEW x \in Entries, unvisited' = unvisited \ {x}, x \in unvisited, settled' = settled \cup {x},
             UNCHANGED <<offer, paths, held, results>>
      PROVE  OnePlace'
    <2>1. Apart(unvisited', Offered, Range(paths), Hands, Queued, settled')
        BY <1>0, <1>2 DEF Apart
    <2>2. QED
        BY <1>0, <1>2, <2>1 DEF OnePlace, Hands, Queued, Offered
<1>3. ASSUME NEW x \in Entries, WalkSkip(x) PROVE OnePlace'
    BY <1>2, <1>3 DEF WalkSkip, WalkReaches, workerVars
<1>4. ASSUME NEW x \in Entries, NEW err, WalkFault(x, err) PROVE OnePlace'
    BY <1>2, <1>4 DEF WalkFault, WalkReaches, workerVars
<1>5. CASE WalkSend
    <2>1. /\ UNCHANGED <<unvisited, held, results, settled>> /\ paths' = Append(paths, offer)
          /\ offer \in Entries /\ Offered = {offer} /\ Offered' = {}
        BY <1>0, <1>5 DEF WalkSend, workerVars, history, Offered, TypedInv, HoldersHold
    <2>2. Range(paths') = Range(paths) \cup {offer}
        BY <1>0, <2>1, RangeOfAppend
    <2>3. Apart(unvisited, Offered', Range(paths'), Hands, Queued, settled)
        BY <1>0, <2>1, <2>2 DEF Apart
    <2>4. Once(paths')
        BY <1>0, <2>1, OnceAppended DEF Apart
    <2>5. QED
        BY <1>0, <2>1, <2>3, <2>4 DEF OnePlace, Hands, Queued
<1>6. CASE WalkAbandon \/ WalkInterrupted \/ WalkUnresolved \/ WalkFinish \/ ClosePaths
    <2>1. UNCHANGED <<unvisited, paths, held, results, settled>> /\ Offered' \subseteq Offered
        BY <1>6 DEF WalkAbandon, WalkInterrupted, WalkUnresolved, WalkFinish, ClosePaths, workerVars, history,
           Offered
    <2>2. Apart(unvisited, Offered', Range(paths), Hands, Queued, settled)
        BY <1>0, <2>1 DEF Apart
    <2>3. QED
        BY <1>0, <2>1, <2>2 DEF OnePlace, Hands, Queued
<1>7. QED
    BY <1>1, <1>3, <1>4, <1>5, <1>6 DEF Walk

LEMMA PlaceWorker == ASSUME TypedInv, OnePlace, NEW w \in Workers, Worker(w) PROVE OnePlace'
<1>0. /\ Apart(unvisited, Offered, Range(paths), Hands, Queued, settled)
      /\ Once(paths) /\ OnceByFile(results)
      /\ \A v, u \in Workers : held[v] = held[u] /\ held[v] # NoEntry => v = u
      /\ paths \in Seq(Entries) /\ results \in Seq(ResultType)
      /\ held \in [Workers -> Entries \cup {NoEntry}] /\ wres \in [Workers -> AnyOutcome]
      /\ Hands = {held[v] : v \in Workers} \ {NoEntry} /\ Queued = {r.file : r \in Range(results)}
    BY DEF OnePlace, TypedInv, TypeOK, ResultType, Hands, Queued
<1>1. ASSUME paths # <<>>, paths' = Tail(paths)
      PROVE  /\ Range(paths') = Range(paths) \ {Head(paths)} /\ Once(paths')
             /\ Head(paths) \in Range(paths) /\ Head(paths) \in Entries
    BY <1>0, <1>1, RangeOfTail, OnceTaken
<1>a. Apart(unvisited, Offered, Range(paths), Hands, Queued, settled)
    BY <1>0
<1>2. CASE WorkerStart(w)
    <2>1. /\ UNCHANGED <<unvisited, offer, results, settled>> /\ held' = [held EXCEPT ![w] = Head(paths)]
          /\ held[w] = NoEntry /\ paths # <<>> /\ paths' = Tail(paths)
        BY <1>2 DEF WorkerStart, walkVars, history, TypedInv, HoldersHold
    <2>2. Hands' = Hands \cup {Head(paths)}
        BY <1>1, <2>1, HandFilled
    <2>a. Range(paths') = Range(paths) \ {Head(paths)} /\ Head(paths) \in Range(paths)
        BY <1>1, <2>1
    <2>3. Apart(unvisited, Offered, Range(paths'), Hands', Queued, settled)
        BY <1>a, <2>a, <2>2, PassedOn
    <2>4. Head(paths) \notin Hands
        BY <1>a, <2>a, PassedOn
    <2>5. \A v \in Workers : held'[v] = IF v = w THEN Head(paths) ELSE held[v]
        BY <1>0, <2>1
    <2>6. \A v \in Workers : held[v] # Head(paths)
        BY <1>0, <1>1, <2>1, <2>4, EntriesAssumption
    <2>7. \A v, u \in Workers : held'[v] = held'[u] /\ held'[v] # NoEntry => v = u
        BY <1>0, <2>5, <2>6
    <2>8. QED
        BY <1>0, <1>1, <2>1, <2>3, <2>7 DEF OnePlace, Offered, Queued
<1>3. CASE WorkerQuit(w)
    <2>1. UNCHANGED <<unvisited, offer, held, results, settled>> /\ paths # <<>> /\ paths' = Tail(paths)
        BY <1>3 DEF WorkerQuit, walkVars, history
    <2>a. Range(paths') = Range(paths) \ {Head(paths)}
        BY <1>1, <2>1
    <2>b. Apart(unvisited, Offered, Range(paths) \ {Head(paths)}, Hands, Queued, settled)
        BY <1>a, PassedOn
    <2>2. Apart(unvisited, Offered, Range(paths'), Hands, Queued, settled)
        BY <2>a, <2>b
    <2>3. QED
        BY <1>0, <1>1, <2>1, <2>2 DEF OnePlace, Offered, Queued, Hands
<1>4. CASE WorkerInspect(w) \/ WorkerExit(w)
    BY <1>4, PlacesKept DEF WorkerInspect, WorkerExit, walkVars, history
<1>5. ASSUME held[w] # NoEntry, held' = [held EXCEPT ![w] = NoEntry]
      PROVE  /\ Hands' = Hands \ {held[w]} /\ held[w] \in Hands
             /\ \A v, u \in Workers : held'[v] = held'[u] /\ held'[v] # NoEntry => v = u
    <2>1. Hands' = Hands \ {held[w]}
        BY <1>0, <1>5, HandEmptied
    <2>2. \A v \in Workers : held'[v] = IF v = w THEN NoEntry ELSE held[v]
        BY <1>0, <1>5
    <2>3. QED
        BY <1>0, <1>5, <2>1, <2>2
<1>6. CASE WorkerSend(w)
    <2> DEFINE r == [file |-> held[w], candidate |-> wres[w].candidate, err |-> wres[w].err]
    <2>1. /\ UNCHANGED <<unvisited, offer, paths, settled>> /\ held' = [held EXCEPT ![w] = NoEntry]
          /\ held[w] # NoEntry /\ results' = Append(results, r)
        BY <1>6 DEF WorkerSend, walkVars, history, TypedInv, HoldersHold
    <2>2. r \in ResultType /\ r.file = held[w]
        BY <1>0, <2>1 DEF ResultType, AnyOutcome
    <2> HIDE DEF r
    <2>3. Range(results') = Range(results) \cup {r}
        BY <1>0, <2>1, <2>2, RangeOfAppend
    <2>4. Queued' = Queued \cup {held[w]}
        BY <2>2, <2>3 DEF Queued
    <2>5. held[w] \notin Queued
        BY <1>0, <1>5, <2>1 DEF Apart
    <2>6. OnceByFile(results')
        BY <1>0, <2>1, <2>2, <2>5, OnceByFileAppended
    <2>7. Hands' = Hands \ {held[w]} /\ held[w] \in Hands
        BY <1>5, <2>1
    <2>8. Apart(unvisited, Offered, Range(paths), Hands', Queued', settled)
        <3>1. Apart(unvisited, Offered, Range(paths), Hands, Queued, settled)
            BY <1>0
        <3>2. QED
            BY <2>4, <2>7, <3>1, PassedOn
    <2>9. QED
        BY <1>0, <1>5, <2>1, <2>6, <2>8 DEF OnePlace, Offered
<1>7. CASE WorkerAbandon(w)
    <2>1. /\ UNCHANGED <<unvisited, offer, paths, results, settled>> /\ held' = [held EXCEPT ![w] = NoEntry]
          /\ held[w] # NoEntry
        BY <1>7 DEF WorkerAbandon, walkVars, history, TypedInv, HoldersHold
    <2>a. Hands' = Hands \ {held[w]}
        BY <1>5, <2>1
    <2>2. Apart(unvisited, Offered, Range(paths), Hands', Queued, settled)
        BY <1>a, <2>a, PassedOn
    <2>3. QED
        BY <1>0, <1>5, <2>1, <2>2 DEF OnePlace, Offered, Queued
<1>8. QED
    BY <1>2, <1>3, <1>4, <1>6, <1>7 DEF Worker

\* What taking a result from the channel does.
LEMMA ResultTaken ==
    ASSUME TypedInv, OnePlace, results # <<>>, results' = Tail(results)
    PROVE  /\ Head(results) \in ResultType /\ Head(results) \in Range(results)
           /\ Range(results) = {Head(results)} \cup Range(results')
           /\ OnceByFile(results') /\ Head(results).file \in Queued
           /\ Queued' = Queued \ {Head(results).file}
<1>1. results \in Seq(ResultType) /\ OnceByFile(results)
    BY DEF TypedInv, TypeOK, ResultType, OnePlace
<1>2. /\ Head(results) \in ResultType /\ Head(results) \in Range(results)
      /\ Range(results) = {Head(results)} \cup Range(results')
    BY <1>1, RangeOfTail
<1>3. OnceByFile(results') /\ \A r \in Range(results') : r.file # Head(results).file
    BY <1>1, OnceByFileTaken
<1>4. QED
    BY <1>2, <1>3 DEF Queued

LEMMA PlaceCollect == TypedInv /\ OnePlace /\ Collect => OnePlace'
<1> SUFFICES ASSUME TypedInv, OnePlace, Collect PROVE OnePlace'
    OBVIOUS
<1>0. /\ Apart(unvisited, Offered, Range(paths), Hands, Queued, settled)
      /\ Once(paths)
      /\ \A v, u \in Workers : held[v] = held[u] /\ held[v] # NoEntry => v = u
    BY DEF OnePlace
<1>1. CASE CollectNothing \/ CollectWrite
    <2>1. /\ UNCHANGED <<unvisited, offer, paths, held>> /\ results # <<>> /\ results' = Tail(results)
          /\ settled' = settled \cup {Head(results).file}
        BY <1>1 DEF CollectNothing, CollectWrite, walkVars, workerVars
    <2>2. Apart(unvisited, Offered, Range(paths), Hands, Queued', settled')
        BY <1>0, <2>1, ResultTaken DEF Apart
    <2>3. QED
        BY <1>0, <2>1, <2>2, ResultTaken DEF OnePlace, Offered, Hands
<1>2. CASE CollectFault
    <2>1. UNCHANGED <<unvisited, offer, paths, held, settled>> /\ results # <<>> /\ results' = Tail(results)
        BY <1>2 DEF CollectFault, walkVars, workerVars, history
    <2>2. Apart(unvisited, Offered, Range(paths), Hands, Queued', settled)
        BY <1>0, <2>1, ResultTaken DEF Apart
    <2>3. QED
        BY <1>0, <2>1, <2>2, ResultTaken DEF OnePlace, Offered, Hands
<1>3. CASE Return
    BY <1>3, PlacesKept DEF Return, walkVars, workerVars, history
<1>4. QED
    BY <1>1, <1>2, <1>3 DEF Collect

\* An entry is in one place at most, whatever is dropped after a cancellation.
LEMMA PlaceNext == TypedInv /\ OnePlace /\ [Next]_vars => OnePlace'
<1> SUFFICES ASSUME TypedInv, OnePlace, [Next]_vars PROVE OnePlace'
    OBVIOUS
<1>1. CASE CloseResults \/ ParentCancel
    BY <1>1, PlacesKept DEF CloseResults, ParentCancel, walkVars, workerVars, history
<1>2. CASE UNCHANGED vars
    BY <1>2, PlacesKept DEF vars, walkVars, workerVars, history
<1>3. QED
    BY <1>1, <1>2, PlaceWalk, PlaceWorker, PlaceCollect DEF Next, Terminated

LEMMA PlaceInit == Init => OnePlace
<1> SUFFICES ASSUME Init PROVE OnePlace
    OBVIOUS
<1>1. Offered = {} /\ Range(paths) = {} /\ Hands = {} /\ Queued = {} /\ settled = {}
    BY RangeOfEmpty DEF Init, Offered, Hands, Queued
<1>2. Once(paths) /\ OnceByFile(results)
    BY EmptySeq DEF Init, Once, OnceByFile
<1>3. QED
    BY <1>1, <1>2 DEF Init, OnePlace, Apart

-----------------------------------------------------------------------------
(* What is known of an entry, by the place it is in.                        *)

FaultsIn(s, e) == {f \in s : f[1] = e}

\* Errors and candidates are recorded as inspect returns them, once.
Recorded ==
    /\ \A f \in faulty : f[1] \notin unvisited \cup Offered \cup Range(paths)
    /\ \A w \in Workers :
          /\ wpc[w] = "inspecting" => FaultsIn(faulty, held[w]) = {}
          /\ wpc[w] = "sending" => /\ FaultsIn(faulty, held[w]) = Blamed(held[w], wres[w].err)
                                   /\ wres[w].candidate => held[w] \in found
    /\ \A r \in Range(results) : /\ FaultsIn(faulty, r.file) = Blamed(r.file, r.err)
                                 /\ r.candidate => r.file \in found

LEMMA FaultAdded ==
    ASSUME NEW s, NEW x, NEW err
    PROVE  /\ FaultsIn(s \cup Blamed(x, err), x) = FaultsIn(s, x) \cup Blamed(x, err)
           /\ \A e : e # x => FaultsIn(s \cup Blamed(x, err), e) = FaultsIn(s, e)
<1>1. \A f \in Blamed(x, err) : f[1] = x
    BY DEF Blamed
<1>2. QED
    BY <1>1 DEF FaultsIn

\* Steps that meet no error and return no result of inspect.
LEMMA RecordsKept ==
    ASSUME Recorded, UNCHANGED <<faulty, found, wpc, held, wres, results>>,
           unvisited' \cup Offered' \cup Range(paths') \subseteq unvisited \cup Offered \cup Range(paths)
    PROVE  Recorded'
    BY DEF Recorded

LEMMA RecordedWalk == TypedInv /\ OnePlace /\ Recorded /\ Walk => Recorded'
<1> SUFFICES ASSUME TypedInv, OnePlace, Recorded, Walk PROVE Recorded'
    OBVIOUS
<1>1. ASSUME NEW x \in Entries, NEW err, WalkFault(x, err) PROVE Recorded'
    <2>1. /\ faulty' = faulty \cup Blamed(x, err) /\ unvisited' = unvisited \ {x} /\ x \in unvisited
          /\ UNCHANGED <<offer, paths, found, wpc, held, wres, results>>
        BY <1>1 DEF WalkFault, WalkReaches, workerVars
    <2>2. /\ x \notin Offered /\ x \notin Range(paths) /\ x \notin Hands /\ x \notin Queued
        BY <2>1 DEF OnePlace, Apart
    <2>3. \A f \in faulty' : f[1] \notin unvisited' \cup Offered' \cup Range(paths')
        BY <2>1, <2>2 DEF Recorded, Blamed, Offered
    <2>4. \A e : e # x => FaultsIn(faulty', e) = FaultsIn(faulty, e)
        BY <2>1, FaultAdded
    <2>5. \A w \in Workers : wpc[w] \in {"inspecting", "sending"} => held[w] # x
        BY <2>2 DEF Hands, TypedInv, HoldersHold
    <2>6. \A r \in Range(results) : r.file # x
        BY <2>2 DEF Queued
    <2>7. QED
        BY <2>1, <2>3, <2>4, <2>5, <2>6 DEF Recorded
<1>2. ASSUME NEW x \in Entries, WalkOffer(x) PROVE Recorded'
    <2>1. Offered' \subseteq {x} /\ unvisited' \subseteq unvisited /\ x \in unvisited /\ paths' = paths
        BY <1>2 DEF WalkOffer, WalkReaches, Offered
    <2>2. QED
        BY <1>2, <2>1, RecordsKept DEF WalkOffer, workerVars, history
<1>3. ASSUME NEW x \in Entries, WalkSkip(x) PROVE Recorded'
    BY <1>3, RecordsKept DEF WalkSkip, workerVars, Offered
<1>4. CASE WalkSend
    <2>1. paths \in Seq(Entries) /\ offer \in Entries /\ offer \in Offered
        BY <1>4, EntriesAssumption DEF WalkSend, TypedInv, TypeOK, HoldersHold, Offered
    <2>2. Range(paths') = Range(paths) \cup {offer} /\ Offered' = {} /\ unvisited' = unvisited
        BY <1>4, <2>1, RangeOfAppend DEF WalkSend, Offered
    <2>3. QED
        BY <1>4, <2>1, <2>2, RecordsKept DEF WalkSend, workerVars, history
<1>5. CASE WalkAbandon \/ WalkInterrupted \/ WalkUnresolved \/ WalkFinish \/ ClosePaths
    <2>1. Offered' \subseteq Offered
        BY <1>5 DEF WalkAbandon, WalkInterrupted, WalkUnresolved, WalkFinish, ClosePaths, Offered
    <2>2. QED
        BY <1>5, <2>1, RecordsKept
        DEF WalkAbandon, WalkInterrupted, WalkUnresolved, WalkFinish, ClosePaths, workerVars, history
<1>6. QED
    BY <1>1, <1>2, <1>3, <1>4, <1>5 DEF Walk

LEMMA RecordedWorker ==
    ASSUME TypedInv, OnePlace, Recorded, NEW w \in Workers, Worker(w)
    PROVE  Recorded'
<1>0. /\ wpc \in [Workers -> {"idle", "inspecting", "sending", "done"}]
      /\ held \in [Workers -> Entries \cup {NoEntry}] /\ wres \in [Workers -> AnyOutcome]
      /\ paths \in Seq(Entries) /\ results \in Seq(ResultType)
    BY DEF TypedInv, TypeOK, ResultType
<1>1. CASE WorkerStart(w)
    <2>1. /\ paths # <<>> /\ paths' = Tail(paths) /\ held' = [held EXCEPT ![w] = Head(paths)]
          /\ wpc' = [wpc EXCEPT ![w] = "inspecting"]
          /\ UNCHANGED <<unvisited, offer, wres, results, found, faulty>>
        BY <1>1 DEF WorkerStart, walkVars, history
    <2>2. Head(paths) \in Range(paths) /\ Range(paths') \subseteq Range(paths)
        BY <1>0, <2>1, RangeOfTail
    <2>3. FaultsIn(faulty, Head(paths)) = {}
        BY <2>2 DEF Recorded, FaultsIn
    <2>4. \A v \in Workers : IF v = w THEN wpc'[v] = "inspecting" /\ held'[v] = Head(paths)
                             ELSE wpc'[v] = wpc[v] /\ held'[v] = held[v]
        BY <1>0, <2>1
    <2>5. \A v \in Workers : /\ wpc'[v] = "inspecting" => FaultsIn(faulty, held'[v]) = {}
                             /\ wpc'[v] = "sending" =>
                                    /\ FaultsIn(faulty, held'[v]) = Blamed(held'[v], wres[v].err)
                                    /\ wres[v].candidate => held'[v] \in found
        BY <2>3, <2>4 DEF Recorded
    <2>6. \A f \in faulty : f[1] \notin unvisited' \cup Offered' \cup Range(paths')
        BY <2>1, <2>2 DEF Recorded, Offered
    <2>7. QED
        BY <2>1, <2>5, <2>6 DEF Recorded
<1>2. CASE WorkerQuit(w)
    <2>1. /\ paths # <<>> /\ paths' = Tail(paths) /\ wpc' = [wpc EXCEPT ![w] = "done"]
          /\ UNCHANGED <<unvisited, offer, held, wres, results, found, faulty>>
        BY <1>2 DEF WorkerQuit, walkVars, history
    <2>2. Range(paths') \subseteq Range(paths)
        BY <1>0, <2>1, RangeOfTail
    <2>3. \A v \in Workers : IF v = w THEN wpc'[v] = "done" ELSE wpc'[v] = wpc[v]
        BY <1>0, <2>1
    <2>4. QED
        BY <2>1, <2>2, <2>3 DEF Recorded, Offered
<1>3. CASE WorkerInspect(w)
    <2>1. PICK o \in Outcomes :
              /\ wres' = [wres EXCEPT ![w] = o]
              /\ found' = IF o.candidate THEN found \cup {held[w]} ELSE found
              /\ faulty' = faulty \cup Blamed(held[w], o.err)
        BY <1>3 DEF WorkerInspect
    <2>2. /\ wpc[w] = "inspecting" /\ wpc' = [wpc EXCEPT ![w] = "sending"]
          /\ UNCHANGED <<unvisited, offer, paths, held, results>> /\ held[w] \in Hands
        BY <1>3 DEF WorkerInspect, walkVars, TypedInv, HoldersHold, Hands
    <2> DEFINE x == held[w]
    <2>3. x \notin unvisited /\ x \notin Offered /\ x \notin Range(paths) /\ x \notin Queued
        BY <2>2 DEF OnePlace, Apart
    <2>4. /\ \A e : e # x => FaultsIn(faulty', e) = FaultsIn(faulty, e)
          /\ FaultsIn(faulty', x) = FaultsIn(faulty, x) \cup Blamed(x, o.err)
        BY <2>1, FaultAdded
    <2>5. FaultsIn(faulty, x) = {}
        BY <2>2 DEF Recorded
    <2>6. \A f \in faulty' : f[1] \notin unvisited' \cup Offered' \cup Range(paths')
        BY <2>1, <2>2, <2>3 DEF Recorded, Blamed, Offered
    <2>7. \A v \in Workers : IF v = w THEN wpc'[v] = "sending" /\ wres'[v] = o
                             ELSE wpc'[v] = wpc[v] /\ wres'[v] = wres[v]
        BY <1>0, <2>1, <2>2
    <2>8. \A v \in Workers : v # w /\ wpc[v] \in {"inspecting", "sending"} => held[v] # x
        BY <2>2 DEF OnePlace, TypedInv, HoldersHold
    <2>9. \A r \in Range(results) : r.file # x
        BY <2>3 DEF Queued
    <2>10. found \subseteq found' /\ (o.candidate => x \in found')
        BY <2>1
    <2> HIDE DEF x
    <2>11. held'[w] = x /\ held' = held /\ results' = results
        BY <2>2 DEF x
    <2>12. \A v \in Workers : /\ wpc'[v] = "inspecting" => FaultsIn(faulty', held[v]) = {}
                              /\ wpc'[v] = "sending" =>
                                     /\ FaultsIn(faulty', held[v]) = Blamed(held[v], wres'[v].err)
                                     /\ wres'[v].candidate => held[v] \in found'
        <3> SUFFICES ASSUME NEW v \in Workers
                     PROVE  /\ wpc'[v] = "inspecting" => FaultsIn(faulty', held[v]) = {}
                            /\ wpc'[v] = "sending" =>
                                   /\ FaultsIn(faulty', held[v]) = Blamed(held[v], wres'[v].err)
                                   /\ wres'[v].candidate => held[v] \in found'
            OBVIOUS
        <3>1. CASE v = w
            BY <2>4, <2>5, <2>7, <2>10, <2>11, <3>1
        <3>2. CASE v # w
            BY <2>4, <2>7, <2>8, <2>10, <3>2 DEF Recorded
        <3>3. QED
            BY <3>1, <3>2
    <2>13. \A r \in Range(results) : /\ FaultsIn(faulty', r.file) = Blamed(r.file, r.err)
                                     /\ r.candidate => r.file \in found'
        BY <2>4, <2>9, <2>10 DEF Recorded
    <2>14. QED
        BY <2>6, <2>11, <2>12, <2>13 DEF Recorded
<1>4. CASE WorkerSend(w)
    <2> DEFINE r == [file |-> held[w], candidate |-> wres[w].candidate, err |-> wres[w].err]
    <2>1. /\ wpc[w] = "sending" /\ wpc' = [wpc EXCEPT ![w] = "idle"] /\ results' = Append(results, r)
          /\ held' = [held EXCEPT ![w] = NoEntry] /\ UNCHANGED <<unvisited, offer, paths, wres, found, faulty>>
          /\ held[w] \in Entries
        BY <1>0, <1>4 DEF WorkerSend, walkVars, history, TypedInv, HoldersHold
    <2>2. r \in ResultType /\ r.file = held[w] /\ r.err = wres[w].err /\ r.candidate = wres[w].candidate
        BY <1>0, <2>1 DEF ResultType, AnyOutcome
    <2>3. /\ FaultsIn(faulty, held[w]) = Blamed(held[w], wres[w].err)
          /\ wres[w].candidate => held[w] \in found
        BY <2>1 DEF Recorded
    <2> HIDE DEF r
    <2>4. Range(results') = Range(results) \cup {r}
        BY <1>0, <2>1, <2>2, RangeOfAppend
    <2>5. \A v \in Workers : IF v = w THEN wpc'[v] = "idle" ELSE wpc'[v] = wpc[v] /\ held'[v] = held[v]
        BY <1>0, <2>1
    <2>6. \A q \in Range(results') : /\ FaultsIn(faulty, q.file) = Blamed(q.file, q.err)
                                     /\ q.candidate => q.file \in found
        BY <2>2, <2>3, <2>4 DEF Recorded
    <2>7. QED
        BY <2>1, <2>5, <2>6 DEF Recorded, Offered
<1>5. CASE WorkerAbandon(w)
    <2>1. /\ wpc' = [wpc EXCEPT ![w] = "done"] /\ held' = [held EXCEPT ![w] = NoEntry]
          /\ UNCHANGED <<unvisited, offer, paths, wres, results, found, faulty>>
        BY <1>5 DEF WorkerAbandon, walkVars, history
    <2>2. \A v \in Workers : IF v = w THEN wpc'[v] = "done" ELSE wpc'[v] = wpc[v] /\ held'[v] = held[v]
        BY <1>0, <2>1
    <2>3. QED
        BY <2>1, <2>2 DEF Recorded, Offered
<1>6. CASE WorkerExit(w)
    <2>1. /\ wpc' = [wpc EXCEPT ![w] = "done"]
          /\ UNCHANGED <<unvisited, offer, paths, held, wres, results, found, faulty>>
        BY <1>6 DEF WorkerExit, walkVars, history
    <2>2. \A v \in Workers : IF v = w THEN wpc'[v] = "done" ELSE wpc'[v] = wpc[v]
        BY <1>0, <2>1
    <2>3. QED
        BY <2>1, <2>2 DEF Recorded, Offered
<1>7. QED
    BY <1>1, <1>2, <1>3, <1>4, <1>5, <1>6 DEF Worker

LEMMA RecordedNext == TypedInv /\ OnePlace /\ Recorded /\ [Next]_vars => Recorded'
<1> SUFFICES ASSUME TypedInv, OnePlace, Recorded, [Next]_vars PROVE Recorded'
    OBVIOUS
<1>1. CASE CollectNothing \/ CollectWrite \/ CollectFault
    <2>1. /\ results # <<>> /\ results' = Tail(results)
          /\ UNCHANGED <<unvisited, offer, paths, wpc, held, wres, found, faulty>>
        BY <1>1 DEF CollectNothing, CollectWrite, CollectFault, walkVars, workerVars, history
    <2>2. Range(results') \subseteq Range(results)
        BY <2>1, ResultTaken
    <2>3. UNCHANGED <<unvisited, offer, paths, wpc, held, wres, found, faulty>>
        BY <2>1
    <2>4. QED
        BY <2>2, <2>3 DEF Recorded, Offered
<1>2. CASE CloseResults \/ ParentCancel \/ Return
    BY <1>2, RecordsKept DEF CloseResults, ParentCancel, Return, walkVars, workerVars, history, Offered
<1>3. CASE UNCHANGED vars
    BY <1>3, RecordsKept DEF vars, walkVars, workerVars, history, Offered
<1>4. QED
    BY <1>1, <1>2, <1>3, RecordedWalk, RecordedWorker DEF Next, Collect, Terminated

LEMMA RecordedInit == Init => Recorded
    BY RangeOfEmpty DEF Init, Recorded

-----------------------------------------------------------------------------
(* What Scan counts.                                                        *)

\* The count Stats keeps of a class of errors.
ErrorCount(s, c) == IF c = "denied" THEN s.permissionErrors ELSE s.errors

\* The errors of a class whose entry has been accounted for.
SettledFaults(c) == {f \in faulty : f[2] = c /\ f[1] \in settled}

\* A record is written for an entry that is settled in the same step, so it is
\* never written twice; an error is counted when its entry is settled.
Counting ==
    /\ InventoryCounted
    /\ Range(inventory) \subseteq settled
    /\ ~fatal => \A c \in ErrorClasses : ErrorCount(stats, c) = Cardinality(SettledFaults(c))

\* Counting an error adds one to the count of its class, and to no other.
LEMMA CountedFields ==
    ASSUME NEW s \in StatsType, NEW err \in {"none", "denied", "other"}
    PROVE  /\ Counted(s, err).scanned = s.scanned
           /\ Counted(s, err).candidates = s.candidates
           /\ \A c \in ErrorClasses :
                 ErrorCount(Counted(s, err), c) = ErrorCount(s, c) + IF err = c THEN 1 ELSE 0
    BY DEF Counted, StatsType, ErrorCount, ErrorClasses

\* The errors met are finitely many.
LEMMA FaultsFinite ==
    ASSUME TypedInv, NEW c
    PROVE  IsFiniteSet(SettledFaults(c))
<1>1. IsFiniteSet(ErrorClasses)
    <2>1. ErrorClasses = ({} \cup {"denied"}) \cup {"other"}
        BY DEF ErrorClasses
    <2>2. IsFiniteSet({} \cup {"denied"})
        BY FS_EmptySet, FS_AddElement
    <2>3. QED
        BY <2>1, <2>2, FS_AddElement
<1>2. IsFiniteSet(Entries \X ErrorClasses)
    BY <1>1, EntriesAssumption, FS_Product
<1>3. SettledFaults(c) \in SUBSET (Entries \X ErrorClasses)
    BY DEF TypedInv, TypeOK, SettledFaults
<1>4. QED
    BY <1>2, <1>3, FS_Subset

\* Settling an entry counts the errors met on it.
LEMMA SettlingCounts ==
    ASSUME TypedInv, NEW x, NEW err \in {"none", "denied", "other"},
           x \notin settled, settled' = settled \cup {x},
           faulty \subseteq faulty', FaultsIn(faulty', x) = Blamed(x, err),
           \A f \in faulty' : f[1] # x => f \in faulty,
           \A c \in ErrorClasses :
               ErrorCount(stats', c) = ErrorCount(stats, c) + IF err = c THEN 1 ELSE 0,
           \A c \in ErrorClasses : ErrorCount(stats, c) = Cardinality(SettledFaults(c))
    PROVE  \A c \in ErrorClasses : ErrorCount(stats', c) = Cardinality(SettledFaults(c)')
<1> SUFFICES ASSUME NEW c \in ErrorClasses
             PROVE  ErrorCount(stats', c) = Cardinality(SettledFaults(c)')
    OBVIOUS
<1>1. SettledFaults(c)' = {f \in faulty' : f[2] = c /\ f[1] \in settled'}
    BY DEF SettledFaults
<1>2. \A f \in faulty' : f[1] = x <=> f \in Blamed(x, err)
    BY DEF FaultsIn, Blamed
<1>3. CASE err = c
    <2>1. Blamed(x, err) = {<<x, c>>} /\ <<x, c>> \notin SettledFaults(c)
        BY <1>3 DEF Blamed, SettledFaults
    <2>2. SettledFaults(c)' = SettledFaults(c) \cup {<<x, c>>}
        BY <1>1, <1>2, <2>1 DEF SettledFaults, FaultsIn
    <2>3. Cardinality(SettledFaults(c)') = Cardinality(SettledFaults(c)) + 1
        BY <2>1, <2>2, FaultsFinite, FS_AddElement
    <2>4. QED
        BY <1>3, <2>3
<1>4. CASE err # c
    <2>1. \A f \in Blamed(x, err) : f[2] # c
        BY <1>4 DEF Blamed
    <2>2. SettledFaults(c)' = SettledFaults(c)
        BY <1>1, <1>2, <2>1 DEF SettledFaults
    <2>3. ErrorCount(stats, c) \in Int
        BY DEF TypedInv, TypeOK, StatsType, ErrorCount
    <2>4. QED
        BY <1>4, <2>2, <2>3
<1>5. QED
    BY <1>3, <1>4

\* Steps that settle nothing: the errors they meet are of entries in transit.
LEMMA CountsKept ==
    ASSUME Counting, UNCHANGED <<inventory, settled>>, found \subseteq found', fatal => fatal',
           faulty \subseteq faulty', \A f \in faulty' : f \in faulty \/ f[1] \notin settled,
           stats'.candidates = stats.candidates,
           \A c \in ErrorClasses : ErrorCount(stats', c) = ErrorCount(stats, c)
    PROVE  Counting'
<1>1. \A c \in ErrorClasses : SettledFaults(c)' = SettledFaults(c)
    BY DEF SettledFaults
<1>2. InventoryCounted' /\ Range(inventory') \subseteq settled'
    BY DEF Counting, InventoryCounted
<1>3. ~fatal' => \A c \in ErrorClasses : ErrorCount(stats', c) = Cardinality(SettledFaults(c)')
    BY <1>1 DEF Counting
<1>4. QED
    BY <1>2, <1>3 DEF Counting

LEMMA CountingWalk == TypedInv /\ OnePlace /\ Recorded /\ Counting /\ Walk => Counting'
<1> SUFFICES ASSUME TypedInv, OnePlace, Recorded, Counting, Walk PROVE Counting'
    OBVIOUS
<1>0. stats \in StatsType /\ Apart(unvisited, Offered, Range(paths), Hands, Queued, settled)
    BY DEF TypedInv, TypeOK, OnePlace
<1>1. ASSUME NEW x \in Entries, NEW err \in {"none", "denied", "other"}, x \in unvisited,
             settled' = settled \cup {x}, faulty' = faulty \cup Blamed(x, err),
             stats' = Counted(stats, err), UNCHANGED <<inventory, found, fatal>>
      PROVE  Counting'
    <2>1. x \notin settled
        BY <1>0, <1>1 DEF Apart
    <2>2. FaultsIn(faulty, x) = {}
        BY <1>1 DEF Recorded, FaultsIn
    <2>3. /\ FaultsIn(faulty', x) = Blamed(x, err)
          /\ \A f \in faulty' : f[1] # x => f \in faulty
        <3>1. \A f \in Blamed(x, err) : f[1] = x
            BY DEF Blamed
        <3>2. FaultsIn(faulty', x) = FaultsIn(faulty, x) \cup Blamed(x, err)
            BY <1>1, FaultAdded
        <3>3. FaultsIn(faulty', x) = Blamed(x, err)
            BY <2>2, <3>2
        <3>4. QED
            BY <1>1, <3>1, <3>3
    <2>4. /\ stats'.candidates = stats.candidates
          /\ \A c \in ErrorClasses :
                 ErrorCount(stats', c) = ErrorCount(stats, c) + IF err = c THEN 1 ELSE 0
        BY <1>0, <1>1, CountedFields
    <2>5. ~fatal => \A c \in ErrorClasses : ErrorCount(stats', c) = Cardinality(SettledFaults(c)')
        BY <1>1, <2>1, <2>3, <2>4, SettlingCounts DEF Counting
    <2>6. InventoryCounted' /\ Range(inventory') \subseteq settled'
        BY <1>1, <2>4 DEF Counting, InventoryCounted
    <2>7. QED
        BY <1>1, <2>5, <2>6 DEF Counting
<1>2. ASSUME NEW x \in Entries, NEW err \in ErrorClasses, WalkFault(x, err) PROVE Counting'
    BY <1>1, <1>2 DEF WalkFault, WalkReaches, ErrorClasses, collectorVars
<1>3. ASSUME NEW x \in Entries, WalkSkip(x) PROVE Counting'
    <2>1. Blamed(x, "none") = {} /\ Counted(stats, "none") = stats
        BY DEF Blamed, Counted, ErrorClasses
    <2>2. /\ x \in unvisited /\ settled' = settled \cup {x}
          /\ UNCHANGED <<faulty, stats, inventory, found, fatal>>
        BY <1>3 DEF WalkSkip, WalkReaches, collectorVars
    <2>3. faulty' = faulty \cup Blamed(x, "none") /\ stats' = Counted(stats, "none")
        BY <2>1, <2>2
    <2>4. QED
        BY <1>1, <2>2, <2>3
<1>4. CASE \/ \E x \in Entries : WalkOffer(x)
           \/ WalkSend \/ WalkAbandon \/ WalkInterrupted \/ WalkUnresolved \/ WalkFinish \/ ClosePaths
    BY <1>4, CountsKept
    DEF WalkOffer, WalkSend, WalkAbandon, WalkInterrupted, WalkUnresolved, WalkFinish, ClosePaths,
        collectorVars, history
<1>5. QED
    BY <1>2, <1>3, <1>4 DEF Walk

LEMMA CountingWorker ==
    ASSUME TypedInv, OnePlace, Counting, NEW w \in Workers, Worker(w)
    PROVE  Counting'
<1>1. CASE WorkerInspect(w)
    <2>1. PICK o \in Outcomes :
              /\ found' = IF o.candidate THEN found \cup {held[w]} ELSE found
              /\ faulty' = faulty \cup Blamed(held[w], o.err)
        BY <1>1 DEF WorkerInspect
    <2>2. held[w] \in Hands
        BY <1>1 DEF WorkerInspect, TypedInv, HoldersHold, Hands
    <2>3. held[w] \notin settled
        BY <2>2 DEF OnePlace, Apart
    <2>4. \A f \in faulty' : f \in faulty \/ f[1] \notin settled
        BY <2>1, <2>3 DEF Blamed
    <2>5. QED
        BY <1>1, <2>1, <2>4, CountsKept DEF WorkerInspect, collectorVars
<1>2. CASE WorkerStart(w)
    <2>1. stats' = [stats EXCEPT !.scanned = @ + 1] /\ stats \in StatsType
        BY <1>2 DEF WorkerStart, TypedInv, TypeOK
    <2>2. /\ stats'.candidates = stats.candidates
          /\ \A c \in ErrorClasses : ErrorCount(stats', c) = ErrorCount(stats, c)
        BY <2>1 DEF StatsType, ErrorCount
    <2>3. QED
        BY <1>2, <2>2, CountsKept DEF WorkerStart, collectorVars, history
<1>3. CASE WorkerQuit(w) \/ WorkerSend(w) \/ WorkerAbandon(w) \/ WorkerExit(w)
    BY <1>3, CountsKept
    DEF WorkerQuit, WorkerSend, WorkerAbandon, WorkerExit, collectorVars, history
<1>4. QED
    BY <1>1, <1>2, <1>3 DEF Worker

LEMMA CountingCollect ==
    TypedInv /\ OnePlace /\ Recorded /\ Counting /\ Collect => Counting'
<1> SUFFICES ASSUME TypedInv, OnePlace, Recorded, Counting, Collect PROVE Counting'
    OBVIOUS
<1>0. stats \in StatsType /\ inventory \in Seq(Entries)
    BY DEF TypedInv, TypeOK
<1> DEFINE r == Head(results)
<1>1. ASSUME results # <<>>, results' = Tail(results)
      PROVE  /\ r.file \in Entries /\ r.err \in {"none", "denied", "other"}
             /\ r.file \notin settled
             /\ FaultsIn(faulty, r.file) = Blamed(r.file, r.err)
             /\ r.candidate => r.file \in found
    <2>1. r \in ResultType /\ r \in Range(results) /\ r.file \in Queued
        BY <1>1, ResultTaken
    <2>2. r.file \notin settled
        BY <2>1 DEF OnePlace, Apart
    <2>3. FaultsIn(faulty, r.file) = Blamed(r.file, r.err) /\ (r.candidate => r.file \in found)
        BY <2>1 DEF Recorded
    <2>4. QED
        BY <2>1, <2>2, <2>3 DEF ResultType
<1> HIDE DEF r
<1>2. ASSUME results # <<>>, results' = Tail(results), settled' = settled \cup {r.file},
             UNCHANGED <<faulty, fatal>>,
             \A c \in ErrorClasses : ErrorCount(stats', c) = ErrorCount(Counted(stats, r.err), c)
      PROVE  ~fatal => \A c \in ErrorClasses : ErrorCount(stats', c) = Cardinality(SettledFaults(c)')
    <2>1. \A c \in ErrorClasses :
              ErrorCount(stats', c) = ErrorCount(stats, c) + IF r.err = c THEN 1 ELSE 0
        BY <1>0, <1>1, <1>2, CountedFields
    <2>2. FaultsIn(faulty', r.file) = Blamed(r.file, r.err) /\ faulty' = faulty
        BY <1>1, <1>2
    <2>3. QED
        BY <1>1, <1>2, <2>1, <2>2, SettlingCounts DEF Counting
<1>3. CASE CollectNothing
    <2>1. /\ results # <<>> /\ results' = Tail(results) /\ stats' = Counted(stats, r.err)
          /\ settled' = settled \cup {r.file} /\ UNCHANGED <<faulty, fatal, inventory, found>>
        BY <1>3 DEF CollectNothing, r
    <2>2. stats'.candidates = stats.candidates
        BY <1>0, <1>1, <2>1, CountedFields
    <2>3. InventoryCounted' /\ Range(inventory') \subseteq settled'
        BY <2>1, <2>2 DEF Counting, InventoryCounted
    <2>4. QED
        BY <1>2, <2>1, <2>3 DEF Counting
<1>4. CASE CollectWrite
    <2>1. /\ results # <<>> /\ results' = Tail(results) /\ r.candidate
          /\ inventory' = Append(inventory, r.file)
          /\ stats' = [Counted(stats, r.err) EXCEPT !.candidates = @ + 1]
          /\ settled' = settled \cup {r.file} /\ UNCHANGED <<faulty, fatal, found>>
        BY <1>4 DEF CollectWrite, r
    <2>2. r.file \in Entries /\ r.file \notin settled /\ r.file \in found
        BY <1>1, <2>1
    <2>3. /\ Counted(stats, r.err) \in StatsType /\ Counted(stats, r.err).candidates = stats.candidates
        BY <1>0, <1>1, <2>1, CountedType, CountedFields
    <2>4. /\ stats'.candidates = stats.candidates + 1
          /\ \A c \in ErrorClasses : ErrorCount(stats', c) = ErrorCount(Counted(stats, r.err), c)
        BY <2>1, <2>3 DEF StatsType, ErrorCount
    <2>5. Range(inventory') = Range(inventory) \cup {r.file} /\ Len(inventory') = Len(inventory) + 1
        BY <1>0, <2>1, <2>2, RangeOfAppend
    <2>6. Range(inventory) \in SUBSET Entries
        BY <2>2 DEF Counting, InventoryCounted, TypedInv, TypeOK
    <2>7. IsFiniteSet(Range(inventory))
        BY <2>6, EntriesAssumption, FS_Subset
    <2>8. r.file \notin Range(inventory)
        BY <2>2 DEF Counting
    <2>9. Cardinality(Range(inventory')) = Cardinality(Range(inventory)) + 1
        BY <2>5, <2>7, <2>8, FS_AddElement
    <2>10. InventoryCounted' /\ Range(inventory') \subseteq settled'
        BY <2>1, <2>2, <2>4, <2>5, <2>9 DEF Counting, InventoryCounted
    <2>11. QED
        BY <1>2, <2>1, <2>4, <2>10 DEF Counting
<1>5. CASE CollectFault
    <2>1. /\ results # <<>> /\ results' = Tail(results) /\ stats' = Counted(stats, r.err)
          /\ fatal' /\ UNCHANGED <<settled, faulty, inventory, found>>
        BY <1>5 DEF CollectFault, r, history
    <2>2. stats'.candidates = stats.candidates
        BY <1>0, <1>1, <2>1, CountedFields
    <2>3. QED
        BY <2>1, <2>2 DEF Counting, InventoryCounted
<1>6. CASE Return
    BY <1>6, CountsKept DEF Return, history
<1>7. QED
    BY <1>3, <1>4, <1>5, <1>6 DEF Collect

LEMMA CountingNext == TypedInv /\ OnePlace /\ Recorded /\ Counting /\ [Next]_vars => Counting'
<1> SUFFICES ASSUME TypedInv, OnePlace, Recorded, Counting, [Next]_vars PROVE Counting'
    OBVIOUS
<1>1. CASE CloseResults \/ ParentCancel
    BY <1>1, CountsKept DEF CloseResults, ParentCancel, collectorVars, history
<1>2. CASE UNCHANGED vars
    BY <1>2, CountsKept DEF vars, collectorVars, history
<1>3. QED
    BY <1>1, <1>2, CountingWalk, CountingWorker, CountingCollect DEF Next, Terminated

LEMMA CountingInit == Init => Counting
<1> SUFFICES ASSUME Init PROVE Counting
    OBVIOUS
<1>1. Range(inventory) = {} /\ Len(inventory) = 0 /\ Cardinality({}) = 0
    BY RangeOfEmpty, FS_EmptySet, EmptySeq DEF Init
<1>a. stats.candidates = 0
    BY DEF Init, NoStats
<1>2. InventoryCounted /\ Range(inventory) \subseteq settled
    BY <1>1, <1>a DEF InventoryCounted
<1>3. \A c \in ErrorClasses : ErrorCount(stats, c) = 0 /\ SettledFaults(c) = {}
    BY DEF Init, NoStats, ErrorCount, SettledFaults
<1>4. QED
    BY <1>1, <1>2, <1>3 DEF Counting

\* At the return of a scan that succeeded every entry is settled, so every
\* error met has been counted.
LEMMA CountedAtReturn == ScanInvariant /\ Counting => CountsExact
<1> SUFFICES ASSUME ScanInvariant, Counting, ret = "ok" PROVE FaultsCounted
    BY DEF CountsExact, FaultsCounted, Counting
<1>1. ~fatal /\ settled = Entries
    BY DEF ScanInvariant, FailureNamesItsCause, CompleteOnSuccess
<1>2. \A c : SettledFaults(c) = {f \in faulty : f[2] = c}
    BY <1>1 DEF SettledFaults, ScanInvariant, TypeOK
<1>3. \A c \in ErrorClasses : ErrorCount(stats, c) = Cardinality({f \in faulty : f[2] = c})
    BY <1>1, <1>2 DEF Counting
<1>4. "denied" \in ErrorClasses /\ "other" \in ErrorClasses
    BY DEF ErrorClasses
<1>5. QED
    BY <1>3, <1>4 DEF FaultsCounted, ErrorCount

\* The Stats that Scan returns agree with the inventory, whatever happened,
\* and with the errors met when it succeeded, for any number of workers.
THEOREM Exact == Spec => []CountsExact
<1>1. ScanInvariant => TypedInv
    BY DEF ScanInvariant, TypedInv
<1>2. Init => OnePlace /\ Recorded /\ Counting
    BY PlaceInit, RecordedInit, CountingInit
<1>3. ScanInvariant /\ (OnePlace /\ Recorded /\ Counting) /\ [Next]_vars
          => (OnePlace /\ Recorded /\ Counting)'
    BY <1>1, PlaceNext, RecordedNext, CountingNext
<1>4. QED
    BY <1>2, <1>3, InvariantHolds, CountedAtReturn, PTL DEF Spec

-----------------------------------------------------------------------------
(* What a progress report may say.                                          *)

\* The workers that hold a file already counted as scanned.
Busy == {w \in Workers : wpc[w] \in {"inspecting", "sending"}}

\* A file scanned is with one worker, in one result, or behind: the candidates
\* are never ahead of it, and so no report of them is.
Ahead == /\ stats.candidates + Cardinality(Busy) + Len(results) <= stats.scanned
         /\ ProgressHonest

\* Counters that only grow.
Grown == /\ stats.scanned <= stats'.scanned
         /\ stats.candidates <= stats'.candidates
         /\ stats.permissionErrors <= stats'.permissionErrors
         /\ stats.errors <= stats'.errors

LEMMA BusyFinite ==
    /\ IsFiniteSet(Busy) /\ Cardinality(Busy) \in Nat
    /\ Cardinality(Busy') \in Nat
<1>1. Busy \in SUBSET Workers /\ Busy' \in SUBSET Workers
    BY DEF Busy
<1>2. QED
    BY <1>1, WorkersAssumption, FS_Subset, FS_CardinalityType

\* A worker that takes a file, and one that is rid of it.
LEMMA BusyMoves ==
    ASSUME NEW w \in Workers, wpc \in [Workers -> {"idle", "inspecting", "sending", "done"}],
           NEW p \in {"idle", "inspecting", "sending", "done"},
           wpc' = [wpc EXCEPT ![w] = p]
    PROVE  /\ wpc[w] = "idle" /\ p = "inspecting" => Cardinality(Busy') = Cardinality(Busy) + 1
           /\ wpc[w] = "sending" /\ p \in {"idle", "done"} => Cardinality(Busy') = Cardinality(Busy) - 1
           /\ wpc[w] = "inspecting" /\ p = "sending" => Busy' = Busy
           /\ wpc[w] = "idle" /\ p = "done" => Busy' = Busy
<1>1. Busy' = {v \in Workers : wpc'[v] \in {"inspecting", "sending"}}
    BY DEF Busy
<1>2. \A v \in Workers : wpc'[v] = IF v = w THEN p ELSE wpc[v]
    OBVIOUS
<1>3. ASSUME wpc[w] = "idle", p = "inspecting"
      PROVE  Cardinality(Busy') = Cardinality(Busy) + 1
    <2>1. w \notin Busy /\ Busy' = Busy \cup {w}
        BY <1>1, <1>2, <1>3 DEF Busy
    <2>2. QED
        BY <2>1, BusyFinite, FS_AddElement
<1>4. ASSUME wpc[w] = "sending", p \in {"idle", "done"}
      PROVE  Cardinality(Busy') = Cardinality(Busy) - 1
    <2>1. w \in Busy /\ Busy' = Busy \ {w}
        BY <1>1, <1>2, <1>4 DEF Busy
    <2>2. QED
        BY <2>1, BusyFinite, FS_RemoveElement
<1>5. ASSUME (wpc[w] = "inspecting" /\ p = "sending") \/ (wpc[w] = "idle" /\ p = "done")
      PROVE  Busy' = Busy
    BY <1>1, <1>2, <1>5 DEF Busy
<1>6. QED
    BY <1>3, <1>4, <1>5

\* A report copies the counters or leaves the last report as it was.
LEMMA ReportHonest ==
    ASSUME TypedInv, TypedInv', ProgressHonest, Grown,
           snapshot' \in {snapshot, stats'}, stats'.candidates <= stats'.scanned
    PROVE  ProgressHonest'
<1>1. stats \in StatsType /\ stats' \in StatsType /\ snapshot \in StatsType /\ snapshot' \in StatsType
    BY DEF TypedInv, TypeOK
<1>2. \A s \in StatsType : DOMAIN s = {"scanned", "candidates", "permissionErrors", "errors"}
    BY DEF StatsType
<1>3. \A c \in DOMAIN stats : stats[c] <= stats'[c]
    BY <1>1, <1>2 DEF Grown
<1>4. \A c \in DOMAIN stats : stats[c] \in Int /\ stats'[c] \in Int /\ snapshot[c] \in Int
    BY <1>1, <1>2 DEF StatsType
<1>5. CASE snapshot' = snapshot
    <2>1. \A c \in DOMAIN snapshot' : snapshot'[c] <= stats'[c]
        BY <1>1, <1>2, <1>3, <1>4, <1>5 DEF ProgressHonest
    <2>2. QED
        BY <1>5, <2>1 DEF ProgressHonest
<1>6. CASE snapshot' = stats'
    <2>1. \A c \in DOMAIN snapshot' : snapshot'[c] <= stats'[c]
        BY <1>1, <1>2, <1>4, <1>6
    <2>2. QED
        BY <1>6, <2>1 DEF ProgressHonest
<1>7. QED
    BY <1>5, <1>6

\* Steps that report nothing and move no file out of a worker or a result.
LEMMA AheadKept ==
    ASSUME TypedInv, TypedInv', Ahead, Grown, snapshot' \in {snapshot, stats'},
           stats'.candidates + Cardinality(Busy') + Len(results') <= stats'.scanned
    PROVE  Ahead'
<1>1. stats'.candidates \in Nat /\ stats'.scanned \in Nat
    BY DEF TypedInv, TypeOK, StatsType
<1>2. Cardinality(Busy') \in Nat
    BY BusyFinite
<1>3. Len(results') \in Nat
    BY LenProperties DEF TypedInv, TypeOK
<1>4. stats'.candidates <= stats'.scanned
    BY <1>1, <1>2, <1>3
<1>5. QED
    BY <1>4, ReportHonest DEF Ahead

\* Counting an error only adds.
LEMMA CountedGrows ==
    ASSUME NEW s \in StatsType, NEW err
    PROVE  /\ Counted(s, err).scanned = s.scanned /\ Counted(s, err).candidates = s.candidates
           /\ s.permissionErrors <= Counted(s, err).permissionErrors
           /\ s.errors <= Counted(s, err).errors
           /\ Counted(s, err) \in StatsType
    BY DEF Counted, StatsType

\* A candidate is counted only from a result, and a result only follows a file
\* counted as scanned.
LEMMA AheadNext == TypedInv /\ Ahead /\ [Next]_vars => Ahead'
<1> SUFFICES ASSUME TypedInv, Ahead, [Next]_vars PROVE Ahead'
    OBVIOUS
<1>0. /\ TypedInv' /\ stats \in StatsType
      /\ wpc \in [Workers -> {"idle", "inspecting", "sending", "done"}]
      /\ results \in Seq(ResultType) /\ Len(results) \in Nat /\ Cardinality(Busy) \in Nat
      /\ stats.candidates + Cardinality(Busy) + Len(results) <= stats.scanned
    BY TypedNext, BusyFinite, LenProperties DEF TypedInv, TypeOK, ResultType, Ahead
<1>t. /\ stats.scanned \in Nat /\ stats.candidates \in Nat
      /\ stats.permissionErrors \in Nat /\ stats.errors \in Nat
    BY <1>0 DEF StatsType
<1>1. ASSUME UNCHANGED stats PROVE Grown
    BY <1>t, <1>1 DEF Grown
<1>2. ASSUME UNCHANGED <<stats, snapshot, wpc, results>> PROVE Ahead'
    <2>1. Busy' = Busy
        BY <1>2 DEF Busy
    <2>2. QED
        BY <1>0, <1>1, <1>2, <2>1, AheadKept
<1>3. CASE Walk
    <2>1. ASSUME NEW x \in Entries, NEW err \in ErrorClasses, WalkFault(x, err) PROVE Ahead'
        <3>1. stats' = Counted(stats, err) /\ UNCHANGED <<snapshot, wpc, results>>
            BY <2>1 DEF WalkFault, workerVars, collectorVars
        <3>2. Grown /\ stats'.candidates = stats.candidates /\ stats'.scanned = stats.scanned
            BY <1>0, <1>t, <3>1, CountedGrows DEF Grown
        <3>3. Busy' = Busy
            BY <3>1 DEF Busy
        <3>4. QED
            BY <1>0, <3>1, <3>2, <3>3, AheadKept
    <2>2. QED
        BY <1>2, <1>3, <2>1
        DEF Walk, WalkOffer, WalkSkip, WalkSend, WalkAbandon, WalkInterrupted, WalkUnresolved,
            WalkFinish, ClosePaths, workerVars, collectorVars, history
<1>4. ASSUME NEW w \in Workers, Worker(w) PROVE Ahead'
    <2>1. CASE WorkerStart(w)
        <3>1. /\ stats' = [stats EXCEPT !.scanned = @ + 1] /\ UNCHANGED <<snapshot, results>>
              /\ wpc[w] = "idle" /\ wpc' = [wpc EXCEPT ![w] = "inspecting"]
            BY <2>1 DEF WorkerStart, collectorVars
        <3>2. /\ stats'.scanned = stats.scanned + 1 /\ stats'.candidates = stats.candidates
              /\ stats'.permissionErrors = stats.permissionErrors /\ stats'.errors = stats.errors
            BY <1>0, <3>1 DEF StatsType
        <3>3. Grown
            BY <1>t, <3>2 DEF Grown
        <3>4. Cardinality(Busy') = Cardinality(Busy) + 1
            BY <1>0, <3>1, BusyMoves
        <3>5. stats'.candidates + Cardinality(Busy') + Len(results') <= stats'.scanned
            BY <1>0, <1>t, <3>1, <3>2, <3>4
        <3>6. QED
            BY <1>0, <3>1, <3>3, <3>5, AheadKept
    <2>2. CASE WorkerInspect(w) \/ WorkerQuit(w) \/ WorkerExit(w)
        <3>1. /\ UNCHANGED <<stats, snapshot, results>>
              /\ \/ wpc[w] = "inspecting" /\ wpc' = [wpc EXCEPT ![w] = "sending"]
                 \/ wpc[w] = "idle" /\ wpc' = [wpc EXCEPT ![w] = "done"]
            BY <2>2 DEF WorkerInspect, WorkerQuit, WorkerExit, collectorVars
        <3>2. Busy' = Busy
            BY <1>0, <3>1, BusyMoves
        <3>3. QED
            BY <1>0, <1>1, <3>1, <3>2, AheadKept
    <2>3. CASE WorkerSend(w) \/ WorkerAbandon(w)
        <3>1. /\ UNCHANGED <<stats, snapshot>> /\ wpc[w] = "sending"
              /\ \E p \in {"idle", "done"} : wpc' = [wpc EXCEPT ![w] = p]
              /\ Len(results') <= Len(results) + 1
            BY <1>0, <2>3 DEF WorkerSend, WorkerAbandon, collectorVars
        <3>2. Cardinality(Busy') = Cardinality(Busy) - 1
            BY <1>0, <3>1, BusyMoves
        <3>3. Len(results') \in Nat
            BY <1>0, LenProperties DEF TypedInv, TypeOK
        <3>4. stats'.candidates + Cardinality(Busy') + Len(results') <= stats'.scanned
            BY <1>0, <1>t, <3>1, <3>2, <3>3
        <3>5. QED
            BY <1>0, <1>1, <3>1, <3>4, AheadKept
    <2>4. QED
        BY <1>4, <2>1, <2>2, <2>3 DEF Worker
<1>5. CASE CollectNothing \/ CollectWrite \/ CollectFault
    <2>1. /\ results # <<>> /\ results' = Tail(results) /\ UNCHANGED wpc
          /\ snapshot' \in {snapshot, stats'}
          /\ \/ stats' = Counted(stats, Head(results).err)
             \/ stats' = [Counted(stats, Head(results).err) EXCEPT !.candidates = @ + 1]
        BY <1>5 DEF CollectNothing, CollectWrite, CollectFault, ReportProgress, workerVars
    <2> DEFINE s == Counted(stats, Head(results).err)
    <2>2. /\ s.scanned = stats.scanned /\ s.candidates = stats.candidates /\ s \in StatsType
          /\ stats.permissionErrors <= s.permissionErrors /\ stats.errors <= s.errors
        BY <1>0, CountedGrows
    <2>3. stats' = s \/ stats' = [s EXCEPT !.candidates = @ + 1]
        BY <2>1
    <2> HIDE DEF s
    <2>4. /\ stats'.scanned = s.scanned /\ stats'.candidates \in {s.candidates, s.candidates + 1}
          /\ stats'.permissionErrors = s.permissionErrors /\ stats'.errors = s.errors
        BY <2>2, <2>3 DEF StatsType
    <2>5. Grown
        BY <1>t, <2>2, <2>4 DEF Grown
    <2>6. Len(results') = Len(results) - 1
        BY <1>0, <2>1, HeadTailProperties
    <2>7. Busy' = Busy
        BY <2>1 DEF Busy
    <2>8. stats'.candidates + Cardinality(Busy') + Len(results') <= stats'.scanned
        BY <1>0, <1>t, <2>2, <2>4, <2>6, <2>7
    <2>9. QED
        BY <1>0, <2>1, <2>5, <2>8, AheadKept
<1>6. CASE CloseResults \/ ParentCancel \/ Return
    BY <1>2, <1>6 DEF CloseResults, ParentCancel, Return, workerVars, collectorVars
<1>7. CASE UNCHANGED vars
    BY <1>2, <1>7 DEF vars, workerVars, collectorVars
<1>8. QED
    BY <1>3, <1>4, <1>5, <1>6, <1>7 DEF Next, Collect, Terminated

LEMMA AheadInit == Init => Ahead
<1> SUFFICES ASSUME Init PROVE Ahead
    OBVIOUS
<1>1. Busy = {} /\ Cardinality({}) = 0 /\ Len(results) = 0
    BY FS_EmptySet, EmptySeq DEF Init, Busy
<1>2. /\ stats.candidates = 0 /\ stats.scanned = 0 /\ stats = snapshot
      /\ DOMAIN stats = {"scanned", "candidates", "permissionErrors", "errors"}
      /\ \A c \in DOMAIN stats : stats[c] = 0
    BY DEF Init, NoStats
<1>3. QED
    BY <1>1, <1>2 DEF Ahead, ProgressHonest

\* No progress report names more candidates than scanned files, nor more of
\* anything than the counters hold by then, however many workers race.
THEOREM Honest == Spec => []ProgressHonest
<1>1. ScanInvariant => TypedInv
    BY DEF ScanInvariant, TypedInv
<1>2. Ahead => ProgressHonest
    BY DEF Ahead
<1>3. QED
    BY <1>1, <1>2, AheadInit, AheadNext, InvariantHolds, PTL DEF Spec

-----------------------------------------------------------------------------
(* Scan implements CandidateInventory.                                      *)

\* The steps of the goroutines that settle nothing and return nothing.
LEMMA InventoryKept ==
    ASSUME UNCHANGED <<settled, inventory, ret>>
    PROVE  UNCHANGED Inventory!vars
    BY DEF Inventory!vars, ScanStatus

\* An entry settled by the walker or by the collector was settled by neither
\* before, and Scan returns nil only once every entry is.
LEMMA InventoryNext ==
    ScanInvariant /\ OnePlace /\ [Next]_vars => [Inventory!Next]_(Inventory!vars)
<1> SUFFICES ASSUME ScanInvariant, OnePlace, [Next]_vars
             PROVE  [Inventory!Next]_(Inventory!vars)
    OBVIOUS
<1>0. TypedInv /\ ShutdownOrder /\ ScanInvariant'
    BY InvariantNext DEF ScanInvariant, TypedInv
<1>1. ASSUME NEW x \in Entries, x \notin settled, settled' = settled \cup {x},
             ret = "running", ret' = ret,
             inventory' \in {inventory, Append(inventory, x)}
      PROVE  Inventory!Next
    <2>1. ScanStatus = "open" /\ ScanStatus' = ScanStatus
        BY <1>1 DEF ScanStatus
    <2>2. CASE inventory' = inventory
        BY <1>1, <2>1, <2>2 DEF Inventory!Next, Inventory!Settle
    <2>3. CASE inventory' = Append(inventory, x)
        BY <1>1, <2>1, <2>3 DEF Inventory!Next, Inventory!Record
    <2>4. QED
        BY <1>1, <2>2, <2>3
<1>2. CASE Walk
    <2>1. ASSUME NEW x \in Entries,
                 WalkSkip(x) \/ \E err \in ErrorClasses : WalkFault(x, err)
          PROVE  Inventory!Next
        <3>1. /\ x \in unvisited /\ settled' = settled \cup {x} /\ walker = "walking"
              /\ UNCHANGED <<inventory, ret>>
            BY <2>1 DEF WalkSkip, WalkFault, WalkReaches, collectorVars
        <3>2. x \notin settled
            BY <3>1 DEF OnePlace, Apart
        <3>3. ret = "running"
            BY <1>0, <3>1 DEF ShutdownOrder
        <3>4. QED
            BY <1>1, <3>1, <3>2, <3>3
    <2>2. QED
        BY <1>2, <2>1, InventoryKept
        DEF Walk, WalkOffer, WalkSend, WalkAbandon, WalkInterrupted, WalkUnresolved, WalkFinish,
            ClosePaths, collectorVars, history
<1>3. ASSUME NEW w \in Workers, Worker(w) PROVE UNCHANGED Inventory!vars
    BY <1>3, InventoryKept
    DEF Worker, WorkerStart, WorkerQuit, WorkerInspect, WorkerSend, WorkerAbandon, WorkerExit,
        collectorVars, history
<1>4. CASE CollectNothing \/ CollectWrite
    <2>1. /\ results # <<>> /\ results' = Tail(results) /\ ret = "running" /\ ret' = ret
          /\ settled' = settled \cup {Head(results).file}
          /\ inventory' \in {inventory, Append(inventory, Head(results).file)}
        BY <1>4 DEF CollectNothing, CollectWrite
    <2>2. Head(results) \in ResultType /\ Head(results).file \in Queued
        BY <1>0, <2>1, ResultTaken
    <2>3. Head(results).file \in Entries /\ Head(results).file \notin settled
        BY <2>2 DEF ResultType, OnePlace, Apart
    <2>4. QED
        BY <1>1, <2>1, <2>3
<1>5. CASE Return
    <2>1. ret = "running" /\ UNCHANGED <<settled, inventory>>
        BY <1>5 DEF Return, history
    <2>2. ScanStatus = "open"
        BY <2>1 DEF ScanStatus
    <2>3. ret' # "running"
        BY <1>5 DEF Return, ScanError, ScanInvariant, TypeOK
    <2>4. CASE ret' = "ok"
        <3>1. settled = Entries /\ ScanStatus' = "complete"
            BY <1>0, <2>1, <2>4 DEF ScanInvariant, CompleteOnSuccess, ScanStatus
        <3>2. QED
            BY <2>1, <2>2, <3>1 DEF Inventory!Next, Inventory!Finish, Inventory!Complete
    <2>5. CASE ret' # "ok"
        <3>1. ScanStatus' = "stopped"
            BY <2>3, <2>5 DEF ScanStatus
        <3>2. QED
            BY <2>1, <2>2, <3>1 DEF Inventory!Next, Inventory!Finish, Inventory!Stop
    <2>6. QED
        BY <2>4, <2>5
<1>6. CASE CollectFault \/ CloseResults \/ ParentCancel \/ UNCHANGED vars
    BY <1>6, InventoryKept DEF CollectFault, CloseResults, ParentCancel, vars, collectorVars, history
<1>7. QED
    BY <1>2, <1>3, <1>4, <1>5, <1>6 DEF Next, Collect, Terminated

LEMMA InventoryInit == Init => Inventory!Init
    BY DEF Init, Inventory!Init, ScanStatus

\* Scan, whatever its workers do, is a CandidateInventory as far as safety goes:
\* it settles an entry once, records it as it settles it, and is complete only
\* with every entry settled.
THEOREM IsInventory == Spec => Inventory!Init /\ [][Inventory!Next]_(Inventory!vars)
<1>1. ScanInvariant => TypedInv
    BY DEF ScanInvariant, TypedInv
<1>2. QED
    BY <1>1, PlaceInit, PlaceNext, InventoryInit, InventoryNext, InvariantHolds, PTL DEF Spec
=============================================================================
