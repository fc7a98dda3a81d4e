---------------------------- MODULE ExtractProofs ----------------------------
(***************************************************************************)
(* Proofs about Extract, for any number of processes and calls, any bodies, *)
(* any directory to begin with and any failure, kill and loss of power:     *)
(* artifacts hold what their names say, results tell the truth, one call    *)
(* only is told its image is new, no staging file stays, and the directory  *)
(* is a write-once store.                                                   *)
(***************************************************************************)
EXTENDS Extract, TLAPS

RawTemp(p) == TempName(p, "raw")
DecodedTemp(p) == TempName(p, "decoded")

\* The states of a call in which it installs.
Installing == {"link", "unlink", "hash"}

\* A file of the directory whose bytes are those.
Holds(n, c) == n \in DOMAIN dir /\ dir[n].content = c
HoldsSafely(n, c) == Holds(n, c) /\ dir[n].durable

\* What decodeRaw has written, and that it was all of it.
DecodedSoFar(j) == /\ Decoding[j.raw] # Corrupt
                   /\ j.decoded = CappedAt(ReaderCap, Decoding[j.raw])
                   /\ j.written = WrittenOf(ReaderCap, Decoding[j.raw])
DecodedWhole(j) == IF j.coding = "coded" THEN DecodedSoFar(j) /\ ~TooLarge(j.written)
                   ELSE j.decoded = j.raw

\* What is known of an image once its type is.
TruthfulImage(j) == /\ j.decoded = IF j.coding = "coded" THEN Decoding[j.raw] ELSE j.raw
                    /\ j.type = Type[j.decoded] /\ j.type # "none"
                    /\ j.coding = "coded" => Size[j.decoded] <= Limit

\* The local variables of a call, by how far it has come.
LocalsFit(where, j) ==
    /\ where \in {"copy", "encodings"} => j.stage = "raw"
    /\ where \in {"chain", "decode"} => j.stage = "decoded"
    /\ j.stage = "decoded" => j.coding = "coded"
    /\ where \in {"detect"} \cup Installing =>
           (j.coding = "identity" /\ j.stage = "raw") \/ (j.coding = "coded" /\ j.stage = "decoded")
    /\ j.artifact = "raw" => j.coding = "coded"
    /\ where = "sync" /\ j.stage = "decoded" => DecodedSoFar(j)
    /\ where = "detect" => DecodedWhole(j)
    /\ where \in Installing \/ j.ok => TruthfulImage(j)
    /\ where \notin Installing \cup {"cleaning"} => j.artifact = "image" /\ ~j.dedup
    /\ where # "cleaning" => ~j.ok
    /\ j.ok /\ j.coding = "coded" => j.artifact = "raw"
    /\ j.ok => j.coding # "unsupported"

\* The staging files of a call hold what it thinks they do, and are on the disk
\* before they are linked.
RawStaged(where, j) == \/ where \in {"sync", "encodings", "chain", "decode", "detect"} \cup Installing
                       \/ where = "create" /\ j.stage = "decoded"
DecodedStaged(where, j) == /\ j.stage = "decoded"
                           /\ \/ where \in {"sync", "detect"}
                              \/ where \in Installing /\ j.artifact = "image"

TempsFit(p) ==
    LET j == job[p]
    IN /\ RawStaged(pc[p], j) =>
              /\ Holds(RawTemp(p), j.raw)
              /\ (pc[p] = "sync" /\ j.stage = "raw") \/ dir[RawTemp(p)].durable
       /\ DecodedStaged(pc[p], j) =>
              /\ Holds(DecodedTemp(p), j.decoded)
              /\ pc[p] = "sync" \/ dir[DecodedTemp(p)].durable

\* Which artifacts a call has installed or found.
ImageIn(where, j) == where = "unlink" \/ (where \in Installing /\ j.artifact = "raw") \/ j.ok
RawIn(where, j) == j.artifact = "raw" /\ (where = "unlink" \/ j.ok)

TargetsFit(p) ==
    LET j == job[p]
    IN /\ ImageIn(pc[p], j) => Holds(ImageName(j.decoded, j.type), j.decoded)
       /\ RawIn(pc[p], j) => Holds(RawName(j.raw), j.raw)
       /\ pc[p] = "hash" => TargetOf(j) \in DOMAIN dir

CallInv(p) == /\ pc[p] # "idle" => runs[p] # 0
              /\ LocalsFit(pc[p], job[p])
              /\ TempsFit(p)
              /\ TargetsFit(p)

\* Every artifact has reached the disk, and those extraction put there hold what
\* their names say.
ArtifactsFit == \A n \in Artifacts : dir[n].durable /\ (n \notin DOMAIN InitialDir => Matches(n, dir[n].content))

ExtractInv == TypeOK /\ ArtifactsFit /\ \A p \in Procs : CallInv(p)

-----------------------------------------------------------------------------
(* Names.                                                                   *)

LEMMA TempsDiffer ==
    ASSUME NEW p \in Procs, NEW q \in Procs, NEW s \in Stages, NEW t \in Stages,
           TempName(p, s) = TempName(q, t)
    PROVE  p = q /\ s = t
    BY DEF TempName

LEMMA TempsAreTemps ==
    ASSUME TypeOK, NEW p \in Procs, runs[p] # 0, NEW s \in Stages
    PROVE  TempName(p, s) \in TempNames
<1>1. runs[p] \in 1 .. MaxRuns
    BY DEF TypeOK
<1>2. QED
    BY <1>1 DEF TempName, TempNames

LEMMA NoTempIsArtifact == TempNames \cap ArtifactNames = {}
<1>1. \A n \in TempNames : n[1] = "temp"
    BY DEF TempNames
<1>2. \A n \in ArtifactNames : n[1] \in {"image", "raw"}
    BY DEF ArtifactNames, ImageName, RawName
<1>3. QED
    BY <1>1, <1>2

LEMMA TargetIsArtifact ==
    ASSUME NEW j \in JobType, j.artifact = "raw" \/ j.type # "none"
    PROVE  TargetOf(j) \in ArtifactNames
    BY DEF TargetOf, ArtifactNames, JobType

-----------------------------------------------------------------------------
(* What a step leaves alone.                                                *)

\* A step of p is one of no other process, and changes no file but those p has
\* staged in this call.
Alone(p) == \A q \in Procs \ {p} : pc'[q] = pc[q] /\ job'[q] = job[q] /\ runs'[q] = runs[q]
Spares(p) == \A n \in DOMAIN dir :
                 n \notin {RawTemp(p), DecodedTemp(p)} => n \in DOMAIN dir' /\ dir'[n] = dir[n]
LeavesAlone(p) == dir' = dir \/ (runs[p] # 0 /\ Spares(p))
InstallsNothing == DOMAIN dir' \cap ArtifactNames \subseteq DOMAIN dir

LEMMA WithoutIs ==
    ASSUME NEW d, NEW S
    PROVE  /\ DOMAIN Without(d, S) = DOMAIN d \ S
           /\ \A m \in DOMAIN d \ S : Without(d, S)[m] = d[m]
    BY DEF Without, Restrict

LEMMA WithFileIs ==
    ASSUME NEW d, NEW n, NEW c, NEW b
    PROVE  DOMAIN WithFile(d, n, c, b) = DOMAIN d \cup {n}
    BY DEF WithFile

LEMMA GotoIs ==
    ASSUME TypeOK, NEW p \in Procs, NEW where \in PCs, NEW j \in JobType, Goto(p, where, j)
    PROVE  /\ pc' \in [Procs -> PCs] /\ job' \in [Procs -> JobType]
           /\ pc'[p] = where /\ job'[p] = j
           /\ \A q \in Procs \ {p} : pc'[q] = pc[q] /\ job'[q] = job[q]
    BY DEF Goto, TypeOK

LEMMA ArtifactsKept ==
    ASSUME ExtractInv, NEW p \in Procs, LeavesAlone(p), InstallsNothing
    PROVE  ArtifactsFit'
<1> SUFFICES ASSUME NEW n \in Artifacts'
             PROVE  dir'[n].durable /\ (n \notin DOMAIN InitialDir => Matches(n, dir'[n].content))
    BY DEF ArtifactsFit
<1>1. n \in Artifacts
    BY DEF Artifacts, InstallsNothing
<1>2. runs[p] # 0 => n \notin {RawTemp(p), DecodedTemp(p)}
    BY <1>1, TempsAreTemps, NoTempIsArtifact DEF Artifacts, RawTemp, DecodedTemp, Stages, ExtractInv
<1>3. dir'[n] = dir[n]
    BY <1>1, <1>2 DEF LeavesAlone, Spares, Artifacts
<1>4. QED
    BY <1>1, <1>3 DEF ExtractInv, ArtifactsFit

LEMMA OthersKept ==
    ASSUME ExtractInv, NEW p \in Procs, Alone(p), LeavesAlone(p)
    PROVE  \A q \in Procs \ {p} : CallInv(q)'
<1> SUFFICES ASSUME NEW q \in Procs, q # p PROVE CallInv(q)'
    OBVIOUS
<1>1. pc'[q] = pc[q] /\ job'[q] = job[q] /\ runs'[q] = runs[q] /\ job[q] \in JobType
    BY DEF Alone, ExtractInv, TypeOK
<1>2. RawTemp(q)' = RawTemp(q) /\ DecodedTemp(q)' = DecodedTemp(q)
    BY <1>1 DEF RawTemp, DecodedTemp, TempName
<1>3. \A n \in {RawTemp(q), DecodedTemp(q)} \cup ArtifactNames :
          n \in DOMAIN dir => n \in DOMAIN dir' /\ dir'[n] = dir[n]
    <2>1. runs[p] # 0 => RawTemp(p) \in TempNames /\ DecodedTemp(p) \in TempNames
        BY TempsAreTemps DEF RawTemp, DecodedTemp, Stages, ExtractInv
    <2>2. {RawTemp(q), DecodedTemp(q)} \cap {RawTemp(p), DecodedTemp(p)} = {}
        BY TempsDiffer DEF RawTemp, DecodedTemp, Stages
    <2>3. QED
        BY <2>1, <2>2, NoTempIsArtifact DEF LeavesAlone, Spares
<1>4. CallInv(q)
    BY DEF ExtractInv
<1>5. TempsFit(q)'
    BY <1>1, <1>2, <1>3, <1>4 DEF CallInv, TempsFit, Holds
<1>6. ImageIn(pc[q], job[q]) => ImageName(job[q].decoded, job[q].type) \in ArtifactNames
    BY <1>1, <1>4 DEF CallInv, LocalsFit, ImageIn, Installing, TruthfulImage, JobType, ArtifactNames
<1>7. RawName(job[q].raw) \in ArtifactNames
    BY <1>1 DEF JobType, ArtifactNames
<1>8. pc[q] = "hash" => TargetOf(job[q]) \in ArtifactNames
    BY <1>1, <1>4, TargetIsArtifact DEF CallInv, LocalsFit, Installing, TruthfulImage
<1>9. TargetsFit(q)'
    BY <1>1, <1>3, <1>4, <1>6, <1>7, <1>8 DEF CallInv, TargetsFit, Holds
<1>10. QED
    BY <1>1, <1>4, <1>5, <1>9 DEF CallInv

-----------------------------------------------------------------------------
(* The steps of a call, except for Link.                                    *)

\* What such a step keeps.
Kept(p) == TypeOK' /\ CallInv(p)' /\ Alone(p) /\ LeavesAlone(p) /\ InstallsNothing

\* Steps that touch no file, and those that write one of the staging files.
LEMMA NoFileTouched ==
    ASSUME dir' = dir, NEW p \in Procs
    PROVE  LeavesAlone(p) /\ InstallsNothing
    BY DEF LeavesAlone, InstallsNothing

LEMMA TempWritten ==
    ASSUME ExtractInv, NEW p \in Procs, runs[p] # 0, NEW s \in Stages, NEW c \in Contents, NEW b \in BOOLEAN,
           dir' = WithFile(dir, TempName(p, s), c, b)
    PROVE  /\ LeavesAlone(p) /\ InstallsNothing
           /\ DOMAIN dir' \subseteq TempNames \cup ArtifactNames
           /\ \A n \in DOMAIN dir' : dir'[n] \in FileType
           /\ TempName(p, s) \in DOMAIN dir'
           /\ dir'[TempName(p, s)] = [content |-> c, durable |-> b]
           /\ \A t \in Stages \ {s} : TempName(p, t) \in DOMAIN dir =>
                  TempName(p, t) \in DOMAIN dir' /\ dir'[TempName(p, t)] = dir[TempName(p, t)]
<1>1. TempName(p, s) \in TempNames
    BY TempsAreTemps DEF ExtractInv
<1>2. DOMAIN dir' = DOMAIN dir \cup {TempName(p, s)}
      /\ dir'[TempName(p, s)] = [content |-> c, durable |-> b]
      /\ \A m \in DOMAIN dir \ {TempName(p, s)} : dir'[m] = dir[m]
    BY DEF WithFile
<1>3. TempName(p, s) \in {RawTemp(p), DecodedTemp(p)}
    BY DEF Stages, RawTemp, DecodedTemp
<1>4. LeavesAlone(p) /\ InstallsNothing
    BY <1>1, <1>2, <1>3, NoTempIsArtifact DEF LeavesAlone, Spares, InstallsNothing
<1>5. [content |-> c, durable |-> b] \in FileType
    BY DEF FileType
<1>6. \A t \in Stages \ {s} : TempName(p, t) # TempName(p, s)
    BY TempsDiffer
<1>7. QED
    BY <1>1, <1>2, <1>4, <1>5, <1>6 DEF ExtractInv, TypeOK

\* An active call is one of those counted.
LEMMA ActiveRuns ==
    ASSUME ExtractInv, NEW p \in Procs, pc[p] # "idle"
    PROVE  runs[p] # 0 /\ runs[p] \in 1 .. MaxRuns
    BY DEF ExtractInv, CallInv, TypeOK

LEMMA RefuseKeeps == ASSUME ExtractInv, NEW p \in Procs, Refuse(p) PROVE Kept(p)
<1>1. runs' \in [Procs -> 0 .. MaxRuns] /\ runs'[p] = runs[p] + 1
      /\ \A q \in Procs \ {p} : runs'[q] = runs[q]
    BY LimitAssumption DEF Refuse, ExtractInv, TypeOK
<1>2. TypeOK' /\ Alone(p)
    BY <1>1 DEF Refuse, ExtractInv, TypeOK, Alone
<1>3. CallInv(p)'
    BY <1>1 DEF Refuse, ExtractInv, CallInv, TypeOK, LocalsFit, Installing, TempsFit, TargetsFit,
       RawStaged, DecodedStaged, ImageIn, RawIn
<1>4. QED
    BY <1>2, <1>3, NoFileTouched DEF Refuse, Kept

LEMMA NoJobTyped == NoJob \in JobType
    BY ContentsAssumption DEF NoJob, JobType, Stages

LEMMA BeginKeeps == ASSUME ExtractInv, NEW p \in Procs, Begin(p) PROVE Kept(p)
<1>1. runs' \in [Procs -> 0 .. MaxRuns] /\ runs'[p] = runs[p] + 1 /\ runs'[p] # 0
      /\ \A q \in Procs \ {p} : runs'[q] = runs[q]
    BY LimitAssumption DEF Begin, ExtractInv, TypeOK
<1>2. PICK b \in Bodies : Goto(p, "create", [NoJob EXCEPT !.coding = b.coding, !.body = b.raw])
    BY DEF Begin
<1> DEFINE j == [NoJob EXCEPT !.coding = b.coding, !.body = b.raw]
<1>3. /\ j \in JobType /\ "create" \in PCs /\ j.stage = "raw" /\ j.artifact = "image"
      /\ ~j.ok /\ ~j.dedup
    BY BodiesAssumption, ContentsAssumption, NoJobTyped DEF NoJob, JobType, PCs, Stages
<1> HIDE DEF j
<1>4. /\ pc' \in [Procs -> PCs] /\ job' \in [Procs -> JobType]
      /\ pc'[p] = "create" /\ job'[p] = j
      /\ \A q \in Procs \ {p} : pc'[q] = pc[q] /\ job'[q] = job[q]
    BY <1>2, <1>3, GotoIs DEF ExtractInv, j
<1>5. TypeOK' /\ Alone(p)
    BY <1>1, <1>4 DEF Begin, ExtractInv, TypeOK, Alone
<1>6. CallInv(p)'
    BY <1>1, <1>3, <1>4 DEF CallInv, LocalsFit, Installing, TempsFit, TargetsFit,
       RawStaged, DecodedStaged, ImageIn, RawIn
<1>7. QED
    BY <1>5, <1>6, NoFileTouched DEF Begin, Kept

\* A call that moves on within its run: what is to be shown of it.
LEMMA MovesOn ==
    ASSUME ExtractInv, NEW p \in Procs, pc[p] # "idle", runs' = runs, excused' = excused,
           NEW where \in PCs, NEW j \in JobType, Goto(p, where, j), LocalsFit(where, j)
    PROVE  /\ pc' \in [Procs -> PCs] /\ job' \in [Procs -> JobType] /\ Alone(p)
           /\ pc'[p] = where /\ job'[p] = j
           /\ RawTemp(p)' = RawTemp(p) /\ DecodedTemp(p)' = DecodedTemp(p)
           /\ TempsFit(p)' /\ TargetsFit(p)' => CallInv(p)'
<1>1. /\ pc' \in [Procs -> PCs] /\ job' \in [Procs -> JobType]
      /\ pc'[p] = where /\ job'[p] = j
      /\ \A q \in Procs \ {p} : pc'[q] = pc[q] /\ job'[q] = job[q]
    BY GotoIs DEF ExtractInv
<1>2. Alone(p)
    BY <1>1 DEF Alone
<1>3. runs'[p] # 0
    BY ActiveRuns
<1>4. RawTemp(p)' = RawTemp(p) /\ DecodedTemp(p)' = DecodedTemp(p)
    BY DEF RawTemp, DecodedTemp, TempName
<1>5. QED
    BY <1>1, <1>2, <1>3, <1>4 DEF CallInv

\* A call that gives up, wherever it stands, asks nothing of the directory.
LEMMA GivesUp ==
    ASSUME ExtractInv, NEW p \in Procs, pc[p] \notin {"idle", "cleaning"}, runs' = runs, excused' = excused,
           \/ Fail(p) 
           \/ \E call \in {"create", "write", "sync", "open", "link", "remove"} : FailBy(p, call)
    PROVE  /\ pc' \in [Procs -> PCs] /\ job' \in [Procs -> JobType] /\ Alone(p)
           /\ CallInv(p)'
<1>1. job[p] \in JobType /\ LocalsFit(pc[p], job[p]) /\ ~job[p].ok
    BY DEF ExtractInv, TypeOK, CallInv, LocalsFit
<1>2. PICK j \in {job[p], [job[p] EXCEPT !.fault = TRUE]} : Goto(p, "cleaning", j)
    BY DEF Fail, FailBy
<1>3. j \in JobType /\ LocalsFit("cleaning", j) /\ ~j.ok
    BY <1>1 DEF JobType, LocalsFit, Installing
<1>4. "cleaning" \in PCs
    BY DEF PCs
<1>5. pc'[p] = "cleaning" /\ job'[p] = j
    BY <1>2, <1>3, <1>4, MovesOn
<1>6. TempsFit(p)' /\ TargetsFit(p)'
    BY <1>3, <1>5 DEF TempsFit, TargetsFit, RawStaged, DecodedStaged, ImageIn, RawIn, Installing
<1>7. QED
    BY <1>2, <1>3, <1>4, <1>6, MovesOn

\* The same, for a step that touches no file.
LEMMA GivesUpQuietly ==
    ASSUME ExtractInv, NEW p \in Procs, pc[p] \notin {"idle", "cleaning"},
           UNCHANGED <<dir, runs, results, excused>>,
           \/ Fail(p) 
           \/ \E call \in {"create", "write", "sync", "open", "link", "remove"} : FailBy(p, call)
    PROVE  Kept(p)
<1>1. /\ pc' \in [Procs -> PCs] /\ job' \in [Procs -> JobType] /\ Alone(p)
      /\ CallInv(p)'
    BY GivesUp
<1>2. TypeOK'
    BY <1>1 DEF ExtractInv, TypeOK
<1>3. QED
    BY <1>1, <1>2, NoFileTouched DEF Kept

\* A step that goes on and touches no file.
LEMMA QuietStep ==
    ASSUME ExtractInv, NEW p \in Procs, pc[p] # "idle", UNCHANGED <<dir, runs, results, excused>>,
           NEW where \in PCs, NEW j \in JobType, Goto(p, where, j), LocalsFit(where, j)
    PROVE  /\ pc'[p] = where /\ job'[p] = j
           /\ RawTemp(p)' = RawTemp(p) /\ DecodedTemp(p)' = DecodedTemp(p)
           /\ TempsFit(p)' /\ TargetsFit(p)' => Kept(p)
<1>1. /\ pc' \in [Procs -> PCs] /\ job' \in [Procs -> JobType] /\ Alone(p)
      /\ pc'[p] = where /\ job'[p] = j
      /\ RawTemp(p)' = RawTemp(p) /\ DecodedTemp(p)' = DecodedTemp(p)
      /\ TempsFit(p)' /\ TargetsFit(p)' => CallInv(p)'
    BY MovesOn
<1>2. TypeOK'
    BY <1>1 DEF ExtractInv, TypeOK
<1>3. QED
    BY <1>1, <1>2, NoFileTouched DEF Kept

\* A write that fails leaves something in the staging file, and ends the call.
LEMMA WritingFails ==
    ASSUME ExtractInv, NEW p \in Procs, pc[p] \notin {"idle", "cleaning"}, UNCHANGED <<runs, results, excused>>,
           NEW s \in Stages, dir' = WithFile(dir, TempName(p, s), Partial, FALSE),
           Fail(p) \/ FailBy(p, "write")
    PROVE  Kept(p)
<1>1. /\ pc' \in [Procs -> PCs] /\ job' \in [Procs -> JobType] /\ Alone(p)
      /\ CallInv(p)'
    BY GivesUp
<1>2. /\ LeavesAlone(p) /\ InstallsNothing
      /\ DOMAIN dir' \subseteq TempNames \cup ArtifactNames
      /\ \A n \in DOMAIN dir' : dir'[n] \in FileType
    BY ActiveRuns, TempWritten, ContentsAssumption
<1>3. TypeOK'
    BY <1>1, <1>2 DEF ExtractInv, TypeOK
<1>4. QED
    BY <1>1, <1>2, <1>3 DEF Kept

LEMMA CreateKeeps == ASSUME ExtractInv, NEW p \in Procs, Create(p) PROVE Kept(p)
<1>1. CASE FailBy(p, "create") /\ UNCHANGED dir
    BY <1>1, GivesUpQuietly DEF Create
<1>2. CASE /\ dir' = WithFile(dir, TempName(p, job[p].stage), Empty, FALSE)
           /\ Goto(p, IF job[p].stage = "raw" THEN "copy" ELSE "decode", job[p])
    <2> DEFINE where == IF job[p].stage = "raw" THEN "copy" ELSE "decode"
    <2>1. /\ pc[p] = "create" /\ runs' = runs /\ excused' = excused
          /\ job[p] \in JobType /\ job[p].stage \in Stages /\ CallInv(p)
        BY DEF Create, ExtractInv, TypeOK, JobType
    <2>2. /\ LeavesAlone(p) /\ InstallsNothing
          /\ DOMAIN dir' \subseteq TempNames \cup ArtifactNames
          /\ \A n \in DOMAIN dir' : dir'[n] \in FileType
          /\ \A t \in Stages \ {job[p].stage} : TempName(p, t) \in DOMAIN dir =>
                 TempName(p, t) \in DOMAIN dir' /\ dir'[TempName(p, t)] = dir[TempName(p, t)]
        BY <1>2, <2>1, ActiveRuns, TempWritten, ContentsAssumption
    <2>3. where \in PCs /\ LocalsFit(where, job[p])
        BY <2>1 DEF PCs, CallInv, LocalsFit, Installing, Stages
    <2>4. /\ pc' \in [Procs -> PCs] /\ job' \in [Procs -> JobType] /\ Alone(p)
          /\ pc'[p] = where /\ job'[p] = job[p]
          /\ RawTemp(p)' = RawTemp(p) /\ DecodedTemp(p)' = DecodedTemp(p)
          /\ TempsFit(p)' /\ TargetsFit(p)' => CallInv(p)'
        BY <1>2, <2>1, <2>3, MovesOn
    <2>5. TempsFit(p)'
        BY <2>1, <2>2, <2>4 DEF CallInv, TempsFit, Holds, RawStaged, DecodedStaged, Installing, RawTemp, Stages
    <2>6. TargetsFit(p)'
        BY <2>1, <2>4 DEF CallInv, LocalsFit, TargetsFit, ImageIn, RawIn, Installing
    <2>7. TypeOK'
        BY <2>1, <2>2, <2>4 DEF ExtractInv, TypeOK
    <2>8. QED
        BY <2>2, <2>4, <2>5, <2>6, <2>7 DEF Kept
<1>3. QED
    BY <1>1, <1>2 DEF Create

LEMMA CopyRawKeeps == ASSUME ExtractInv, NEW p \in Procs, CopyRaw(p) PROVE Kept(p)
<1>1. /\ pc[p] = "copy" /\ runs' = runs /\ excused' = excused
      /\ job[p] \in JobType /\ CallInv(p) /\ "raw" \in Stages
    BY DEF CopyRaw, ExtractInv, TypeOK, Stages
<1>2. CASE FailBy(p, "write") /\ dir' = WithFile(dir, TempName(p, "raw"), Partial, FALSE)
    BY <1>1, <1>2, WritingFails DEF CopyRaw
<1>3. ASSUME NEW c \in Copied(p), dir' = WithFile(dir, TempName(p, "raw"), c, FALSE),
             Goto(p, "sync", [job[p] EXCEPT !.raw = c])
      PROVE  Kept(p)
    <2> DEFINE j == [job[p] EXCEPT !.raw = c]
    <2>1. c \in Contents
        BY <1>1 DEF Copied, JobType
    <2>2. j \in JobType /\ j.raw = c /\ j.stage = "raw" /\ j.artifact = "image" /\ ~j.ok /\ ~j.dedup
        BY <1>1, <2>1 DEF JobType, CallInv, LocalsFit, Installing
    <2>3. "sync" \in PCs /\ LocalsFit("sync", j) /\ Goto(p, "sync", j)
        BY <1>3, <2>2 DEF PCs, LocalsFit, Installing
    <2> HIDE DEF j
    <2>4. /\ LeavesAlone(p) /\ InstallsNothing
          /\ DOMAIN dir' \subseteq TempNames \cup ArtifactNames
          /\ \A n \in DOMAIN dir' : dir'[n] \in FileType
          /\ TempName(p, "raw") \in DOMAIN dir'
          /\ dir'[TempName(p, "raw")] = [content |-> c, durable |-> FALSE]
        BY <1>1, <1>3, <2>1, ActiveRuns, TempWritten
    <2>5. /\ pc' \in [Procs -> PCs] /\ job' \in [Procs -> JobType] /\ Alone(p)
          /\ pc'[p] = "sync" /\ job'[p] = j /\ RawTemp(p)' = RawTemp(p)
          /\ TempsFit(p)' /\ TargetsFit(p)' => CallInv(p)'
        BY <1>1, <2>2, <2>3, MovesOn
    <2>6. TempsFit(p)'
        BY <2>2, <2>4, <2>5 DEF TempsFit, Holds, RawStaged, DecodedStaged, Installing, RawTemp
    <2>7. TargetsFit(p)'
        BY <2>2, <2>5 DEF TargetsFit, ImageIn, RawIn, Installing
    <2>8. TypeOK'
        BY <1>1, <2>4, <2>5 DEF ExtractInv, TypeOK
    <2>9. QED
        BY <2>4, <2>5, <2>6, <2>7, <2>8 DEF Kept
<1>4. QED
    BY <1>2, <1>3 DEF CopyRaw

LEMMA SyncKeeps == ASSUME ExtractInv, NEW p \in Procs, Sync(p) PROVE Kept(p)
<1>1. /\ pc[p] = "sync" /\ runs' = runs /\ excused' = excused
      /\ job[p] \in JobType /\ job[p].stage \in Stages /\ CallInv(p)
    BY DEF Sync, ExtractInv, TypeOK, JobType
<1>2. CASE FailBy(p, "sync") /\ UNCHANGED dir
    BY <1>1, <1>2, GivesUpQuietly DEF Sync
<1>3. CASE dir' = Sealed(p)
    <2> DEFINE n == TempName(p, job[p].stage)
               where == IF job[p].stage = "raw" THEN "encodings" ELSE "detect"
    <2>1. n \in DOMAIN dir /\ dir[n].content \in Contents
          /\ dir[n].content = IF job[p].stage = "raw" THEN job[p].raw ELSE job[p].decoded
        BY <1>1 DEF CallInv, TempsFit, RawStaged, DecodedStaged, Holds, RawTemp, DecodedTemp, Stages, JobType
    <2>2. dir' = WithFile(dir, n, dir[n].content, TRUE)
        BY <1>3 DEF Sealed
    <2>3. /\ LeavesAlone(p) /\ InstallsNothing
          /\ DOMAIN dir' \subseteq TempNames \cup ArtifactNames
          /\ \A m \in DOMAIN dir' : dir'[m] \in FileType
          /\ n \in DOMAIN dir' /\ dir'[n] = [content |-> dir[n].content, durable |-> TRUE]
          /\ \A t \in Stages \ {job[p].stage} : TempName(p, t) \in DOMAIN dir =>
                 TempName(p, t) \in DOMAIN dir' /\ dir'[TempName(p, t)] = dir[TempName(p, t)]
        BY <1>1, <2>1, <2>2, ActiveRuns, TempWritten
    <2>4. CASE job[p].stage = "decoded" /\ TooLarge(job[p].written)
        <3>1. /\ pc' \in [Procs -> PCs] /\ job' \in [Procs -> JobType] /\ Alone(p)
              /\ CallInv(p)'
            BY <1>1, <1>3, <2>4, GivesUp DEF Sync, FailBy
        <3>2. TypeOK'
            BY <1>1, <2>3, <3>1 DEF ExtractInv, TypeOK
        <3>3. QED
            BY <2>3, <3>1, <3>2 DEF Kept
    <2>5. CASE Goto(p, where, job[p]) /\ (job[p].stage = "decoded" => ~TooLarge(job[p].written))
        <3>1. where \in PCs /\ LocalsFit(where, job[p])
            BY <1>1, <2>5 DEF PCs, CallInv, LocalsFit, Installing, Stages, DecodedWhole
        <3>2. /\ pc' \in [Procs -> PCs] /\ job' \in [Procs -> JobType] /\ Alone(p)
              /\ pc'[p] = where /\ job'[p] = job[p]
              /\ RawTemp(p)' = RawTemp(p) /\ DecodedTemp(p)' = DecodedTemp(p)
              /\ TempsFit(p)' /\ TargetsFit(p)' => CallInv(p)'
            BY <1>1, <2>5, <3>1, MovesOn
        <3>3. TempsFit(p)'
            BY <1>1, <2>1, <2>3, <3>2 DEF CallInv, TempsFit, Holds, RawStaged, DecodedStaged, Installing,
               RawTemp, DecodedTemp, Stages
        <3>4. TargetsFit(p)'
            BY <1>1, <3>2 DEF CallInv, LocalsFit, TargetsFit, ImageIn, RawIn, Installing
        <3>5. TypeOK'
            BY <1>1, <2>3, <3>2 DEF ExtractInv, TypeOK
        <3>6. QED
            BY <2>3, <3>2, <3>3, <3>4, <3>5 DEF Kept
    <2>6. \/ job[p].stage = "decoded" /\ TooLarge(job[p].written)
          \/ Goto(p, where, job[p]) /\ (job[p].stage = "decoded" => ~TooLarge(job[p].written))
          \/ FailBy(p, "sync") /\ UNCHANGED dir
        BY <1>1 DEF Sync, Stages
    <2>7. QED
        BY <1>2, <2>4, <2>5, <2>6
<1>4. QED
    BY <1>2, <1>3 DEF Sync

LEMMA EncodingsKeeps == ASSUME ExtractInv, NEW p \in Procs, Encodings(p) PROVE Kept(p)
<1>1. /\ pc[p] = "encodings" /\ UNCHANGED <<dir, runs, results, excused>>
      /\ job[p] \in JobType /\ CallInv(p)
    BY DEF Encodings, ExtractInv, TypeOK
<1>2. CASE Fail(p)
    BY <1>1, <1>2, GivesUpQuietly
<1>3. CASE job[p].coding = "identity" /\ Goto(p, "detect", [job[p] EXCEPT !.decoded = job[p].raw])
    <2> DEFINE j == [job[p] EXCEPT !.decoded = job[p].raw]
    <2>1. /\ j \in JobType /\ j.stage = "raw" /\ j.artifact = "image" /\ ~j.ok /\ ~j.dedup
          /\ j.raw = job[p].raw /\ j.decoded = j.raw /\ j.coding = "identity" /\ Goto(p, "detect", j)
        BY <1>1, <1>3 DEF JobType, CallInv, LocalsFit, Installing
    <2>2. "detect" \in PCs /\ LocalsFit("detect", j)
        BY <2>1 DEF PCs, LocalsFit, Installing, DecodedWhole
    <2> HIDE DEF j
    <2>3. /\ pc'[p] = "detect" /\ job'[p] = j /\ RawTemp(p)' = RawTemp(p)
          /\ TempsFit(p)' /\ TargetsFit(p)' => Kept(p)
        BY <1>1, <2>1, <2>2, QuietStep
    <2>4. TempsFit(p)'
        BY <1>1, <2>1, <2>3 DEF CallInv, LocalsFit, TempsFit, Holds, RawStaged, DecodedStaged, Installing
    <2>5. TargetsFit(p)'
        BY <2>1, <2>3 DEF TargetsFit, ImageIn, RawIn, Installing
    <2>6. QED
        BY <2>3, <2>4, <2>5
<1>4. CASE job[p].coding = "coded" /\ Goto(p, "chain", [job[p] EXCEPT !.stage = "decoded"])
    <2> DEFINE j == [job[p] EXCEPT !.stage = "decoded"]
    <2>1. /\ j \in JobType /\ j.stage = "decoded" /\ j.artifact = "image" /\ ~j.ok /\ ~j.dedup
          /\ j.raw = job[p].raw /\ j.coding = "coded" /\ Goto(p, "chain", j)
        BY <1>1, <1>4 DEF JobType, CallInv, LocalsFit, Installing, Stages
    <2>2. "chain" \in PCs /\ LocalsFit("chain", j)
        BY <2>1 DEF PCs, LocalsFit, Installing
    <2> HIDE DEF j
    <2>3. /\ pc'[p] = "chain" /\ job'[p] = j /\ RawTemp(p)' = RawTemp(p)
          /\ TempsFit(p)' /\ TargetsFit(p)' => Kept(p)
        BY <1>1, <2>1, <2>2, QuietStep
    <2>4. TempsFit(p)'
        BY <1>1, <2>1, <2>3 DEF CallInv, LocalsFit, TempsFit, Holds, RawStaged, DecodedStaged, Installing
    <2>5. TargetsFit(p)'
        BY <2>1, <2>3 DEF TargetsFit, ImageIn, RawIn, Installing
    <2>6. QED
        BY <2>3, <2>4, <2>5
<1>5. QED
    BY <1>2, <1>3, <1>4 DEF Encodings

LEMMA ChainKeeps == ASSUME ExtractInv, NEW p \in Procs, Chain(p) PROVE Kept(p)
<1>1. /\ pc[p] = "chain" /\ UNCHANGED <<dir, runs, results, excused>>
      /\ job[p] \in JobType /\ CallInv(p)
    BY DEF Chain, ExtractInv, TypeOK
<1>2. CASE Fail(p) \/ FailBy(p, "open")
    BY <1>1, <1>2, GivesUpQuietly
<1>3. CASE Goto(p, "create", job[p])
    <2>1. "create" \in PCs /\ LocalsFit("create", job[p])
        BY <1>1 DEF PCs, CallInv, LocalsFit, Installing
    <2>2. /\ pc'[p] = "create" /\ job'[p] = job[p] /\ RawTemp(p)' = RawTemp(p)
          /\ TempsFit(p)' /\ TargetsFit(p)' => Kept(p)
        BY <1>1, <1>3, <2>1, QuietStep
    <2>3. TempsFit(p)'
        BY <1>1, <2>2 DEF CallInv, TempsFit, Holds, RawStaged, DecodedStaged, Installing
    <2>4. TargetsFit(p)'
        BY <1>1, <2>2 DEF CallInv, LocalsFit, TargetsFit, ImageIn, RawIn, Installing
    <2>5. QED
        BY <2>2, <2>3, <2>4
<1>4. QED
    BY <1>2, <1>3 DEF Chain

\* What a decoder may leave is a body, and its length a number.
LEMMA DecodedTyped ==
    ASSUME NEW c \in Contents
    PROVE  CappedAt(ReaderCap, c) \in Contents /\ WrittenOf(ReaderCap, c) \in Nat
<1>1. Size[c] \in Nat /\ Limit \in Nat /\ MaxInt \in Nat
    BY ContentsAssumption, LimitAssumption
<1>2. ReaderCap \in Nat
    BY <1>1 DEF ReaderCap, Wrapped
<1>3. QED
    BY <1>1, <1>2, ContentsAssumption DEF CappedAt, WrittenOf

LEMMA DecodeKeeps == ASSUME ExtractInv, NEW p \in Procs, Decode(p) PROVE Kept(p)
<1>1. /\ pc[p] = "decode" /\ UNCHANGED <<runs, results, excused>>
      /\ runs' = runs /\ excused' = excused
      /\ job[p] \in JobType /\ CallInv(p) /\ "decoded" \in Stages
    BY DEF Decode, ExtractInv, TypeOK, Stages
<1> DEFINE c == Decoding[job[p].raw]
           temp == TempName(p, "decoded")
<1>2. CASE Fail(p) /\ dir' = WithFile(dir, temp, Partial, FALSE)
    BY <1>1, <1>2, WritingFails
<1>3. CASE FailBy(p, "write") /\ dir' = WithFile(dir, temp, Partial, FALSE)
    BY <1>1, <1>3, WritingFails
<1>4. CASE /\ c # Corrupt
           /\ dir' = WithFile(dir, temp, CappedAt(ReaderCap, c), FALSE)
           /\ Goto(p, "sync", [job[p] EXCEPT !.decoded = CappedAt(ReaderCap, c),
                                             !.written = WrittenOf(ReaderCap, c)])
    <2> DEFINE got == CappedAt(ReaderCap, c)
               j == [job[p] EXCEPT !.decoded = got, !.written = WrittenOf(ReaderCap, c)]
    <2>1. c \in Contents
        BY <1>1, <1>4, ContentsAssumption DEF JobType
    <2>2. got \in Contents /\ WrittenOf(ReaderCap, c) \in Nat
        BY <2>1, DecodedTyped
    <2>3. /\ j \in JobType /\ j.stage = "decoded" /\ j.artifact = "image" /\ ~j.ok /\ ~j.dedup
          /\ j.coding = "coded" /\ j.raw = job[p].raw /\ j.decoded = got
          /\ j.written = WrittenOf(ReaderCap, c) /\ Goto(p, "sync", j)
        BY <1>1, <1>4, <2>2 DEF JobType, CallInv, LocalsFit, Installing
    <2>4. DecodedSoFar(j)
        BY <1>4, <2>3 DEF DecodedSoFar
    <2>5. "sync" \in PCs /\ LocalsFit("sync", j)
        BY <2>3, <2>4 DEF PCs, LocalsFit, Installing
    <2> HIDE DEF j, got
    <2>6. dir' = WithFile(dir, TempName(p, "decoded"), got, FALSE)
        BY <1>4 DEF got
    <2>7. /\ LeavesAlone(p) /\ InstallsNothing
          /\ DOMAIN dir' \subseteq TempNames \cup ArtifactNames
          /\ \A n \in DOMAIN dir' : dir'[n] \in FileType
          /\ TempName(p, "decoded") \in DOMAIN dir'
          /\ dir'[TempName(p, "decoded")] = [content |-> got, durable |-> FALSE]
          /\ \A t \in Stages \ {"decoded"} : TempName(p, t) \in DOMAIN dir =>
                 TempName(p, t) \in DOMAIN dir' /\ dir'[TempName(p, t)] = dir[TempName(p, t)]
        BY <1>1, <2>2, <2>6, ActiveRuns, TempWritten
    <2>8. /\ pc' \in [Procs -> PCs] /\ job' \in [Procs -> JobType] /\ Alone(p)
          /\ pc'[p] = "sync" /\ job'[p] = j
          /\ RawTemp(p)' = RawTemp(p) /\ DecodedTemp(p)' = DecodedTemp(p)
          /\ TempsFit(p)' /\ TargetsFit(p)' => CallInv(p)'
        BY <1>1, <2>3, <2>5, MovesOn
    <2>9. TempsFit(p)'
        BY <1>1, <2>3, <2>7, <2>8 DEF CallInv, TempsFit, Holds, RawStaged, DecodedStaged, Installing,
           RawTemp, DecodedTemp, Stages
    <2>10. TargetsFit(p)'
        BY <2>3, <2>8 DEF TargetsFit, ImageIn, RawIn, Installing
    <2>11. TypeOK'
        BY <1>1, <2>7, <2>8 DEF ExtractInv, TypeOK
    <2>12. QED
        BY <2>7, <2>8, <2>9, <2>10, <2>11 DEF Kept
<1>5. QED
    BY <1>2, <1>3, <1>4 DEF Decode

\* An image decoded with room to spare is whole: a truncated one fills the limit,
\* or, with the largest limit of all, holds nothing and is no image.
LEMMA WholeImage ==
    ASSUME NEW j \in JobType, DecodedWhole(j), j.type = Type[j.decoded], j.type # "none"
    PROVE  TruthfulImage(j)
<1>1. CASE j.coding # "coded"
    BY <1>1 DEF DecodedWhole, TruthfulImage
<1>2. CASE j.coding = "coded"
    <2> DEFINE c == Decoding[j.raw]
    <2>1. c \in Contents /\ j.decoded = CappedAt(ReaderCap, c) /\ j.written = WrittenOf(ReaderCap, c)
          /\ ~(j.written > Limit)
        BY <1>2, ContentsAssumption DEF DecodedWhole, DecodedSoFar, TooLarge, JobType
    <2>2. Size[c] \in Nat /\ Limit \in Nat /\ MaxInt \in Nat /\ Limit <= MaxInt
        BY <2>1, ContentsAssumption, LimitAssumption
    <2>3. ReaderCap = Limit + 1 \/ ReaderCap = 0
        BY <2>2 DEF ReaderCap, Wrapped
    <2> HIDE DEF c
    <2>4. Size[c] <= ReaderCap
        <3> SUFFICES ASSUME ~(Size[c] <= ReaderCap) PROVE FALSE
            OBVIOUS
        <3>1. j.written = ReaderCap
            BY <2>1 DEF WrittenOf
        <3>2. ReaderCap = 0
            BY <2>1, <2>2, <2>3, <3>1
        <3>3. j.decoded = Empty
            BY <2>1, <3>2 DEF CappedAt
        <3>4. QED
            BY <3>3, ContentsAssumption
    <2>5. j.decoded = c /\ Size[c] <= Limit
        BY <2>1, <2>2, <2>4 DEF CappedAt, WrittenOf
    <2>6. QED
        BY <1>2, <2>5 DEF TruthfulImage, c
<1>3. QED
    BY <1>1, <1>2

LEMMA DetectKeeps == ASSUME ExtractInv, NEW p \in Procs, Detect(p) \/ DetectFails(p) PROVE Kept(p)
<1>1. /\ pc[p] = "detect" /\ UNCHANGED <<dir, runs, results, excused>>
      /\ job[p] \in JobType /\ CallInv(p)
    BY DEF Detect, DetectFails, ExtractInv, TypeOK
<1> DEFINE t == Type[dir[TempName(p, DecodedStage(job[p]))].content]
           j == [job[p] EXCEPT !.type = t]
<1>2. CASE Fail(p) \/ FailBy(p, "open")
    BY <1>1, <1>2, GivesUpQuietly
<1>3. CASE t # "none" /\ Goto(p, "link", j)
    <2>1. dir[TempName(p, DecodedStage(job[p]))].content = job[p].decoded
        BY <1>1 DEF CallInv, LocalsFit, Installing, TempsFit, RawStaged, DecodedStaged, Holds, DecodedStage,
           RawTemp, DecodedTemp, DecodedWhole
    <2>2. t = Type[job[p].decoded] /\ t \in {"png", "jpeg", "none"}
        BY <1>1, <2>1, ContentsAssumption DEF JobType
    <2>3. /\ j \in JobType /\ j.type = t /\ j.artifact = "image" /\ ~j.ok /\ ~j.dedup
          /\ j.coding = job[p].coding /\ j.raw = job[p].raw /\ j.decoded = job[p].decoded
          /\ j.written = job[p].written /\ j.stage = job[p].stage
        BY <1>1, <2>2 DEF JobType, CallInv, LocalsFit, Installing
    <2>4. DecodedWhole(j)
        BY <1>1, <2>3 DEF CallInv, LocalsFit, DecodedWhole, DecodedSoFar
    <2>5. TruthfulImage(j)
        BY <1>3, <2>2, <2>3, <2>4, WholeImage
    <2> HIDE DEF j, t
    <2>6. "link" \in PCs /\ LocalsFit("link", j)
        BY <1>1, <2>3, <2>5 DEF PCs, CallInv, LocalsFit, Installing
    <2>7. /\ pc'[p] = "link" /\ job'[p] = j
          /\ RawTemp(p)' = RawTemp(p) /\ DecodedTemp(p)' = DecodedTemp(p)
          /\ TempsFit(p)' /\ TargetsFit(p)' => Kept(p)
        BY <1>1, <1>3, <2>3, <2>6, QuietStep
    <2>8. TempsFit(p)'
        BY <1>1, <2>3, <2>7 DEF CallInv, TempsFit, Holds, RawStaged, DecodedStaged, Installing
    <2>9. TargetsFit(p)'
        BY <2>3, <2>7 DEF TargetsFit, ImageIn, RawIn, Installing
    <2>10. QED
        BY <2>7, <2>8, <2>9
<1>4. QED
    BY <1>1, <1>2, <1>3 DEF Detect, DetectFails

\* Where a call stands once an artifact is installed, or was found to be.
LEMMA InstalledFits ==
    ASSUME ExtractInv, NEW p \in Procs, pc[p] \in {"unlink", "hash"}, runs' = runs, excused' = excused,
           NEW j \in {job[p], [job[p] EXCEPT !.dedup = TRUE]}, Installed(p, j),
           TargetOf(job[p]) \in DOMAIN dir', dir'[TargetOf(job[p])].content = ExpectedOf(job[p]),
           job[p].artifact = "raw" =>
               LET image == ImageName(job[p].decoded, job[p].type)
               IN image \in DOMAIN dir' /\ dir'[image].content = job[p].decoded,
           job[p].artifact = "image" /\ job[p].coding = "coded" =>
               RawTemp(p) \in DOMAIN dir' /\ dir'[RawTemp(p)] = dir[RawTemp(p)]
    PROVE  /\ pc' \in [Procs -> PCs] /\ job' \in [Procs -> JobType] /\ Alone(p)
           /\ CallInv(p)'
<1>1. /\ job[p] \in JobType /\ CallInv(p) /\ pc[p] # "idle" /\ {"link", "cleaning"} \subseteq PCs
    BY DEF ExtractInv, TypeOK, PCs
<1>2. /\ j \in JobType /\ j.artifact = job[p].artifact /\ j.coding = job[p].coding
      /\ j.raw = job[p].raw /\ j.decoded = job[p].decoded /\ j.type = job[p].type
      /\ j.stage = job[p].stage /\ ~j.ok
    BY <1>1 DEF JobType, CallInv, LocalsFit
<1>3. j.coding \in {"identity", "coded"} /\ (j.artifact = "raw" => j.coding = "coded") /\ TruthfulImage(j)
    BY <1>1, <1>2 DEF CallInv, LocalsFit, Installing, TruthfulImage
<1>4. CASE j.artifact = "image" /\ j.coding = "coded"
    <2> DEFINE k == [j EXCEPT !.artifact = "raw"]
    <2>1. /\ k \in JobType /\ k.artifact = "raw" /\ k.coding = j.coding /\ ~k.ok
          /\ k.raw = j.raw /\ k.decoded = j.decoded /\ k.type = j.type /\ k.stage = j.stage
          /\ Goto(p, "link", k)
        BY <1>2, <1>4 DEF JobType, Installed
    <2>2. LocalsFit("link", k)
        BY <1>1, <1>2, <1>3, <1>4, <2>1 DEF CallInv, LocalsFit, Installing, TruthfulImage
    <2> HIDE DEF k
    <2>3. /\ pc' \in [Procs -> PCs] /\ job' \in [Procs -> JobType] /\ Alone(p)
          /\ pc'[p] = "link" /\ job'[p] = k /\ RawTemp(p)' = RawTemp(p)
          /\ TempsFit(p)' /\ TargetsFit(p)' => CallInv(p)'
        BY <1>1, <2>1, <2>2, MovesOn
    <2>4. TempsFit(p)'
        BY <1>1, <1>2, <1>4, <2>1, <2>3 DEF CallInv, TempsFit, Holds, RawStaged, DecodedStaged, Installing
    <2>5. TargetsFit(p)'
        BY <1>2, <1>4, <2>1, <2>3 DEF TargetsFit, Holds, ImageIn, RawIn, Installing, TargetOf, ExpectedOf
    <2>6. QED
        BY <2>3, <2>4, <2>5
<1>5. CASE ~(j.artifact = "image" /\ j.coding = "coded")
    <2> DEFINE k == [j EXCEPT !.ok = TRUE]
    <2>1. /\ k \in JobType /\ k.artifact = j.artifact /\ k.coding = j.coding /\ k.ok
          /\ k.raw = j.raw /\ k.decoded = j.decoded /\ k.type = j.type /\ k.stage = j.stage
          /\ Goto(p, "cleaning", k)
        BY <1>2, <1>5 DEF JobType, Installed
    <2>2. LocalsFit("cleaning", k)
        BY <1>1, <1>2, <1>3, <1>5, <2>1 DEF CallInv, LocalsFit, Installing, TruthfulImage, JobType
    <2> HIDE DEF k
    <2>3. /\ pc' \in [Procs -> PCs] /\ job' \in [Procs -> JobType] /\ Alone(p)
          /\ pc'[p] = "cleaning" /\ job'[p] = k
          /\ TempsFit(p)' /\ TargetsFit(p)' => CallInv(p)'
        BY <1>1, <2>1, <2>2, MovesOn
    <2>4. TempsFit(p)'
        BY <2>3 DEF TempsFit, RawStaged, DecodedStaged, Installing
    <2>5. TargetsFit(p)'
        BY <1>2, <1>3, <1>5, <2>1, <2>3 DEF TargetsFit, Holds, ImageIn, RawIn, Installing, TargetOf, ExpectedOf, JobType
    <2>6. QED
        BY <2>3, <2>4, <2>5
<1>6. QED
    BY <1>4, <1>5

LEMMA HashKeeps == ASSUME ExtractInv, NEW p \in Procs, Hash(p) PROVE Kept(p)
<1>1. /\ pc[p] = "hash" /\ UNCHANGED <<dir, runs, results, excused>>
      /\ CallInv(p)
    BY DEF Hash, ExtractInv
<1>2. CASE Fail(p) \/ FailBy(p, "open")
    BY <1>1, <1>2, GivesUpQuietly
<1>3. CASE HashMatches(p) /\ \E j \in {job[p], [job[p] EXCEPT !.dedup = TRUE]} : Installed(p, j)
    <2>1. PICK j \in {job[p], [job[p] EXCEPT !.dedup = TRUE]} : Installed(p, j)
        BY <1>3
    <2>2. TargetOf(job[p]) \in DOMAIN dir' /\ dir'[TargetOf(job[p])].content = ExpectedOf(job[p])
        BY <1>1, <1>3 DEF CallInv, TargetsFit, HashMatches
    <2>3. job[p].artifact = "raw" =>
              LET image == ImageName(job[p].decoded, job[p].type)
              IN image \in DOMAIN dir' /\ dir'[image].content = job[p].decoded
        BY <1>1 DEF CallInv, TargetsFit, ImageIn, Installing, Holds
    <2>4. job[p].artifact = "image" /\ job[p].coding = "coded" =>
              RawTemp(p) \in DOMAIN dir' /\ dir'[RawTemp(p)] = dir[RawTemp(p)]
        BY <1>1 DEF CallInv, TempsFit, RawStaged, Installing, Holds
    <2>5. /\ pc' \in [Procs -> PCs] /\ job' \in [Procs -> JobType] /\ Alone(p)
          /\ CallInv(p)'
        BY <1>1, <2>1, <2>2, <2>3, <2>4, InstalledFits
    <2>6. TypeOK'
        BY <1>1, <2>5 DEF ExtractInv, TypeOK
    <2>7. QED
        BY <1>1, <2>5, <2>6, NoFileTouched DEF Kept
<1>4. QED
    BY <1>2, <1>3 DEF Hash

\* Removing staging files of one's own.
LEMMA TempsRemoved ==
    ASSUME ExtractInv, NEW p \in Procs, runs[p] # 0, NEW S \in SUBSET {RawTemp(p), DecodedTemp(p)},
           dir' = Without(dir, S)
    PROVE  /\ LeavesAlone(p) /\ InstallsNothing
           /\ DOMAIN dir' = DOMAIN dir \ S /\ \A n \in DOMAIN dir' : dir'[n] = dir[n]
           /\ DOMAIN dir' \subseteq TempNames \cup ArtifactNames
           /\ \A n \in DOMAIN dir' : dir'[n] \in FileType
<1>1. DOMAIN dir' = DOMAIN dir \ S /\ \A n \in DOMAIN dir' : dir'[n] = dir[n]
    BY DEF Without, Restrict
<1>2. QED
    BY <1>1 DEF LeavesAlone, Spares, InstallsNothing, ExtractInv, TypeOK

LEMMA UnlinkKeeps == ASSUME ExtractInv, NEW p \in Procs, Unlink(p) PROVE Kept(p)
<1>1. /\ pc[p] = "unlink" /\ runs' = runs /\ excused' = excused /\ runs[p] # 0
      /\ job[p] \in JobType /\ CallInv(p)
    BY ActiveRuns DEF Unlink, ExtractInv, TypeOK
<1>2. CASE FailBy(p, "remove") /\ UNCHANGED dir
    BY <1>1, <1>2, GivesUpQuietly DEF Unlink
<1>3. CASE dir' = Without(dir, {SourceTemp(p)}) /\ Installed(p, job[p])
    <2>1. {SourceTemp(p)} \in SUBSET {RawTemp(p), DecodedTemp(p)}
        BY DEF SourceTemp, DecodedStage, RawTemp, DecodedTemp
    <2>2. /\ LeavesAlone(p) /\ InstallsNothing
          /\ DOMAIN dir' = DOMAIN dir \ {SourceTemp(p)} /\ \A n \in DOMAIN dir' : dir'[n] = dir[n]
          /\ DOMAIN dir' \subseteq TempNames \cup ArtifactNames
          /\ \A n \in DOMAIN dir' : dir'[n] \in FileType
        BY <1>1, <1>3, <2>1, TempsRemoved
    <2>3. SourceTemp(p) \notin ArtifactNames
        BY <1>1, <2>1, TempsAreTemps, NoTempIsArtifact DEF RawTemp, DecodedTemp, Stages, ExtractInv
    <2>4. TruthfulImage(job[p])
        BY <1>1 DEF CallInv, LocalsFit, Installing
    <2>5. /\ ImageName(job[p].decoded, job[p].type) \in ArtifactNames
          /\ RawName(job[p].raw) \in ArtifactNames
        BY <1>1, <2>4 DEF TruthfulImage, JobType, ArtifactNames
    <2>6. TargetOf(job[p]) \in DOMAIN dir' /\ dir'[TargetOf(job[p])].content = ExpectedOf(job[p])
        BY <1>1, <2>2, <2>3, <2>5 DEF CallInv, TargetsFit, ImageIn, RawIn, Holds, TargetOf, ExpectedOf, JobType
    <2>7. job[p].artifact = "raw" =>
              LET image == ImageName(job[p].decoded, job[p].type)
              IN image \in DOMAIN dir' /\ dir'[image].content = job[p].decoded
        BY <1>1, <2>2, <2>3, <2>5 DEF CallInv, TargetsFit, ImageIn, Holds
    <2>8. job[p].artifact = "image" /\ job[p].coding = "coded" =>
              RawTemp(p) \in DOMAIN dir' /\ dir'[RawTemp(p)] = dir[RawTemp(p)]
        <3>1. "raw" \in Stages /\ "decoded" \in Stages /\ "raw" # "decoded"
            BY DEF Stages
        <3>2. RawTemp(p) # DecodedTemp(p)
            BY <3>1, TempsDiffer DEF RawTemp, DecodedTemp
        <3>3. RawTemp(p) \in DOMAIN dir
            BY <1>1 DEF CallInv, TempsFit, RawStaged, Installing, Holds
        <3>4. QED
            BY <2>2, <3>2, <3>3 DEF SourceTemp, DecodedStage, RawTemp, DecodedTemp
    <2>9. /\ pc' \in [Procs -> PCs] /\ job' \in [Procs -> JobType] /\ Alone(p)
          /\ CallInv(p)'
        BY <1>1, <1>3, <2>6, <2>7, <2>8, InstalledFits
    <2>10. TypeOK'
        BY <1>1, <2>2, <2>9 DEF ExtractInv, TypeOK
    <2>11. QED
        BY <2>2, <2>9, <2>10 DEF Kept
<1>4. QED
    BY <1>2, <1>3 DEF Unlink

\* Between calls nothing is asked.
LEMMA IdleFits ==
    ASSUME ExtractInv, NEW p \in Procs, pc'[p] = "idle", job'[p] = NoJob
    PROVE  CallInv(p)'
    BY DEF CallInv, NoJob, LocalsFit, Installing, TempsFit, TargetsFit, RawStaged, DecodedStaged, ImageIn, RawIn

\* Calls that were left unfinished, excused.
LEMMA ExcusedTyped ==
    ASSUME ExtractInv, NEW p \in Procs, pc[p] # "idle"
    PROVE  excused \cup {<<p, runs[p]>>} \subseteq Procs \X (1 .. MaxRuns)
    BY ActiveRuns DEF ExtractInv, TypeOK

LEMMA CrashKeeps == ASSUME ExtractInv, NEW p \in Procs, Crash(p) PROVE Kept(p)
<1>1. "idle" \in PCs /\ NoJob \in JobType /\ Goto(p, "idle", NoJob)
    BY NoJobTyped DEF PCs, Crash
<1>2. /\ pc' \in [Procs -> PCs] /\ job' \in [Procs -> JobType]
      /\ pc'[p] = "idle" /\ job'[p] = NoJob
      /\ \A q \in Procs \ {p} : pc'[q] = pc[q] /\ job'[q] = job[q]
    BY <1>1, GotoIs DEF ExtractInv
<1>3. TypeOK'
    BY <1>2, ExcusedTyped DEF Crash, ExtractInv, TypeOK
<1>4. Alone(p)
    BY <1>2 DEF Crash, Alone
<1>5. QED
    BY <1>2, <1>3, <1>4, IdleFits, NoFileTouched DEF Crash, Kept

LEMMA CleanupKeeps == ASSUME ExtractInv, NEW p \in Procs, Cleanup(p) PROVE Kept(p)
<1>1. PICK left \in SUBSET OwnTemps(p) :
          /\ dir' = Without(dir, OwnTemps(p) \ left)
          /\ excused' = IF left = {} THEN excused ELSE excused \cup {<<p, runs[p]>>}
    BY DEF Cleanup
<1>2. /\ pc[p] = "cleaning" /\ pc[p] # "idle" /\ runs' = runs /\ runs[p] # 0
      /\ "idle" \in PCs /\ NoJob \in JobType /\ Goto(p, "idle", NoJob)
    BY NoJobTyped, ActiveRuns DEF PCs, Cleanup
<1>3. OwnTemps(p) \ left \in SUBSET {RawTemp(p), DecodedTemp(p)}
    BY DEF OwnTemps, Stages, RawTemp, DecodedTemp
<1>4. /\ LeavesAlone(p) /\ InstallsNothing
      /\ DOMAIN dir' \subseteq TempNames \cup ArtifactNames
      /\ \A n \in DOMAIN dir' : dir'[n] \in FileType
    BY <1>1, <1>2, <1>3, TempsRemoved
<1>5. /\ pc' \in [Procs -> PCs] /\ job' \in [Procs -> JobType]
      /\ pc'[p] = "idle" /\ job'[p] = NoJob
      /\ \A q \in Procs \ {p} : pc'[q] = pc[q] /\ job'[q] = job[q]
    BY <1>2, GotoIs DEF ExtractInv
<1>6. TypeOK'
    BY <1>1, <1>2, <1>4, <1>5, ExcusedTyped DEF ExtractInv, TypeOK
<1>7. Alone(p)
    BY <1>2, <1>5 DEF Alone
<1>8. QED
    BY <1>4, <1>5, <1>6, <1>7, IdleFits DEF Kept

-----------------------------------------------------------------------------
(* Link, and the power.                                                     *)

\* The file about to be linked is the one its new name is made for.
LEMMA SourceFits ==
    ASSUME ExtractInv, NEW p \in Procs, pc[p] = "link"
    PROVE  /\ SourceTemp(p) \in DOMAIN dir /\ dir[SourceTemp(p)] \in FileType
           /\ dir[SourceTemp(p)].content = ExpectedOf(job[p]) /\ dir[SourceTemp(p)].durable
           /\ TargetOf(job[p]) \in ArtifactNames
           /\ Matches(TargetOf(job[p]), ExpectedOf(job[p]))
<1>1. job[p] \in JobType /\ LocalsFit("link", job[p]) /\ TempsFit(p)
    BY DEF ExtractInv, TypeOK, CallInv
<1>2. TruthfulImage(job[p]) /\ job[p].artifact \in {"image", "raw"}
    BY <1>1 DEF LocalsFit, Installing, JobType
<1>3. TargetOf(job[p]) \in ArtifactNames
    BY <1>1, <1>2, TargetIsArtifact DEF TruthfulImage
<1>4. Matches(TargetOf(job[p]), ExpectedOf(job[p]))
    BY <1>2 DEF TargetOf, ExpectedOf, Matches, ImageName, RawName, TruthfulImage
<1>5. /\ SourceTemp(p) \in DOMAIN dir /\ dir[SourceTemp(p)].durable
      /\ dir[SourceTemp(p)].content = ExpectedOf(job[p])
    BY <1>1, <1>2 DEF LocalsFit, Installing, TempsFit, RawStaged, DecodedStaged, Holds, SourceTemp, DecodedStage,
       ExpectedOf, RawTemp, DecodedTemp, TruthfulImage
<1>6. QED
    BY <1>3, <1>4, <1>5 DEF ExtractInv, TypeOK

LEMMA LinkKeeps ==
    ASSUME ExtractInv, NEW p \in Procs, Link(p)
    PROVE  TypeOK' /\ CallInv(p)' /\ Alone(p) /\ LeavesAlone(p) /\ ArtifactsFit'
<1> DEFINE target == TargetOf(job[p])
           file == dir[SourceTemp(p)]
<1>1. /\ pc[p] = "link" /\ pc[p] # "idle" /\ UNCHANGED <<runs, results, excused>>
      /\ runs' = runs /\ excused' = excused /\ runs[p] # 0
      /\ job[p] \in JobType /\ CallInv(p) /\ {"unlink", "hash"} \subseteq PCs
    BY ActiveRuns DEF Link, ExtractInv, TypeOK, PCs
<1>2. CASE FailBy(p, "link") /\ UNCHANGED dir
    <2>1. Kept(p)
        BY <1>1, <1>2, GivesUpQuietly
    <2>2. QED
        BY <2>1, ArtifactsKept DEF Kept
<1>3. CASE target \in DOMAIN dir /\ Goto(p, "hash", job[p]) /\ UNCHANGED dir
    <2>1. LocalsFit("hash", job[p])
        BY <1>1 DEF CallInv, LocalsFit, Installing
    <2>2. /\ pc'[p] = "hash" /\ job'[p] = job[p]
          /\ RawTemp(p)' = RawTemp(p) /\ DecodedTemp(p)' = DecodedTemp(p)
          /\ TempsFit(p)' /\ TargetsFit(p)' => Kept(p)
        BY <1>1, <1>3, <2>1, QuietStep
    <2>3. TempsFit(p)'
        BY <1>1, <1>3, <2>2 DEF CallInv, TempsFit, Holds, RawStaged, DecodedStaged, Installing
    <2>4. TargetsFit(p)'
        BY <1>1, <1>3, <2>2 DEF CallInv, LocalsFit, TargetsFit, Holds, ImageIn, RawIn, Installing
    <2>5. QED
        BY <2>2, <2>3, <2>4, ArtifactsKept DEF Kept
<1>4. CASE target \notin DOMAIN dir /\ dir' = WithFile(dir, target, file.content, file.durable)
           /\ Goto(p, "unlink", job[p])
    <2>1. /\ file \in FileType /\ file.content = ExpectedOf(job[p]) /\ file.durable
          /\ target \in ArtifactNames /\ Matches(target, ExpectedOf(job[p]))
        BY <1>1, SourceFits
    <2>2. /\ DOMAIN dir' = DOMAIN dir \cup {target}
          /\ dir'[target] = [content |-> file.content, durable |-> file.durable]
          /\ \A n \in DOMAIN dir : n # target /\ dir'[n] = dir[n]
        BY <1>4 DEF WithFile
    <2> HIDE DEF target, file
    <2>3. dir'[target] \in FileType /\ dir'[target].durable /\ dir'[target].content = ExpectedOf(job[p])
        BY <2>1, <2>2 DEF FileType
    <2>4. LeavesAlone(p)
        BY <1>1, <2>2 DEF LeavesAlone, Spares
    <2>5. ArtifactsFit'
        BY <2>1, <2>2, <2>3 DEF ExtractInv, ArtifactsFit, Artifacts
    <2>6. LocalsFit("unlink", job[p])
        BY <1>1 DEF CallInv, LocalsFit, Installing
    <2>7. /\ pc' \in [Procs -> PCs] /\ job' \in [Procs -> JobType] /\ Alone(p)
          /\ pc'[p] = "unlink" /\ job'[p] = job[p]
          /\ RawTemp(p)' = RawTemp(p) /\ DecodedTemp(p)' = DecodedTemp(p)
          /\ TempsFit(p)' /\ TargetsFit(p)' => CallInv(p)'
        BY <1>1, <1>4, <2>6, MovesOn
    <2>8. TempsFit(p)'
        BY <1>1, <2>2, <2>7 DEF CallInv, TempsFit, Holds, RawStaged, DecodedStaged, Installing
    <2>9. TargetsFit(p)'
        BY <1>1, <2>2, <2>3, <2>7 DEF CallInv, LocalsFit, TargetsFit, Holds, ImageIn, RawIn, Installing,
           TargetOf, ExpectedOf, target, JobType
    <2>10. TypeOK'
        BY <1>1, <2>1, <2>2, <2>3, <2>7 DEF ExtractInv, TypeOK
    <2>11. QED
        BY <2>4, <2>5, <2>7, <2>8, <2>9, <2>10
<1>5. QED
    BY <1>2, <1>3, <1>4 DEF Link

LEMMA PowerLossKeeps == ASSUME ExtractInv, PowerLoss PROVE ExtractInv'
<1>1. PICK kept \in SUBSET DOMAIN dir :
          dir' = [n \in kept |-> IF dir[n].durable THEN dir[n] ELSE [content |-> Partial, durable |-> TRUE]]
    BY DEF PowerLoss
<1>2. pc' = [p \in Procs |-> "idle"] /\ job' = [p \in Procs |-> NoJob] /\ runs' = runs
    BY DEF PowerLoss
<1>3. \A n \in DOMAIN dir' : dir'[n] \in FileType
    BY <1>1, ContentsAssumption DEF ExtractInv, TypeOK, FileType
<1>4. excused' \subseteq Procs \X (1 .. MaxRuns)
    <2>1. \A p \in Procs : pc[p] # "idle" => runs[p] \in 1 .. MaxRuns
        BY ActiveRuns
    <2>2. QED
        BY <2>1 DEF PowerLoss, ExtractInv, TypeOK
<1>5. TypeOK'
    BY <1>1, <1>2, <1>3, <1>4, NoJobTyped DEF ExtractInv, TypeOK, PCs
<1>6. ArtifactsFit'
    <2>1. \A n \in Artifacts' : n \in Artifacts /\ dir'[n] = dir[n]
        BY <1>1 DEF Artifacts, ExtractInv, ArtifactsFit
    <2>2. QED
        BY <2>1 DEF ExtractInv, ArtifactsFit
<1>7. \A p \in Procs : CallInv(p)'
    BY <1>2, IdleFits
<1>8. QED
    BY <1>5, <1>6, <1>7 DEF ExtractInv

LEMMA OthersInstallNothing ==
    ASSUME ExtractInv, NEW p \in Procs, Step(p), ~Link(p)
    PROVE  Kept(p)
    BY RefuseKeeps, BeginKeeps, CreateKeeps, CopyRawKeeps, SyncKeeps, EncodingsKeeps, ChainKeeps,
       DecodeKeeps, DetectKeeps, UnlinkKeeps, HashKeeps, CleanupKeeps, CrashKeeps DEF Step

\* Every step of a process keeps the invariant, for itself and for the others.
LEMMA StepEffect ==
    ASSUME ExtractInv, NEW p \in Procs, Step(p)
    PROVE  TypeOK' /\ CallInv(p)' /\ Alone(p) /\ LeavesAlone(p) /\ ArtifactsFit'
<1>1. CASE Link(p)
    BY <1>1, LinkKeeps
<1>2. CASE ~Link(p)
    BY <1>2, OthersInstallNothing, ArtifactsKept DEF Kept
<1>3. QED
    BY <1>1, <1>2

LEMMA StepKeeps == ASSUME ExtractInv, NEW p \in Procs, Step(p) PROVE ExtractInv'
    BY StepEffect, OthersKept DEF ExtractInv

\* No process changes or removes an artifact.
LEMMA ArtifactsStay ==
    ASSUME ExtractInv, NEW p \in Procs, Step(p), NEW n \in Artifacts
    PROVE  n \in Artifacts' /\ dir'[n] = dir[n]
<1>1. LeavesAlone(p)
    BY StepEffect
<1>2. runs[p] # 0 => n \notin {RawTemp(p), DecodedTemp(p)}
    BY TempsAreTemps, NoTempIsArtifact DEF Artifacts, RawTemp, DecodedTemp, Stages, ExtractInv
<1>3. QED
    BY <1>1, <1>2 DEF LeavesAlone, Spares, Artifacts

\* What holds of the directory and of every call in it at each step.
THEOREM ExtractInvariant == Spec => []ExtractInv
<1>1. Init => ExtractInv
    <2> SUFFICES ASSUME Init PROVE ExtractInv
        OBVIOUS
    <2>1. TypeOK
        BY InitialAssumption, NoJobTyped, LimitAssumption DEF Init, TypeOK, PCs
    <2>2. ArtifactsFit
        BY InitialAssumption DEF Init, ArtifactsFit, Artifacts
    <2>3. \A p \in Procs : CallInv(p)
        BY DEF Init, CallInv, NoJob, LocalsFit, Installing, TempsFit, TargetsFit, RawStaged, DecodedStaged,
           ImageIn, RawIn
    <2>4. QED
        BY <2>1, <2>2, <2>3 DEF ExtractInv
<1>2. ExtractInv /\ [Next]_vars => ExtractInv'
    <2> SUFFICES ASSUME ExtractInv, [Next]_vars PROVE ExtractInv'
        OBVIOUS
    <2>1. CASE UNCHANGED vars
        BY <2>1 DEF vars, ExtractInv, TypeOK, ArtifactsFit, Artifacts, CallInv, TempsFit, TargetsFit, Holds,
           RawTemp, DecodedTemp, TempName
    <2>2. CASE Next
        BY <2>1, <2>2, StepKeeps, PowerLossKeeps DEF Next, Terminated
    <2>3. QED
        BY <2>1, <2>2
<1>3. QED
    BY <1>1, <1>2, PTL DEF Spec

\* The types.
THEOREM ExtractTyped == Spec => []TypeOK
    BY ExtractInvariant, PTL DEF ExtractInv

\* Whatever fails, is killed or loses power, an artifact that extraction installed
\* holds what its name says.
THEOREM Integrity == Spec => []ArtifactIntegrity
<1>1. ExtractInv => ArtifactIntegrity
    BY DEF ExtractInv, ArtifactsFit, ArtifactIntegrity
<1>2. QED
    BY <1>1, ExtractInvariant, PTL

-----------------------------------------------------------------------------
(* Results.                                                                 *)

\* A step returns one result or none.
LEMMA ResultsChange ==
    ASSUME [Next]_vars
    PROVE  \/ results' = results
           \/ \E p \in Procs : Cleanup(p) /\ job[p].ok /\ results' = results \cup {ResultOf(p)}
    BY DEF Next, Step, vars, Refuse, Begin, Create, CopyRaw, Sync, Encodings, Chain, Decode, Detect, DetectFails,
       Link, Unlink, Hash, Cleanup, Crash, PowerLoss, Terminated

\* What is known of a result when it is returned.
LEMMA ResultFits ==
    ASSUME ExtractInv, NEW p \in Procs, Cleanup(p), job[p].ok
    PROVE  LET r == ResultOf(p)
           IN /\ r.coding = job[p].coding /\ r.rawHash = job[p].raw /\ r.decodedHash = job[p].decoded
              /\ r.image = ImageName(job[p].decoded, job[p].type) /\ r.dedup = job[p].dedup
              /\ TruthfulImage(job[p])
              /\ r.image \in Artifacts /\ dir[r.image].content = r.decodedHash
              /\ r.raw \in Artifacts /\ dir[r.raw].content = r.rawHash
              /\ <<r.image, dir[r.image].content>> \in Matching /\ <<r.raw, dir[r.raw].content>> \in Matching
<1> DEFINE r == ResultOf(p)
<1>1. /\ r.coding = job[p].coding /\ r.rawHash = job[p].raw /\ r.decodedHash = job[p].decoded
      /\ r.image = ImageName(job[p].decoded, job[p].type) /\ r.dedup = job[p].dedup
      /\ r.raw = IF job[p].coding = "coded" THEN RawName(job[p].raw) ELSE r.image
    BY DEF ResultOf
<1>2. /\ job[p] \in JobType /\ TruthfulImage(job[p]) /\ TargetsFit(p)
      /\ job[p].coding = "coded" => job[p].artifact = "raw"
    BY DEF ExtractInv, TypeOK, CallInv, LocalsFit
<1> HIDE DEF r
<1>3. Holds(r.image, job[p].decoded) /\ (job[p].coding = "coded" => Holds(r.raw, job[p].raw))
    BY <1>1, <1>2 DEF TargetsFit, ImageIn, RawIn
<1>4. r.image \in ArtifactNames /\ <<r.image, job[p].decoded>> \in Matching
    BY <1>1, <1>2 DEF TruthfulImage, JobType, ArtifactNames, Matching
<1>5. job[p].coding = "coded" => r.raw \in ArtifactNames /\ <<r.raw, job[p].raw>> \in Matching
    BY <1>1, <1>2 DEF JobType, ArtifactNames, Matching
<1>6. job[p].coding # "coded" => r.raw = r.image /\ job[p].raw = job[p].decoded
    BY <1>1, <1>2 DEF TruthfulImage
<1>7. QED
    BY <1>1, <1>2, <1>3, <1>4, <1>5, <1>6 DEF Holds, Artifacts, r

\* A result tells the truth about its entry, whatever else was going on.
THEOREM Truthful == Spec => []ResultsTruthful
<1>1. Init => ResultsTruthful
    BY DEF Init, ResultsTruthful
<1>2. ExtractInv /\ ResultsTruthful /\ [Next]_vars => ResultsTruthful'
    <2> SUFFICES ASSUME ExtractInv, ResultsTruthful, [Next]_vars, NEW r \in results', r \notin results
                 PROVE  /\ r.decodedHash = IF r.coding = "coded" THEN Decoding[r.rawHash] ELSE r.rawHash
                        /\ r.image[3] = Type[r.decodedHash] /\ r.image[3] # "none"
                        /\ r.coding = "coded" => Size[r.decodedHash] <= Limit
        BY DEF ResultsTruthful
    <2>1. PICK p \in Procs : Cleanup(p) /\ job[p].ok /\ r = ResultOf(p)
        BY ResultsChange
    <2>2. /\ r.coding = job[p].coding /\ r.rawHash = job[p].raw /\ r.decodedHash = job[p].decoded
          /\ r.image = ImageName(job[p].decoded, job[p].type)
          /\ TruthfulImage(job[p])
        BY <2>1, ResultFits
    <2>3. r.image[3] = job[p].type
        BY <2>2 DEF ImageName
    <2>4. QED
        BY <2>2, <2>3 DEF TruthfulImage
<1>3. QED
    BY <1>1, <1>2, ExtractInvariant, PTL DEF Spec

LEMMA ResultsStayBacked == ExtractInv /\ ResultsBacked /\ [Next]_vars => ResultsBacked'
<1> SUFFICES ASSUME ExtractInv, ResultsBacked, [Next]_vars, ~MayLosePower, NEW r \in results'
             PROVE  /\ r.image \in Artifacts' /\ dir'[r.image].content = r.decodedHash
                    /\ r.raw \in Artifacts' /\ dir'[r.raw].content = r.rawHash
    BY DEF ResultsBacked
<1>1. /\ r.image \in Artifacts /\ dir[r.image].content = r.decodedHash
      /\ r.raw \in Artifacts /\ dir[r.raw].content = r.rawHash
    <2>1. CASE r \in results
        BY <2>1 DEF ResultsBacked
    <2>2. CASE r \notin results
        <3>1. PICK p \in Procs : Cleanup(p) /\ job[p].ok /\ r = ResultOf(p)
            BY <2>2, ResultsChange
        <3>2. QED
            BY <3>1, ResultFits
    <2>3. QED
        BY <2>1, <2>2
<1>2. \A n \in Artifacts : n \in Artifacts' /\ dir'[n] = dir[n]
    <2>1. CASE \E p \in Procs : Step(p)
        BY <2>1, ArtifactsStay
    <2>2. CASE dir' = dir
        BY <2>2 DEF Artifacts
    <2>3. QED
        BY <2>1, <2>2 DEF Next, PowerLoss, Terminated, vars
<1>3. QED
    BY <1>1, <1>2

\* While the power lasts, what a result names is there and holds what it says.
THEOREM Backed == Spec => []ResultsBacked
<1>1. Init => ResultsBacked
    BY DEF Init, ResultsBacked
<1>2. QED
    BY <1>1, ResultsStayBacked, ExtractInvariant, PTL DEF Spec

-----------------------------------------------------------------------------
(* One call only is told that its image is new.                             *)

ImageOf(p) == ImageName(job[p].decoded, job[p].type)

\* A call that has installed its image, and did not find it there.
IsFresh(p) == ImageIn(pc[p], job[p]) /\ ~job[p].dedup

FreshOnce ==
    ~MayLosePower =>
        /\ \A q, r \in results : q.image = r.image /\ ~q.dedup /\ ~r.dedup => q = r
        /\ \A p \in Procs, r \in results : IsFresh(p) /\ ~r.dedup => ImageOf(p) # r.image
        /\ \A p, q \in Procs : p # q /\ IsFresh(p) /\ IsFresh(q) => ImageOf(p) # ImageOf(q)

\* The image of a fresh call is in the directory.
LEMMA FreshIsIn ==
    ASSUME ExtractInv, NEW p \in Procs, IsFresh(p)
    PROVE  ImageOf(p) \in Artifacts
<1>1. /\ job[p] \in JobType /\ LocalsFit(pc[p], job[p]) /\ TargetsFit(p)
    BY DEF ExtractInv, TypeOK, CallInv
<1>2. TruthfulImage(job[p])
    BY <1>1 DEF IsFresh, ImageIn, LocalsFit, Installing
<1>3. ImageOf(p) \in ArtifactNames
    BY <1>1, <1>2 DEF ImageOf, TruthfulImage, JobType, ArtifactNames
<1>4. ImageOf(p) \in DOMAIN dir
    BY <1>1 DEF IsFresh, TargetsFit, Holds, ImageOf
<1>5. QED
    BY <1>3, <1>4 DEF Artifacts

\* A call becomes fresh only by a link to a name that was not there.
LEMMA BecomesFresh ==
    ASSUME ExtractInv, NEW p \in Procs, Step(p), IsFresh(p)'
    PROVE  \/ IsFresh(p) /\ ImageOf(p)' = ImageOf(p)
           \/ ImageOf(p)' \notin Artifacts
<1> DEFINE w == pc'[p]
           j == job'[p]
<1>1. /\ job[p] \in JobType /\ LocalsFit(pc[p], job[p]) /\ TypeOK
      /\ \A where, k : Goto(p, where, k) => w = where /\ j = k
    BY DEF ExtractInv, TypeOK, CallInv, Goto
<1>2. ~Fail(p) \/ pc[p] = "cleaning"
    BY <1>1 DEF Fail, IsFresh, ImageIn, LocalsFit, Installing
<1>3. \A call : ~FailBy(p, call) \/ pc[p] = "cleaning"
    BY <1>1 DEF FailBy, IsFresh, ImageIn, LocalsFit, Installing, JobType
<1>4. CASE Link(p)
    <2>1. pc[p] = "link" /\ j = job[p] /\ w \in {"unlink", "hash"}
          /\ (w = "unlink" => TargetOf(job[p]) \notin DOMAIN dir)
        BY <1>1, <1>3, <1>4 DEF Link
    <2>2. CASE job[p].artifact = "raw"
        BY <2>1, <2>2 DEF IsFresh, ImageIn, ImageOf, Installing
    <2>3. CASE job[p].artifact # "raw"
        <3>1. w = "unlink"
            BY <1>1, <2>1, <2>3 DEF IsFresh, ImageIn, LocalsFit, Installing
        <3>2. TargetOf(job[p]) = ImageOf(p)'
            BY <1>1, <2>1, <2>3 DEF TargetOf, ImageOf, JobType
        <3>3. QED
            BY <2>1, <3>1, <3>2 DEF Artifacts
    <2>4. QED
        BY <2>2, <2>3
<1>5. CASE Unlink(p)
    <2>1. pc[p] = "unlink" /\ Installed(p, job[p])
        BY <1>3, <1>5 DEF Unlink
    <2>2. j.decoded = job[p].decoded /\ j.type = job[p].type /\ j.dedup = job[p].dedup
        BY <1>1, <2>1 DEF Installed, JobType
    <2>3. QED
        BY <2>1, <2>2 DEF IsFresh, ImageIn, ImageOf
<1>6. CASE Hash(p)
    <2>1. pc[p] = "hash" /\ Installed(p, IF job[p].artifact = "image" THEN [job[p] EXCEPT !.dedup = TRUE]
                                         ELSE job[p])
        BY <1>2, <1>3, <1>6 DEF Hash
    <2>2. CASE job[p].artifact = "image"
        <3> DEFINE k == [job[p] EXCEPT !.dedup = TRUE]
        <3>1. k.dedup /\ k \in JobType
            BY <1>1 DEF JobType
        <3>2. Installed(p, k)
            BY <2>1, <2>2
        <3> HIDE DEF k
        <3>3. j.dedup
            BY <1>1, <3>1, <3>2 DEF Installed, JobType
        <3>4. QED
            BY <3>3 DEF IsFresh
    <2>3. CASE job[p].artifact # "image"
        <3>1. j.decoded = job[p].decoded /\ j.type = job[p].type /\ j.dedup = job[p].dedup
            BY <1>1, <2>1, <2>3 DEF Installed, JobType
        <3>2. QED
            BY <1>1, <2>1, <2>3, <3>1 DEF IsFresh, ImageIn, ImageOf, Installing, JobType
    <2>4. QED
        BY <2>2, <2>3
<1>7. CASE Refuse(p) \/ Begin(p)
    <2>1. CASE Refuse(p)
        BY <2>1 DEF Refuse, IsFresh, ImageOf
    <2>2. CASE Begin(p)
        <3>1. PICK b \in Bodies : Goto(p, "create", [NoJob EXCEPT !.coding = b.coding, !.body = b.raw])
            BY <2>2 DEF Begin
        <3> DEFINE k == [NoJob EXCEPT !.coding = b.coding, !.body = b.raw]
        <3>2. ~k.ok /\ Goto(p, "create", k)
            BY <3>1, NoJobTyped DEF NoJob
        <3> HIDE DEF k
        <3>3. w = "create" /\ ~j.ok
            BY <1>1, <3>2
        <3>4. QED
            BY <3>3 DEF IsFresh, ImageIn, Installing
    <2>3. QED
        BY <1>7, <2>1, <2>2
<1>8. CASE Cleanup(p) \/ Crash(p)
    BY <1>1, <1>8 DEF Cleanup, Crash, IsFresh, ImageIn, Installing, NoJob
<1>9. CASE Create(p) \/ CopyRaw(p) \/ Sync(p) \/ Encodings(p) \/ Chain(p) \/ Decode(p)
    <2>1. pc[p] \notin Installing \cup {"cleaning"} /\ ~job[p].ok
        BY <1>1, <1>9 DEF LocalsFit, Installing, Create, CopyRaw, Sync, Encodings, Chain, Decode
    <2>2. w \notin Installing /\ ~j.ok
        <3>1. CASE Create(p) \/ Chain(p) \/ Sync(p)
            <4>1. \E where \in {"copy", "decode", "create", "encodings", "detect"} : Goto(p, where, job[p])
                BY <1>2, <1>3, <2>1, <3>1 DEF Create, Chain, Sync
            <4>2. QED
                BY <1>1, <2>1, <4>1 DEF Installing
        <3>2. CASE CopyRaw(p)
            <4>1. PICK c : Goto(p, "sync", [job[p] EXCEPT !.raw = c])
                BY <1>3, <2>1, <3>2 DEF CopyRaw
            <4>2. QED
                BY <1>1, <2>1, <4>1 DEF Installing, JobType
        <3>3. CASE Encodings(p)
            BY <1>1, <1>2, <2>1, <3>3 DEF Encodings, Installing, JobType
        <3>4. CASE Decode(p)
            <4>1. PICK c, n : Goto(p, "sync", [job[p] EXCEPT !.decoded = c, !.written = n])
                BY <1>2, <1>3, <2>1, <3>4 DEF Decode
            <4> DEFINE k == [job[p] EXCEPT !.decoded = c, !.written = n]
            <4>2. ~k.ok /\ Goto(p, "sync", k)
                BY <1>1, <2>1, <4>1 DEF JobType
            <4> HIDE DEF k
            <4>3. QED
                BY <1>1, <4>2 DEF Installing
        <3>5. QED
            BY <1>9, <3>1, <3>2, <3>3, <3>4
    <2>3. QED
        BY <2>2 DEF IsFresh, ImageIn, Installing
<1>10. CASE Detect(p) \/ DetectFails(p)
    <2>1. pc[p] = "detect" /\ ~job[p].ok /\ job[p].artifact = "image"
        BY <1>1, <1>10 DEF LocalsFit, Installing, Detect, DetectFails
    <2>2. w = "link" /\ ~j.ok /\ j.artifact = "image"
        BY <1>1, <1>2, <1>3, <1>10, <2>1 DEF Detect, DetectFails, JobType
    <2>3. QED
        BY <2>2 DEF IsFresh, ImageIn
<1>11. QED
    BY <1>4, <1>5, <1>6, <1>7, <1>8, <1>9, <1>10 DEF Step

LEMMA OthersFreshness ==
    ASSUME ExtractInv, NEW p \in Procs, Step(p), NEW q \in Procs, q # p
    PROVE  /\ IsFresh(q)' = IsFresh(q) /\ ImageOf(q)' = ImageOf(q)
<1>1. pc'[q] = pc[q] /\ job'[q] = job[q]
    BY StepEffect DEF Alone
<1>2. QED
    BY <1>1 DEF IsFresh, ImageOf, ImageIn

\* A step that returns no result.
LEMMA FreshKeptQuietly ==
    ASSUME ExtractInv, ResultsBacked, FreshOnce, ~MayLosePower, NEW p \in Procs, Step(p), results' = results
    PROVE  FreshOnce'
<1>1. ASSUME NEW q \in Procs, NEW r \in results, IsFresh(q)', ~r.dedup
      PROVE  ImageOf(q)' # r.image
    <2>1. r.image \in Artifacts
        BY DEF ResultsBacked
    <2>2. CASE q = p
        BY <1>1, <2>1, <2>2, BecomesFresh DEF FreshOnce
    <2>3. CASE q # p
        BY <1>1, <2>3, OthersFreshness DEF FreshOnce
    <2>4. QED
        BY <2>2, <2>3
<1>2. ASSUME NEW q \in Procs, q # p, IsFresh(q)', IsFresh(p)'
      PROVE  ImageOf(q)' # ImageOf(p)'
    <2>1. IsFresh(q) /\ ImageOf(q)' = ImageOf(q)
        BY <1>2, OthersFreshness
    <2>2. ImageOf(q) \in Artifacts
        BY <2>1, FreshIsIn
    <2>3. QED
        BY <1>2, <2>1, <2>2, BecomesFresh DEF FreshOnce
<1>3. ASSUME NEW q \in Procs, NEW r \in Procs, q # r, IsFresh(q)', IsFresh(r)'
      PROVE  ImageOf(q)' # ImageOf(r)'
    <2>1. CASE q # p /\ r # p
        BY <1>3, <2>1, OthersFreshness DEF FreshOnce
    <2>2. QED
        BY <1>2, <1>3, <2>1
<1>4. QED
    BY <1>1, <1>3 DEF FreshOnce

\* A call that returns one.
LEMMA FreshKeptByReturn ==
    ASSUME ExtractInv, FreshOnce, ~MayLosePower, NEW p \in Procs, Cleanup(p), job[p].ok,
           results' = results \cup {ResultOf(p)}
    PROVE  FreshOnce'
<1> DEFINE new == ResultOf(p)
<1>1. new.image = ImageOf(p) /\ new.dedup = job[p].dedup
    BY ResultFits DEF ImageOf
<1>2. ~new.dedup => IsFresh(p)
    BY <1>1 DEF IsFresh, ImageIn
<1>3. ~IsFresh(p)'
    <2>1. pc'[p] = "idle" /\ job'[p] = NoJob
        BY DEF Cleanup, Goto, ExtractInv, TypeOK
    <2>2. QED
        BY <2>1 DEF IsFresh, ImageIn, NoJob, Installing
<1>4. \A q \in Procs : IsFresh(q)' => q # p /\ IsFresh(q) /\ ImageOf(q)' = ImageOf(q)
    BY <1>3, OthersFreshness DEF Step
<1> HIDE DEF new
<1>5. results' = results \cup {new}
    BY DEF new
<1>6. ASSUME NEW q \in results', NEW r \in results', q.image = r.image, ~q.dedup, ~r.dedup
      PROVE  q = r
    BY <1>1, <1>2, <1>5, <1>6 DEF FreshOnce
<1>7. ASSUME NEW q \in Procs, NEW r \in results', IsFresh(q)', ~r.dedup
      PROVE  ImageOf(q)' # r.image
    BY <1>1, <1>2, <1>4, <1>5, <1>7 DEF FreshOnce
<1>8. ASSUME NEW q \in Procs, NEW r \in Procs, q # r, IsFresh(q)', IsFresh(r)'
      PROVE  ImageOf(q)' # ImageOf(r)'
    BY <1>4, <1>8 DEF FreshOnce
<1>9. QED
    BY <1>6, <1>7, <1>8 DEF FreshOnce

\* Of all the results that name an image, at most one says it is new.
THEOREM Fresh == Spec => []OneIsFresh
<1>1. Init => FreshOnce
    BY DEF Init, FreshOnce, IsFresh, ImageIn, NoJob, Installing
<1>2. ExtractInv /\ ResultsBacked /\ FreshOnce /\ [Next]_vars => FreshOnce'
    <2> SUFFICES ASSUME ExtractInv, ResultsBacked, FreshOnce, [Next]_vars, ~MayLosePower PROVE FreshOnce'
        BY DEF FreshOnce
    <2>1. CASE UNCHANGED vars
        BY <2>1 DEF vars, FreshOnce, IsFresh, ImageOf, ImageIn
    <2>2. CASE \E p \in Procs : Step(p)
        <3>1. CASE results' = results
            BY <2>2, <3>1, FreshKeptQuietly
        <3>2. CASE \E p \in Procs : Cleanup(p) /\ job[p].ok /\ results' = results \cup {ResultOf(p)}
            BY <3>2, FreshKeptByReturn
        <3>3. QED
            BY <3>1, <3>2, ResultsChange
    <2>3. QED
        BY <2>1, <2>2 DEF Next, PowerLoss, Terminated
<1>3. FreshOnce => OneIsFresh
    BY DEF FreshOnce, OneIsFresh
<1>4. QED
    BY <1>1, <1>2, <1>3, Backed, ExtractInvariant, PTL DEF Spec

-----------------------------------------------------------------------------
(* No staging file stays.                                                   *)

\* What a step does to the staging files of its process, and to the excuses: a
\* new file is one of the current call, and a call ends without files or excused.
Accounted(p) ==
    /\ excused \subseteq excused'
    /\ \A n \in (DOMAIN dir' \ DOMAIN dir) \cap TempNames : n[3] = p /\ n[4] = runs'[p] /\ pc'[p] # "idle"
    /\ pc[p] # "idle" =>
           \/ runs'[p] = runs[p] /\ pc'[p] # "idle"
           \/ <<p, runs[p]>> \in excused'
           \/ \A stage \in Stages : TempName(p, stage) \notin DOMAIN dir'

\* The steps between the first and the return.
WorkingStep(p) == \/ Create(p) \/ CopyRaw(p) \/ Sync(p) \/ Encodings(p) \/ Chain(p) \/ Decode(p)
                  \/ Detect(p) \/ DetectFails(p) \/ Link(p) \/ Unlink(p) \/ Hash(p)

LEMMA WorkingAccounted ==
    ASSUME ExtractInv, NEW p \in Procs, WorkingStep(p)
    PROVE  Accounted(p)
<1>1. excused' = excused /\ runs' = runs
    BY DEF WorkingStep, Create, CopyRaw, Sync, Encodings, Chain, Decode, Detect, DetectFails, Link, Unlink, Hash
<1>2. \A where, k : Goto(p, where, k) => pc'[p] = where
    BY DEF Goto, ExtractInv, TypeOK
<1>3. \A k : Installed(p, k) => pc'[p] # "idle"
    BY <1>2 DEF Installed
<1>4. Fail(p) => pc'[p] # "idle"
    BY <1>2 DEF Fail
<1>5. \A call : FailBy(p, call) => pc'[p] # "idle"
    BY <1>2 DEF FailBy
<1>6. pc'[p] # "idle"
    BY <1>2, <1>3, <1>4, <1>5 DEF WorkingStep, Create, CopyRaw, Sync, Encodings, Chain, Decode, Detect,
       DetectFails, Link, Unlink, Hash
<1>7. \A n \in (DOMAIN dir' \ DOMAIN dir) \cap TempNames : \E s : n = TempName(p, s)
    <2> SUFFICES ASSUME NEW n \in (DOMAIN dir' \ DOMAIN dir) \cap TempNames PROVE \E s : n = TempName(p, s)
        OBVIOUS
    <2>1. CASE \E s, c, b : dir' = WithFile(dir, TempName(p, s), c, b)
        <3>1. PICK s, c, b : dir' = WithFile(dir, TempName(p, s), c, b)
            BY <2>1
        <3>2. DOMAIN dir' = DOMAIN dir \cup {TempName(p, s)}
            BY <3>1, WithFileIs
        <3>3. QED
            BY <3>2
    <2>2. CASE Create(p) \/ CopyRaw(p)
        BY <2>1, <2>2 DEF Create, CopyRaw
    <2>3. CASE Decode(p)
        BY <2>1, <2>3 DEF Decode
    <2>4. CASE Sync(p)
        BY <2>1, <2>4 DEF Sync, Sealed
    <2>5. CASE Link(p)
        <3>1. TargetOf(job[p])[1] # "temp"
            BY DEF TargetOf, ImageName, RawName
        <3>2. n[1] = "temp"
            BY DEF TempNames
        <3>3. \/ dir' = dir
              \/ \E c, b : dir' = WithFile(dir, TargetOf(job[p]), c, b)
            BY <2>5 DEF Link
        <3>4. DOMAIN dir' \subseteq DOMAIN dir \cup {TargetOf(job[p])}
            <4>1. CASE \E c, b : dir' = WithFile(dir, TargetOf(job[p]), c, b)
                <5>1. PICK c, b : dir' = WithFile(dir, TargetOf(job[p]), c, b)
                    BY <4>1
                <5>2. QED
                    BY <5>1, WithFileIs
            <4>2. QED
                BY <3>3, <4>1
        <3>5. QED
            BY <3>1, <3>2, <3>4
    <2>6. CASE Unlink(p)
        <3>1. dir' = dir \/ dir' = Without(dir, {SourceTemp(p)})
            BY <2>6 DEF Unlink
        <3>2. DOMAIN Without(dir, {SourceTemp(p)}) = DOMAIN dir \ {SourceTemp(p)}
            BY WithoutIs
        <3>3. QED
            BY <3>1, <3>2
    <2>7. CASE Encodings(p) \/ Chain(p) \/ Detect(p) \/ DetectFails(p) \/ Hash(p)
        BY <2>7 DEF Encodings, Chain, Detect, DetectFails, Hash
    <2>8. QED
        BY <2>2, <2>3, <2>4, <2>5, <2>6, <2>7 DEF WorkingStep
<1>8. \A n \in (DOMAIN dir' \ DOMAIN dir) \cap TempNames : n[3] = p /\ n[4] = runs[p]
    BY <1>7 DEF TempName
<1>9. QED
    BY <1>1, <1>6, <1>8 DEF Accounted

LEMMA StepAccounted ==
    ASSUME ExtractInv, NEW p \in Procs, Step(p)
    PROVE  Accounted(p)
<1>1. CASE Refuse(p) \/ Begin(p)
    BY <1>1 DEF Refuse, Begin, Accounted
<1>2. CASE WorkingStep(p)
    BY <1>2, WorkingAccounted
<1>3. CASE Cleanup(p)
    <2>1. PICK left \in SUBSET OwnTemps(p) :
              /\ dir' = Without(dir, OwnTemps(p) \ left)
              /\ excused' = IF left = {} THEN excused ELSE excused \cup {<<p, runs[p]>>}
        BY <1>3 DEF Cleanup
    <2>2. DOMAIN dir' = DOMAIN dir \ (OwnTemps(p) \ left)
        BY <2>1, WithoutIs
    <2>3. left = {} => \A stage \in Stages : TempName(p, stage) \notin DOMAIN dir'
        BY <2>2 DEF OwnTemps
    <2>4. QED
        BY <2>1, <2>2, <2>3 DEF Accounted
<1>4. CASE Crash(p)
    BY <1>4 DEF Crash, Accounted
<1>5. QED
    BY <1>1, <1>2, <1>3, <1>4 DEF Step, WorkingStep

LEMMA StagingAccounted ==
    ASSUME ExtractInv, NoStagingLeft, NEW p \in Procs, Step(p), NEW n \in DOMAIN dir' \cap TempNames
    PROVE  \/ <<n[3], n[4]>> \in excused'
           \/ n[4] = runs'[n[3]] /\ pc'[n[3]] # "idle"
<1>1. Accounted(p)
    BY StepAccounted
<1>2. CASE n \notin DOMAIN dir
    BY <1>1, <1>2 DEF Accounted
<1>3. CASE n \in DOMAIN dir /\ <<n[3], n[4]>> \in excused
    BY <1>1, <1>3 DEF Accounted
<1>4. CASE n[4] = runs[n[3]] /\ pc[n[3]] # "idle" /\ n[3] # p
    <2>1. n[3] \in Procs
        BY DEF TempNames
    <2>2. QED
        BY <1>4, <2>1, StepEffect DEF Alone
<1>5. CASE n[4] = runs[n[3]] /\ pc[n[3]] # "idle" /\ n[3] = p
    <2>1. n[2] \in Stages /\ n = TempName(p, n[2])
        BY <1>5 DEF TempNames, TempName
    <2>2. QED
        BY <1>1, <1>5, <2>1 DEF Accounted
<1>6. QED
    BY <1>2, <1>3, <1>4, <1>5 DEF NoStagingLeft

\* No staging file outlives its call, but for the killed and for a failing remove.
THEOREM NothingLeft == Spec => []NoStagingLeft
<1>1. Init => NoStagingLeft
    BY InitialAssumption, NoTempIsArtifact DEF Init, NoStagingLeft
<1>2. ExtractInv /\ NoStagingLeft /\ [Next]_vars => NoStagingLeft'
    <2> SUFFICES ASSUME ExtractInv, NoStagingLeft, [Next]_vars, NEW n \in DOMAIN dir' \cap TempNames
                 PROVE  \/ <<n[3], n[4]>> \in excused'
                        \/ n[4] = runs'[n[3]] /\ pc'[n[3]] # "idle"
        BY DEF NoStagingLeft, TempNames
    <2>1. CASE \E p \in Procs : Step(p)
        BY <2>1, StagingAccounted
    <2>2. CASE UNCHANGED vars
        BY <2>2 DEF NoStagingLeft, vars
    <2>3. CASE PowerLoss
        <3>1. n \in DOMAIN dir /\ n[3] \in Procs
            BY <2>3 DEF PowerLoss, TempNames
        <3>2. excused' = excused \cup {<<p, runs[p]>> : p \in {q \in Procs : pc[q] # "idle"}}
            BY <2>3 DEF PowerLoss
        <3>3. QED
            BY <3>1, <3>2 DEF NoStagingLeft
    <2>4. QED
        BY <2>1, <2>2, <2>3 DEF Next, Terminated
<1>3. QED
    BY <1>1, <1>2, ExtractInvariant, PTL DEF Spec

-----------------------------------------------------------------------------
(* A call that meets no fault extracts what can be extracted.               *)

\* A call holds what was in its entry, and gives up without a fault only on an
\* entry there is nothing to extract from.
CallClean(p) ==
    LET j == job[p]
    IN ~SourceMayChange => /\ RawStaged(pc[p], j) => j.raw = j.body
                           /\ pc[p] = "cleaning" /\ ~j.ok /\ ~j.fault => ~Extractable(j)

\* The ways a step ends.
LEMMA FailClean ==
    ASSUME ExtractInv, NEW p \in Procs, Fail(p), ~Extractable(job[p])
    PROVE  CallClean(p)'
<1>1. pc'[p] = "cleaning" /\ job'[p] = job[p]
    BY DEF Fail, Goto, ExtractInv, TypeOK
<1>2. QED
    BY <1>1 DEF CallClean, RawStaged, Installing, Extractable, Decoded

LEMMA FailByClean ==
    ASSUME ExtractInv, NEW p \in Procs, NEW call, FailBy(p, call)
    PROVE  CallClean(p)'
<1> DEFINE k == [job[p] EXCEPT !.fault = TRUE]
<1>1. job[p] \in JobType /\ k.fault /\ Goto(p, "cleaning", k)
    BY DEF FailBy, ExtractInv, TypeOK, JobType
<1> HIDE DEF k
<1>2. pc'[p] = "cleaning" /\ job'[p] = k
    BY <1>1 DEF Goto, ExtractInv, TypeOK
<1>3. QED
    BY <1>1, <1>2 DEF CallClean, RawStaged, Installing

LEMMA GoesOnClean ==
    ASSUME ExtractInv, NEW p \in Procs, NEW where, NEW j, Goto(p, where, j), where # "cleaning",
           ~SourceMayChange /\ RawStaged(where, j) => j.raw = j.body
    PROVE  CallClean(p)'
<1>1. pc'[p] = where /\ job'[p] = j
    BY DEF Goto, ExtractInv, TypeOK
<1>2. QED
    BY <1>1 DEF CallClean

LEMMA InstalledClean ==
    ASSUME ExtractInv, NEW p \in Procs, CallClean(p), pc[p] \in Installing,
           NEW j \in JobType, j.raw = job[p].raw, j.body = job[p].body, Installed(p, j)
    PROVE  CallClean(p)'
<1>1. ~SourceMayChange => j.raw = j.body
    BY DEF CallClean, RawStaged
<1>2. CASE Goto(p, "link", [j EXCEPT !.artifact = "raw"])
    <2> DEFINE k == [j EXCEPT !.artifact = "raw"]
    <2>1. k.raw = j.raw /\ k.body = j.body /\ Goto(p, "link", k)
        BY <1>2 DEF JobType
    <2> HIDE DEF k
    <2>2. QED
        BY <1>1, <2>1, GoesOnClean
<1>3. CASE Goto(p, "cleaning", [j EXCEPT !.ok = TRUE])
    <2> DEFINE k == [j EXCEPT !.ok = TRUE]
    <2>1. k.ok /\ Goto(p, "cleaning", k)
        BY <1>3 DEF JobType
    <2> HIDE DEF k
    <2>2. pc'[p] = "cleaning" /\ job'[p] = k
        BY <2>1 DEF Goto, ExtractInv, TypeOK
    <2>3. QED
        BY <2>1, <2>2 DEF CallClean, RawStaged, Installing
<1>4. QED
    BY <1>2, <1>3 DEF Installed

\* A body too large is not extractable, and what was decoded within the limit is
\* the whole body: the reader has room for one byte more.
LEMMA LimitIsExact ==
    ASSUME Limit < MaxInt, NEW j \in JobType, j.coding = "coded", DecodedSoFar(j)
    PROVE  IF TooLarge(j.written) THEN Size[Decoding[j.raw]] > Limit ELSE j.decoded = Decoding[j.raw]
<1> DEFINE c == Decoding[j.raw]
<1>1. c \in Contents /\ j.decoded = CappedAt(ReaderCap, c) /\ j.written = WrittenOf(ReaderCap, c)
    BY ContentsAssumption DEF DecodedSoFar, JobType
<1>2. Size[c] \in Nat /\ Limit \in Nat /\ MaxInt \in Nat
    BY <1>1, ContentsAssumption, LimitAssumption
<1>3. ReaderCap = Limit + 1
    BY <1>2 DEF ReaderCap, Wrapped
<1> HIDE DEF c
<1>4. IF TooLarge(j.written) THEN Size[c] > Limit ELSE j.decoded = c
    BY <1>1, <1>2, <1>3 DEF CappedAt, WrittenOf, TooLarge
<1>5. QED
    BY <1>4 DEF c

\* An artifact that is in the way of a sound entry is the right one.
LEMMA MismatchIsOld ==
    ASSUME ExtractInv, NEW p \in Procs, CallClean(p), pc[p] = "hash", ~HashMatches(p)
    PROVE  ~Extractable(job[p])
<1> SUFFICES ASSUME Extractable(job[p]) PROVE FALSE
    OBVIOUS
<1> DEFINE target == TargetOf(job[p])
<1>1. /\ job[p] \in JobType /\ TruthfulImage(job[p]) /\ target \in DOMAIN dir
    BY DEF ExtractInv, TypeOK, CallInv, LocalsFit, Installing, TargetsFit
<1>2. job[p].raw = job[p].body
    BY DEF CallClean, RawStaged, Installing, Extractable
<1>3. job[p].decoded = Decoded(job[p]) /\ job[p].type = Type[Decoded(job[p])]
    BY <1>1, <1>2 DEF TruthfulImage, Decoded
<1>4. target \notin DOMAIN InitialDir
    BY <1>2, <1>3 DEF Extractable, TargetOf
<1>5. target \in Artifacts
    BY <1>1, TargetIsArtifact DEF Artifacts, TruthfulImage
<1>6. target[2] = dir[target].content
    BY <1>4, <1>5 DEF ExtractInv, ArtifactsFit, Matches
<1>7. target[2] = ExpectedOf(job[p])
    BY DEF TargetOf, ExpectedOf, ImageName, RawName
<1>8. QED
    BY <1>6, <1>7 DEF HashMatches

LEMMA StepClean ==
    ASSUME ExtractInv, Limit < MaxInt, NEW p \in Procs, CallClean(p), Step(p)
    PROVE  CallClean(p)'
<1>1. job[p] \in JobType /\ LocalsFit(pc[p], job[p]) /\ TempsFit(p)
    BY DEF ExtractInv, TypeOK, CallInv
<1>2. \A call : FailBy(p, call) => CallClean(p)'
    BY FailByClean
<1>3. CASE Refuse(p)
    BY <1>3 DEF Refuse, CallClean
<1>4. CASE Begin(p)
    <2>1. PICK b \in Bodies : Goto(p, "create", [NoJob EXCEPT !.coding = b.coding, !.body = b.raw])
        BY <1>4 DEF Begin
    <2> DEFINE k == [NoJob EXCEPT !.coding = b.coding, !.body = b.raw]
    <2>2. k.stage = "raw" /\ Goto(p, "create", k)
        BY <2>1 DEF NoJob
    <2> HIDE DEF k
    <2>3. QED
        BY <2>2, GoesOnClean DEF RawStaged, Installing
<1>5. CASE Create(p)
    <2>1. CASE FailBy(p, "create")
        BY <1>2, <2>1
    <2>2. CASE Goto(p, IF job[p].stage = "raw" THEN "copy" ELSE "decode", job[p])
        <3> DEFINE where == IF job[p].stage = "raw" THEN "copy" ELSE "decode"
        <3>1. where # "cleaning" /\ (RawStaged(where, job[p]) => RawStaged(pc[p], job[p]))
            BY <1>1, <1>5 DEF RawStaged, Create, Installing, JobType, Stages
        <3>2. QED
            BY <2>2, <3>1, GoesOnClean DEF CallClean
    <2>3. QED
        BY <1>5, <2>1, <2>2 DEF Create
<1>6. CASE CopyRaw(p)
    <2>1. CASE FailBy(p, "write")
        BY <1>2, <2>1
    <2>2. ASSUME NEW c \in Copied(p), Goto(p, "sync", [job[p] EXCEPT !.raw = c])
          PROVE  CallClean(p)'
        <3> DEFINE k == [job[p] EXCEPT !.raw = c]
        <3>1. /\ k.raw = c /\ k.body = job[p].body /\ Goto(p, "sync", k)
              /\ ~SourceMayChange => c = job[p].body
            BY <1>1, <2>2 DEF JobType, Copied
        <3> HIDE DEF k
        <3>2. QED
            BY <3>1, GoesOnClean
    <2>3. QED
        BY <1>6, <2>1, <2>2 DEF CopyRaw
<1>7. CASE Sync(p)
    <2>1. CASE FailBy(p, "sync")
        BY <1>2, <2>1
    <2>2. CASE job[p].stage = "raw" /\ Goto(p, "encodings", job[p])
        BY <1>7, <2>2, GoesOnClean DEF Sync, CallClean, RawStaged
    <2>3. CASE job[p].stage # "raw" /\ TooLarge(job[p].written) /\ Fail(p)
        <3>1. job[p].coding = "coded" /\ DecodedSoFar(job[p])
            BY <1>1, <1>7, <2>3 DEF Sync, LocalsFit, JobType, Stages
        <3>2. Size[Decoding[job[p].raw]] > Limit
            BY <1>1, <2>3, <3>1, LimitIsExact
        <3>3. ~Extractable(job[p])
            <4>1. SUFFICES ASSUME Extractable(job[p]) PROVE FALSE
                OBVIOUS
            <4>2. job[p].raw = job[p].body
                BY <1>7, <4>1 DEF Sync, CallClean, RawStaged, Extractable
            <4>3. Decoding[job[p].raw] \in Contents
                BY <1>1, <3>1, ContentsAssumption DEF DecodedSoFar, JobType
            <4>4. QED
                BY <3>1, <3>2, <4>1, <4>2, <4>3, ContentsAssumption, LimitAssumption DEF Extractable, Decoded
        <3>4. QED
            BY <2>3, <3>3, FailClean
    <2>4. CASE job[p].stage # "raw" /\ Goto(p, "detect", job[p])
        BY <1>7, <2>4, GoesOnClean DEF Sync, CallClean, RawStaged
    <2>5. QED
        BY <1>7, <2>1, <2>2, <2>3, <2>4 DEF Sync
<1>8. CASE Encodings(p)
    <2>1. CASE job[p].coding = "unsupported" /\ Fail(p)
        BY <2>1, FailClean DEF Extractable
    <2>2. ASSUME NEW where \in {"detect", "chain"}, NEW k, k.raw = job[p].raw, k.body = job[p].body, Goto(p, where, k)
          PROVE  CallClean(p)'
        BY <1>8, <2>2, GoesOnClean DEF Encodings, CallClean, RawStaged
    <2>3. CASE Goto(p, "detect", [job[p] EXCEPT !.decoded = job[p].raw])
        <3> DEFINE k == [job[p] EXCEPT !.decoded = job[p].raw]
        <3>1. k.raw = job[p].raw /\ k.body = job[p].body /\ Goto(p, "detect", k)
            BY <1>1, <2>3 DEF JobType
        <3> HIDE DEF k
        <3>2. QED
            BY <2>2, <3>1
    <2>4. CASE Goto(p, "chain", [job[p] EXCEPT !.stage = "decoded"])
        <3> DEFINE k == [job[p] EXCEPT !.stage = "decoded"]
        <3>1. k.raw = job[p].raw /\ k.body = job[p].body /\ Goto(p, "chain", k)
            BY <1>1, <2>4 DEF JobType
        <3> HIDE DEF k
        <3>2. QED
            BY <2>2, <3>1
    <2>5. QED
        BY <1>8, <2>1, <2>3, <2>4 DEF Encodings
<1>9. CASE Chain(p)
    <2>1. CASE FailBy(p, "open")
        BY <1>2, <2>1
    <2>2. CASE Decoding[job[p].raw] = Corrupt /\ Fail(p)
        <3>1. ~Extractable(job[p])
            BY <1>1, <1>9, <2>2 DEF Chain, LocalsFit, CallClean, RawStaged, Extractable, Decoded
        <3>2. QED
            BY <2>2, <3>1, FailClean
    <2>3. CASE Goto(p, "create", job[p])
        BY <1>9, <2>3, GoesOnClean DEF Chain, CallClean, RawStaged
    <2>4. QED
        BY <1>9, <2>1, <2>2, <2>3 DEF Chain
<1>10. CASE Decode(p)
    <2>1. CASE FailBy(p, "write")
        BY <1>2, <2>1
    <2>2. CASE Decoding[job[p].raw] = Corrupt /\ Fail(p)
        <3>1. ~Extractable(job[p])
            BY <1>1, <1>10, <2>2 DEF Decode, LocalsFit, CallClean, RawStaged, Extractable, Decoded
        <3>2. QED
            BY <2>2, <3>1, FailClean
    <2>3. ASSUME NEW c, NEW n, Goto(p, "sync", [job[p] EXCEPT !.decoded = c, !.written = n])
          PROVE  CallClean(p)'
        <3> DEFINE k == [job[p] EXCEPT !.decoded = c, !.written = n]
        <3>1. k.raw = job[p].raw /\ k.body = job[p].body /\ Goto(p, "sync", k)
            BY <1>1, <2>3 DEF JobType
        <3> HIDE DEF k
        <3>2. QED
            BY <1>10, <3>1, GoesOnClean DEF Decode, CallClean, RawStaged
    <2>4. QED
        BY <1>10, <2>1, <2>2, <2>3 DEF Decode
<1>11. CASE Detect(p)
    <2> DEFINE t == Type[dir[TempName(p, DecodedStage(job[p]))].content]
    <2>1. pc[p] = "detect" /\ t = Type[job[p].decoded]
        BY <1>1, <1>11 DEF Detect, LocalsFit, Installing, TempsFit, RawStaged, DecodedStaged, Holds,
           DecodedStage, RawTemp, DecodedTemp, DecodedWhole
    <2>2. CASE t = "none" /\ Fail(p)
        <3>1. job[p].decoded = IF job[p].coding = "coded" THEN Decoding[job[p].raw] ELSE job[p].raw
            BY <1>1, <2>1, LimitIsExact DEF LocalsFit, DecodedWhole
        <3>2. ~Extractable(job[p])
            BY <2>1, <2>2, <3>1 DEF CallClean, RawStaged, Extractable, Decoded
        <3>3. QED
            BY <2>2, <3>2, FailClean
    <2>3. CASE Goto(p, "link", [job[p] EXCEPT !.type = t])
        <3> DEFINE k == [job[p] EXCEPT !.type = t]
        <3>1. k.raw = job[p].raw /\ k.body = job[p].body /\ Goto(p, "link", k)
            BY <1>1, <2>3 DEF JobType
        <3> HIDE DEF k
        <3>2. QED
            BY <2>1, <3>1, GoesOnClean DEF CallClean, RawStaged
    <2>4. QED
        BY <1>11, <2>2, <2>3 DEF Detect
<1>12. CASE DetectFails(p)
    BY <1>2, <1>12 DEF DetectFails
<1>13. CASE Link(p)
    <2>1. CASE FailBy(p, "link")
        BY <1>2, <2>1
    <2>2. CASE Goto(p, "unlink", job[p]) \/ Goto(p, "hash", job[p])
        BY <1>13, <2>2, GoesOnClean DEF Link, CallClean, RawStaged, Installing
    <2>3. QED
        BY <1>13, <2>1, <2>2 DEF Link
<1>14. CASE Unlink(p)
    <2>1. pc[p] \in Installing /\ (Installed(p, job[p]) \/ FailBy(p, "remove"))
        BY <1>14 DEF Unlink, Installing
    <2>2. QED
        BY <1>1, <1>2, <2>1, InstalledClean
<1>15. CASE Hash(p)
    <2> DEFINE k == IF job[p].artifact = "image" THEN [job[p] EXCEPT !.dedup = TRUE] ELSE job[p]
    <2>1. k \in JobType /\ k.raw = job[p].raw /\ k.body = job[p].body
        BY <1>1 DEF JobType
    <2> HIDE DEF k
    <2>2. /\ pc[p] = "hash" /\ pc[p] \in Installing
          /\ Installed(p, k) \/ (~HashMatches(p) /\ Fail(p)) \/ FailBy(p, "open")
        BY <1>15 DEF Hash, Installing, k
    <2>3. CASE Installed(p, k)
        BY <2>1, <2>2, <2>3, InstalledClean
    <2>4. CASE ~HashMatches(p) /\ Fail(p)
        BY <2>2, <2>4, MismatchIsOld, FailClean
    <2>5. QED
        BY <1>2, <2>2, <2>3, <2>4
<1>16. CASE Cleanup(p) \/ Crash(p)
    <2>1. pc'[p] = "idle"
        BY <1>16 DEF Cleanup, Crash, Goto, ExtractInv, TypeOK
    <2>2. job'[p] = NoJob
        BY <1>16 DEF Cleanup, Crash, Goto, ExtractInv, TypeOK
    <2>3. QED
        BY <2>1, <2>2 DEF CallClean, RawStaged, Installing
<1>17. QED
    BY <1>3, <1>4, <1>5, <1>6, <1>7, <1>8, <1>9, <1>10, <1>11, <1>12, <1>13, <1>14, <1>15, <1>16 DEF Step

\* With any limit but the largest there is, a call that meets no fault extracts
\* an entry that holds an image within the limit, whatever else goes on.
THEOREM CleanSucceeds == ASSUME Limit < MaxInt PROVE Spec => []CleanCallSucceeds
<1> DEFINE AllClean == \A p \in Procs : CallClean(p)
<1>1. Init => AllClean
    BY DEF Init, CallClean, NoJob, RawStaged, Installing
<1>2. ExtractInv /\ AllClean /\ [Next]_vars => AllClean'
    <2> SUFFICES ASSUME ExtractInv, AllClean, [Next]_vars, NEW q \in Procs PROVE CallClean(q)'
        OBVIOUS
    <2>1. ASSUME NEW p \in Procs, Step(p) PROVE CallClean(q)'
        <3>1. CASE q = p
            BY <2>1, <3>1, StepClean
        <3>2. CASE q # p
            <4>1. pc'[q] = pc[q] /\ job'[q] = job[q]
                BY <2>1, <3>2, StepEffect DEF Alone
            <4>2. QED
                BY <4>1 DEF CallClean
        <3>3. QED
            BY <3>1, <3>2
    <2>2. CASE PowerLoss
        BY <2>2 DEF PowerLoss, CallClean, NoJob, RawStaged, Installing
    <2>3. CASE UNCHANGED vars
        BY <2>3 DEF vars, CallClean
    <2>4. QED
        BY <2>1, <2>2, <2>3 DEF Next, Terminated
<1>3. AllClean => CleanCallSucceeds
    BY DEF CallClean, CleanCallSucceeds, Extractable
<1> HIDE DEF AllClean
<1>4. QED
    BY <1>1, <1>2, <1>3, ExtractInvariant, PTL DEF Spec

-----------------------------------------------------------------------------
(* The directory is a write-once store.                                     *)

\* As the store sees it, a step that neither installs nor returns changes nothing.
LEMMA StoreStutters ==
    ASSUME Artifacts' = Artifacts, \A n \in Artifacts : dir'[n] = dir[n], results' = results
    PROVE  UNCHANGED Store!vars
<1>1. Held(dir)' = Held(dir)
    BY DEF Held, Artifacts
<1>2. Promised' = Promised
    BY DEF Promised
<1>3. QED
    BY <1>1, <1>2 DEF Store!vars

\* A link puts an artifact under the name its content matches.
LEMMA LinkPuts ==
    ASSUME ExtractInv, NEW p \in Procs, Link(p)
    PROVE  [Store!Next]_(Store!vars)
<1> DEFINE target == TargetOf(job[p])
           file == dir[SourceTemp(p)]
<1>1. pc[p] = "link" /\ results' = results /\ job[p] \in JobType /\ CallInv(p)
    BY DEF Link, ExtractInv, TypeOK
<1>2. CASE dir' = dir
    BY <1>1, <1>2, StoreStutters DEF Artifacts
<1>3. CASE target \notin DOMAIN dir /\ dir' = WithFile(dir, target, file.content, file.durable)
    <2>1. /\ file.content = ExpectedOf(job[p])
          /\ target \in ArtifactNames
        BY <1>1, SourceFits
    <2>2. <<target, ExpectedOf(job[p])>> \in Matching
        BY <1>1 DEF CallInv, LocalsFit, Installing, TruthfulImage, TargetOf, ExpectedOf, Matching, JobType
    <2>3. /\ DOMAIN dir' = DOMAIN dir \cup {target}
          /\ dir'[target].content = file.content
          /\ \A n \in DOMAIN dir : n # target /\ dir'[n] = dir[n]
        BY <1>3 DEF WithFile
    <2> DEFINE content == ExpectedOf(job[p])
    <2> HIDE DEF target, file, content
    <2>4. dir'[target].content = content
        BY <2>1, <2>3 DEF content
    <2>5. DOMAIN Held(dir) = DOMAIN dir \cap ArtifactNames
        BY DEF Held
    <2>6. Held(dir)' = [m \in DOMAIN Held(dir) \cup {target} |-> IF m = target THEN content ELSE Held(dir)[m]]
        BY <2>1, <2>3, <2>4, <2>5 DEF Held
    <2>7. target \notin DOMAIN Held(dir)
        BY <1>3, <2>5
    <2>8. Promised' = Promised
        BY <1>1 DEF Promised
    <2>9. Store!Put(target, content)
        BY <2>6, <2>7, <2>8 DEF Store!Put
    <2>10. <<target, content>> \in Matching
        BY <2>2 DEF content
    <2>11. QED
        BY <2>9, <2>10 DEF Store!Next
<1>4. QED
    BY <1>2, <1>3 DEF Link

\* A return promises artifacts that are there.
LEMMA ReturnPromises ==
    ASSUME ExtractInv, NEW p \in Procs, Cleanup(p), job[p].ok, results' = results \cup {ResultOf(p)}
    PROVE  Store!Next
<1> DEFINE r == ResultOf(p)
<1>1. /\ r.image \in Artifacts /\ r.raw \in Artifacts
      /\ <<r.image, dir[r.image].content>> \in Matching /\ <<r.raw, dir[r.raw].content>> \in Matching
    BY ResultFits
<1> HIDE DEF r
<1>2. results' = results \cup {r}
    BY DEF r
<1>3. Promised' = Promised \cup {r.image, r.raw}
    BY <1>2 DEF Promised
<1>4. Held(dir)' = Held(dir)
    <2>1. Artifacts' = Artifacts
        BY OthersInstallNothing, ArtifactsStay DEF Step, Kept, InstallsNothing, Artifacts, Cleanup, Link
    <2>2. \A n \in Artifacts : dir'[n] = dir[n]
        BY ArtifactsStay DEF Step
    <2>3. QED
        BY <2>1, <2>2 DEF Held, Artifacts
<1>5. DOMAIN Held(dir) = Artifacts /\ \A n \in Artifacts : Held(dir)[n] = dir[n].content
    BY DEF Held, Artifacts
<1>6. Store!Promise({r.image, r.raw})
    BY <1>1, <1>3, <1>4, <1>5 DEF Store!Promise
<1>7. QED
    BY <1>1, <1>5, <1>6 DEF Store!Next

\* A loss of power loses artifacts, and damages none.
LEMMA PowerLossLoses ==
    ASSUME ExtractInv, PowerLoss
    PROVE  Store!Next
<1>1. PICK kept \in SUBSET DOMAIN dir :
          dir' = [n \in kept |-> IF dir[n].durable THEN dir[n] ELSE [content |-> Partial, durable |-> TRUE]]
    BY DEF PowerLoss
<1> DEFINE S == kept \cap ArtifactNames
<1>2. S \subseteq Artifacts /\ DOMAIN dir' \cap ArtifactNames = S
    BY <1>1 DEF Artifacts
<1>3. \A n \in S : dir'[n] = dir[n]
    BY <1>1, <1>2 DEF ExtractInv, ArtifactsFit
<1>4. DOMAIN Held(dir) = Artifacts /\ \A n \in Artifacts : Held(dir)[n] = dir[n].content
    BY DEF Held, Artifacts
<1>5. Held(dir)' = [n \in S |-> Held(dir)[n]]
    BY <1>2, <1>3, <1>4 DEF Held
<1>6. Promised' = Promised /\ MayLosePower
    BY DEF PowerLoss, Promised
<1>7. Store!Lose(S)
    BY <1>5, <1>6 DEF Store!Lose, Store!Restrict
<1>8. S \in SUBSET DOMAIN Held(dir)
    BY <1>2, <1>4
<1>9. QED
    BY <1>7, <1>8 DEF Store!Next

LEMMA StepIsStoreStep ==
    ASSUME ExtractInv, NEW p \in Procs, Step(p)
    PROVE  [Store!Next]_(Store!vars)
<1>1. CASE Link(p)
    BY <1>1, LinkPuts
<1>2. CASE ~Link(p) /\ results' = results
    <2>1. Artifacts' = Artifacts /\ \A n \in Artifacts : dir'[n] = dir[n]
        BY <1>2, OthersInstallNothing, ArtifactsStay DEF Kept, InstallsNothing, Artifacts
    <2>2. QED
        BY <1>2, <2>1, StoreStutters
<1>3. CASE \E q \in Procs : Cleanup(q) /\ job[q].ok /\ results' = results \cup {ResultOf(q)}
    BY <1>3, ReturnPromises
<1>4. QED
    BY <1>1, <1>2, <1>3, ResultsChange DEF Next

\* The output directory implements the store, through any failure.
THEOREM IsStore == Spec => ImplementsStore
<1>1. Init => Store!Init
    BY DEF Init, Store!Init, Promised
<1>2. ExtractInv /\ [Next]_vars => [Store!Next]_(Store!vars)
    <2> SUFFICES ASSUME ExtractInv, [Next]_vars PROVE [Store!Next]_(Store!vars)
        OBVIOUS
    <2>1. CASE \E p \in Procs : Step(p)
        BY <2>1, StepIsStoreStep
    <2>2. CASE PowerLoss
        BY <2>2, PowerLossLoses
    <2>3. CASE UNCHANGED vars
        BY <2>3, StoreStutters DEF vars, Artifacts
    <2>4. QED
        BY <2>1, <2>2, <2>3 DEF Next, Terminated
<1>3. QED
    BY <1>1, <1>2, ExtractInvariant, PTL DEF Spec, ImplementsStore, Store!Spec
=============================================================================
