------------------------------- MODULE Extract -------------------------------
(***************************************************************************)
(* extractor.Extract, run again and again by processes that share an output *)
(* directory: stage the raw body, decode it into a second staging file,     *)
(* recognise the image, and install both under names made of their SHA-256. *)
(*                                                                          *)
(* Between two system calls another process may run, the process may be     *)
(* killed, or the power may fail; every call may return an error.           *)
(*                                                                          *)
(* A content is a value: SHA-256 is taken to be injective, so a digest is   *)
(* the content it was computed from.  Size, Type and Decoding are what the  *)
(* byte count, signatures.Detect and the decoder chain say of a content.    *)
(***************************************************************************)
EXTENDS Integers, Functions

CONSTANTS Procs,            \* the processes
          MaxRuns,          \* calls of Extract per process
          Contents,         \* bodies, encoded and decoded
          Empty,            \* the content of a file just created
          Partial,          \* a prefix of some body: still looks like an image
          Corrupt,          \* "the decoder chain fails"
          Size,             \* [Contents -> Nat]
          Type,             \* [Contents -> image types or "none"]
          Decoding,         \* [Contents -> Contents \cup {Corrupt}]
          Bodies,           \* [coding, raw] of the entries there are to extract
          Limit,            \* options.MaxDecodedSize
          MaxInt,           \* the largest int64
          InitialDir,       \* what the output directory holds at first
          Faults,           \* the calls that may fail
          SourceMayChange,  \* Chrome may rewrite the entry while it is read
          MayCrash,         \* a process may be killed
          MayLosePower

ASSUME ContentsAssumption ==
    /\ Empty \in Contents /\ Partial \in Contents /\ Corrupt \notin Contents
    /\ Size \in [Contents -> Nat] /\ Size[Empty] = 0
    /\ Type \in [Contents -> {"png", "jpeg", "none"}] /\ Type[Empty] = "none"
    /\ Decoding \in [Contents -> Contents \cup {Corrupt}]

\* coding abstracts the Content-Encoding header: no decoder, some decoders of
\* gzip, deflate and br, or a token parseEncodings rejects.
ASSUME BodiesAssumption ==
    Bodies \subseteq [coding : {"identity", "coded", "unsupported"}, raw : Contents]

\* The limit is positive, the default being 256 MiB, and an int64.
ASSUME LimitAssumption == MaxInt \in Nat /\ Limit \in 1 .. MaxInt /\ MaxRuns \in Nat

\* <decoded hash>.<image type> and <raw hash>.raw.
ImageName(c, t) == <<"image", c, t>>
RawName(c) == <<"raw", c>>
ArtifactNames == {ImageName(c, t) : c \in Contents, t \in {"png", "jpeg"}}
                 \cup {RawName(c) : c \in Contents}

\* A file of the directory: its bytes, and whether they have reached the disk.
FileType == [content : Contents, durable : BOOLEAN]

\* What was there before has long reached the disk.
ASSUME InitialAssumption ==
    /\ DOMAIN InitialDir \subseteq ArtifactNames
    /\ \A n \in DOMAIN InitialDir : InitialDir[n] \in FileType /\ InitialDir[n].durable

ASSUME FaultsAssumption ==
    /\ Faults \subseteq {"create", "write", "sync", "open", "link", "remove"}
    /\ {SourceMayChange, MayCrash, MayLosePower} \subseteq BOOLEAN

VARIABLES
    dir,      \* the output directory: name -> [content, durable]
    pc,       \* where each process is in Extract
    job,      \* the local variables of its current call
    runs,     \* how many calls it has begun
    results,  \* the results it returned without an error
    excused   \* history: calls that could not clean up after themselves

vars == <<dir, pc, job, runs, results, excused>>

Stages == {"raw", "decoded"}

\* os.CreateTemp never reuses a name; .chromecarve-raw-* or -decoded-*.
TempName(p, stage) == <<"temp", stage, p, runs[p]>>
TempNames == {"temp"} \X Stages \X Procs \X (1 .. MaxRuns)

\* A name says what its file must contain, and of which type an image is.
Matches(n, c) == n[2] = c /\ (n[1] = "image" => n[3] = Type[c])

\* Go's int64 arithmetic wraps.
Wrapped(n) == IF n > MaxInt THEN n - 2 * (MaxInt + 1) ELSE n

\* Variant: the reader stops at the limit, so a longer body looks complete.
ReaderCapAtLimit == Limit

\* The reader decodeRaw copies from stops after limit+1 bytes.
ReaderCap == LET cap == Wrapped(Limit + 1) IN IF cap > 0 THEN cap ELSE 0

\* What is written, and how much, of a decoded body.
CappedAt(cap, c) == IF Size[c] <= cap THEN c ELSE IF cap = 0 THEN Empty ELSE Partial
WrittenOf(cap, c) == IF Size[c] <= cap THEN Size[c] ELSE cap

TooLarge(written) == written > Limit

NoJob == [coding |-> "identity", body |-> Empty, raw |-> Empty, decoded |-> Empty, written |-> 0,
          type |-> "none", stage |-> "raw", artifact |-> "image", dedup |-> FALSE,
          ok |-> FALSE, fault |-> FALSE]

Init == /\ dir = InitialDir
        /\ pc = [p \in Procs |-> "idle"]
        /\ job = [p \in Procs |-> NoJob]
        /\ runs = [p \in Procs |-> 0]
        /\ results = {}
        /\ excused = {}

-----------------------------------------------------------------------------
(* The directory.                                                           *)

WithFile(d, n, c, durable) ==
    [m \in DOMAIN d \cup {n} |-> IF m = n THEN [content |-> c, durable |-> durable] ELSE d[m]]

Without(d, S) == Restrict(d, DOMAIN d \ S)

\* The staging file the decoded body is in: the raw one if nothing is decoded.
DecodedStage(j) == IF j.coding = "identity" THEN "raw" ELSE "decoded"

\* What installTemp is called with, for the image and then for the raw body.
TargetOf(j) == IF j.artifact = "image" THEN ImageName(j.decoded, j.type) ELSE RawName(j.raw)
ExpectedOf(j) == IF j.artifact = "image" THEN j.decoded ELSE j.raw
SourceTemp(p) == TempName(p, IF job[p].artifact = "image" THEN DecodedStage(job[p]) ELSE "raw")

Goto(p, where, j) == /\ pc' = [pc EXCEPT ![p] = where]
                     /\ job' = [job EXCEPT ![p] = j]

\* return result, err: the deferred removals are what is left to do.
Fail(p) == Goto(p, "cleaning", job[p])
FailBy(p, call) == call \in Faults /\ Goto(p, "cleaning", [job[p] EXCEPT !.fault = TRUE])

-----------------------------------------------------------------------------
(* The steps of a call.                                                     *)

\* The options, the directory, the source or its parse is refused, or the entry
\* has no stream 1: nothing has been staged yet.
Refuse(p) ==
    /\ pc[p] = "idle" /\ runs[p] < MaxRuns
    /\ runs' = [runs EXCEPT ![p] = @ + 1]
    /\ UNCHANGED <<dir, pc, job, results, excused>>

\* The entry parses and has a body.
Begin(p) ==
    /\ pc[p] = "idle" /\ runs[p] < MaxRuns
    /\ runs' = [runs EXCEPT ![p] = @ + 1]
    /\ \E b \in Bodies : Goto(p, "create", [NoJob EXCEPT !.coding = b.coding, !.body = b.raw])
    /\ UNCHANGED <<dir, results, excused>>

\* os.CreateTemp, in copyRaw and in decodeRaw.
Create(p) ==
    /\ pc[p] = "create"
    /\ \/ /\ dir' = WithFile(dir, TempName(p, job[p].stage), Empty, FALSE)
          /\ Goto(p, IF job[p].stage = "raw" THEN "copy" ELSE "decode", job[p])
       \/ FailBy(p, "create") /\ UNCHANGED dir
    /\ UNCHANGED <<runs, results, excused>>

\* io.Copy of stream 1.  A source that has shrunk gives a short copy and no
\* error; one that was rewritten gives other bytes.
Copied(p) == IF SourceMayChange THEN Contents ELSE {job[p].body}

CopyRaw(p) ==
    /\ pc[p] = "copy"
    /\ \/ \E c \in Copied(p) :
            /\ dir' = WithFile(dir, TempName(p, "raw"), c, FALSE)
            /\ Goto(p, "sync", [job[p] EXCEPT !.raw = c])
       \/ /\ FailBy(p, "write")
          /\ dir' = WithFile(dir, TempName(p, "raw"), Partial, FALSE)
    /\ UNCHANGED <<runs, results, excused>>

\* Variant: the staging file is closed without being synced.
SealedUnsynced(p) == dir

\* temp.Sync and temp.Close, then the checks of their errors and, for a decoded
\* body, of the limit.
Sealed(p) == LET n == TempName(p, job[p].stage) IN WithFile(dir, n, dir[n].content, TRUE)

Sync(p) ==
    /\ pc[p] = "sync"
    /\ \/ /\ dir' = Sealed(p)
          /\ IF job[p].stage = "raw" THEN Goto(p, "encodings", job[p])
             ELSE IF TooLarge(job[p].written) THEN Fail(p)
             ELSE Goto(p, "detect", job[p])
       \/ FailBy(p, "sync") /\ UNCHANGED dir
    /\ UNCHANGED <<runs, results, excused>>

\* parseEncodings decides whether there is anything to decode.
Encodings(p) ==
    /\ pc[p] = "encodings"
    /\ \/ job[p].coding = "unsupported" /\ Fail(p)
       \/ /\ job[p].coding = "identity"
          /\ Goto(p, "detect", [job[p] EXCEPT !.decoded = job[p].raw])
       \/ /\ job[p].coding = "coded"
          /\ Goto(p, "chain", [job[p] EXCEPT !.stage = "decoded"])
    /\ UNCHANGED <<dir, runs, results, excused>>

\* os.Open and decoderChain: gzip and deflate look at their header at once, br
\* does not, so a corrupt body may pass.
Chain(p) ==
    /\ pc[p] = "chain"
    /\ \/ Decoding[job[p].raw] = Corrupt /\ Fail(p)
       \/ FailBy(p, "open")
       \/ Goto(p, "create", job[p])
    /\ UNCHANGED <<dir, runs, results, excused>>

\* io.Copy through io.LimitReader(reader, limit+1).
Decode(p) ==
    /\ pc[p] = "decode"
    /\ LET c == Decoding[job[p].raw]
           temp == TempName(p, "decoded")
       IN \/ /\ c = Corrupt
             /\ dir' = WithFile(dir, temp, Partial, FALSE)
             /\ Fail(p)
          \/ /\ c # Corrupt
             /\ dir' = WithFile(dir, temp, CappedAt(ReaderCap, c), FALSE)
             /\ Goto(p, "sync", [job[p] EXCEPT !.decoded = CappedAt(ReaderCap, c),
                                               !.written = WrittenOf(ReaderCap, c)])
          \/ /\ FailBy(p, "write")
             /\ dir' = WithFile(dir, temp, Partial, FALSE)
    /\ UNCHANGED <<runs, results, excused>>

\* Variant: what signatures.Detect does not know is installed all the same.
DetectAnything(p) ==
    /\ pc[p] = "detect"
    /\ Goto(p, "link", [job[p] EXCEPT !.type = Type[dir[TempName(p, DecodedStage(job[p]))].content]])
    /\ UNCHANGED <<dir, runs, results, excused>>

\* detectImage reads the staging file that will be installed.
Detect(p) ==
    /\ pc[p] = "detect"
    /\ LET t == Type[dir[TempName(p, DecodedStage(job[p]))].content]
       IN IF t = "none" THEN Fail(p) ELSE Goto(p, "link", [job[p] EXCEPT !.type = t])
    /\ UNCHANGED <<dir, runs, results, excused>>

DetectFails(p) ==
    /\ pc[p] = "detect" /\ FailBy(p, "open")
    /\ UNCHANGED <<dir, runs, results, excused>>

\* Variant: os.Rename, which replaces what is there.
LinkReplacing(p) ==
    /\ pc[p] = "link"
    /\ LET file == dir[SourceTemp(p)]
       IN dir' = WithFile(dir, TargetOf(job[p]), file.content, file.durable)
    /\ Goto(p, "unlink", job[p])
    /\ UNCHANGED <<runs, results, excused>>

\* Variant: an artifact that exists is an error.
LinkExclusive(p) ==
    /\ pc[p] = "link"
    /\ LET target == TargetOf(job[p])
           file == dir[SourceTemp(p)]
       IN IF target \notin DOMAIN dir
          THEN /\ dir' = WithFile(dir, target, file.content, file.durable)
               /\ Goto(p, "unlink", job[p])
          ELSE Fail(p) /\ UNCHANGED dir
    /\ UNCHANGED <<runs, results, excused>>

\* os.Link: atomic, and EEXIST rather than a replacement.
Link(p) ==
    /\ pc[p] = "link"
    /\ LET target == TargetOf(job[p])
           file == dir[SourceTemp(p)]
       IN \/ /\ target \notin DOMAIN dir
             /\ dir' = WithFile(dir, target, file.content, file.durable)
             /\ Goto(p, "unlink", job[p])
          \/ /\ target \in DOMAIN dir
             /\ Goto(p, "hash", job[p])
             /\ UNCHANGED dir
          \/ FailBy(p, "link") /\ UNCHANGED dir
    /\ UNCHANGED <<runs, results, excused>>

\* Variant: a duplicate image is taken to have its raw body installed.
InstalledUnlessDuplicate(p, j) ==
    IF j.artifact = "image" /\ j.coding = "coded" /\ ~j.dedup
    THEN Goto(p, "link", [j EXCEPT !.artifact = "raw"])
    ELSE Goto(p, "cleaning", [j EXCEPT !.ok = TRUE])

\* After the image comes the raw body, when there was something to decode.
Installed(p, j) ==
    IF j.artifact = "image" /\ j.coding = "coded"
    THEN Goto(p, "link", [j EXCEPT !.artifact = "raw"])
    ELSE Goto(p, "cleaning", [j EXCEPT !.ok = TRUE])

\* os.Remove of the staging link; its failure is an error though the artifact
\* is installed.
Unlink(p) ==
    /\ pc[p] = "unlink"
    /\ \/ dir' = Without(dir, {SourceTemp(p)}) /\ Installed(p, job[p])
       \/ FailBy(p, "remove") /\ UNCHANGED dir
    /\ UNCHANGED <<runs, results, excused>>

\* Variant: an existing artifact is trusted for its name.
HashTrusted(p) == TRUE

\* hashFile of the artifact that is already there.
HashMatches(p) == dir[TargetOf(job[p])].content = ExpectedOf(job[p])

Hash(p) ==
    /\ pc[p] = "hash"
    /\ \/ /\ HashMatches(p)
          /\ Installed(p, IF job[p].artifact = "image" THEN [job[p] EXCEPT !.dedup = TRUE]
                          ELSE job[p])
       \/ ~HashMatches(p) /\ Fail(p)
       \/ FailBy(p, "open")
    /\ UNCHANGED <<dir, runs, results, excused>>

\* The Result of a call.
ResultOf(p) ==
    LET j == job[p]
        image == ImageName(j.decoded, j.type)
    IN [proc |-> p, run |-> runs[p], coding |-> j.coding, rawHash |-> j.raw,
        decodedHash |-> j.decoded, image |-> image, dedup |-> j.dedup,
        raw |-> IF j.coding = "coded" THEN RawName(j.raw) ELSE image]

\* Variant: only the raw staging file is removed on return.
OwnRawTemp(p) == {TempName(p, "raw")} \cap DOMAIN dir

OwnTemps(p) == {TempName(p, stage) : stage \in Stages} \cap DOMAIN dir

\* The deferred os.Remove calls, whose errors are ignored, and the return.
Cleanup(p) ==
    /\ pc[p] = "cleaning"
    /\ \E left \in SUBSET OwnTemps(p) :
          /\ left # {} => "remove" \in Faults
          /\ dir' = Without(dir, OwnTemps(p) \ left)
          /\ excused' = IF left = {} THEN excused ELSE excused \cup {<<p, runs[p]>>}
    /\ results' = IF job[p].ok THEN results \cup {ResultOf(p)} ELSE results
    /\ Goto(p, "idle", NoJob)
    /\ UNCHANGED runs

\* The process is killed; whatever it staged stays.
Crash(p) ==
    /\ MayCrash /\ pc[p] # "idle"
    /\ excused' = excused \cup {<<p, runs[p]>>}
    /\ Goto(p, "idle", NoJob)
    /\ UNCHANGED <<dir, runs, results>>

\* Every process dies.  A name created since the directory last reached the
\* disk may be gone, and the content of a file nobody synced may be damaged.
PowerLoss ==
    /\ MayLosePower
    /\ \E kept \in SUBSET DOMAIN dir :
          dir' = [n \in kept |-> IF dir[n].durable THEN dir[n]
                                 ELSE [content |-> Partial, durable |-> TRUE]]
    /\ excused' = excused \cup {<<p, runs[p]>> : p \in {q \in Procs : pc[q] # "idle"}}
    /\ pc' = [p \in Procs |-> "idle"]
    /\ job' = [p \in Procs |-> NoJob]
    /\ UNCHANGED <<runs, results>>

\* Every process has made its calls.
Terminated == /\ \A p \in Procs : pc[p] = "idle" /\ runs[p] = MaxRuns
              /\ UNCHANGED vars

Step(p) == \/ Refuse(p) \/ Begin(p) \/ Create(p) \/ CopyRaw(p) \/ Sync(p)
           \/ Encodings(p) \/ Chain(p) \/ Decode(p) \/ Detect(p) \/ DetectFails(p)
           \/ Link(p) \/ Unlink(p) \/ Hash(p) \/ Cleanup(p) \/ Crash(p)

Next == (\E p \in Procs : Step(p)) \/ PowerLoss \/ Terminated

Spec == Init /\ [][Next]_vars

-----------------------------------------------------------------------------
(* Properties.                                                              *)

JobType == [coding : {"identity", "coded", "unsupported"}, body : Contents, raw : Contents,
            decoded : Contents, written : Nat, type : {"png", "jpeg", "none"}, stage : Stages,
            artifact : {"image", "raw"}, dedup : BOOLEAN, ok : BOOLEAN, fault : BOOLEAN]

PCs == {"idle", "create", "copy", "sync", "encodings", "chain", "decode", "detect", "link",
        "unlink", "hash", "cleaning"}

\* The directory maps names of the two kinds to files, a call keeps its local
\* variables in their ranges.
TypeOK ==
    /\ DOMAIN dir \subseteq TempNames \cup ArtifactNames
    /\ \A n \in DOMAIN dir : dir[n] \in FileType
    /\ pc \in [Procs -> PCs]
    /\ job \in [Procs -> JobType]
    /\ runs \in [Procs -> 0 .. MaxRuns]
    /\ excused \subseteq Procs \X (1 .. MaxRuns)

Artifacts == DOMAIN dir \cap ArtifactNames

\* What extraction put into the directory contains what its name says, whatever
\* failed, was killed or lost power, and however many processes share the
\* directory.  (Files that were there before may be anything.)
ArtifactIntegrity ==
    \A n \in Artifacts \ DOMAIN InitialDir : Matches(n, dir[n].content)

\* While the power lasts, the artifacts a result names are there, and hold what
\* its digests say: the one of the raw body even when only the image was new.
ResultsBacked ==
    ~MayLosePower => \A r \in results :
        /\ r.image \in Artifacts /\ dir[r.image].content = r.decodedHash
        /\ r.raw \in Artifacts /\ dir[r.raw].content = r.rawHash

\* A result tells the truth about its entry: the image is the whole decoded
\* body, no truncation of it, it is of the type its name has, and an encoded
\* body stays within the limit.
ResultsTruthful ==
    \A r \in results :
        /\ r.decodedHash = IF r.coding = "coded" THEN Decoding[r.rawHash] ELSE r.rawHash
        /\ r.image[3] = Type[r.decodedHash] /\ r.image[3] # "none"
        /\ r.coding = "coded" => Size[r.decodedHash] <= Limit

\* Of all the results that name an image, from however many processes, at most
\* one says it was not a duplicate.
OneIsFresh ==
    ~MayLosePower => \A q, r \in results : q.image = r.image /\ ~q.dedup /\ ~r.dedup => q = r

\* No staging file outlives its call, unless the call was killed or os.Remove
\* itself failed.
NoStagingLeft ==
    \A n \in DOMAIN dir \cap TempNames :
        \/ <<n[3], n[4]>> \in excused
        \/ n[4] = runs[n[3]] /\ pc[n[3]] # "idle"

\* What is left behind by calls that failed or were killed, or is being done by
\* other processes, never makes a call fail: an entry whose body is an image
\* within the limit is extracted unless this very call meets a fault.
Decoded(j) == IF j.coding = "coded" THEN Decoding[j.body] ELSE j.body

Extractable(j) ==
    /\ j.coding # "unsupported" /\ ~SourceMayChange
    /\ Decoded(j) # Corrupt
    /\ Type[Decoded(j)] # "none"
    /\ j.coding = "coded" => Size[Decoded(j)] <= Limit
    /\ {ImageName(Decoded(j), Type[Decoded(j)]), RawName(j.body)} \cap DOMAIN InitialDir = {}

CleanCallSucceeds ==
    \A p \in Procs : pc[p] = "cleaning" /\ Extractable(job[p]) /\ ~job[p].fault => job[p].ok

\* README.md: "Decoded images are limited to 256 MiB by default".
ImagesWithinLimit == \A r \in results : Size[r.decodedHash] <= Limit

-----------------------------------------------------------------------------
(* The output directory is a write-once, content-addressed store.           *)

\* A name, and what it must hold.
Matching == {<<ImageName(c, Type[c]), c>> : c \in {b \in Contents : Type[b] # "none"}}
            \cup {<<RawName(c), c>> : c \in Contents}

Held(d) == [n \in DOMAIN d \cap ArtifactNames |-> d[n].content]

Promised == {r.image : r \in results} \cup {r.raw : r \in results}

Store == INSTANCE ArtifactStore
             WITH store <- Held(dir), promised <- Promised, Initial <- {Held(InitialDir)},
                  Artifacts <- Matching, MayLose <- MayLosePower

ImplementsStore == Store!Spec
=============================================================================
