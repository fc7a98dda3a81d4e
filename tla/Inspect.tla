------------------------------- MODULE Inspect -------------------------------
(***************************************************************************)
(* scanner.inspect: what a worker makes of one file, while Chrome may write *)
(* it between any two calls.                                                *)
(*                                                                          *)
(* A file is what inspect can tell of it: its size, whether it begins with  *)
(* the Simple Cache magic and a known version, the key length its header    *)
(* claims, the lengths by which the bytes behind the header, read as a key, *)
(* show a URL, whether its time is in the window, and where the first       *)
(* Reddit address, image content type and image signature end (0: none).    *)
(* One call reads one version.                                              *)
(***************************************************************************)
EXTENDS Integers, FiniteSets, FiniteSetsExt

CONSTANTS Versions,   \* what the file may be
          Paths,      \* what its path says: sets of path signals
          MaxScan,    \* cfg.MaxContentScan
          MaxKey,     \* maxKeyLength
          Faults,     \* what may fail: "stat", "open", "read", "readat"
          MaxChanges  \* bound: times the file changes

MagicLength == 8
HeaderSize == 24

VersionType == [size : Nat, magic : BOOLEAN, known : BOOLEAN, key : Nat,
                urls : SUBSET (Nat \ {0}), window : BOOLEAN, reddit : Nat, type : Nat,
                image : Nat]

ASSUME VersionsAssumption == Versions \subseteq VersionType
ASSUME LimitsAssumption == MaxScan \in Nat /\ MaxScan >= MagicLength /\ MaxKey \in Nat
ASSUME ChangesAssumption == MaxChanges \in Nat

VARIABLES file,    \* the file as it is
          path,    \* what its path says
          step,    \* the call to come
          info,    \* the version os.Stat saw
          signals, \* what was recognised so far
          errors,  \* detectErr and cacheParseError
          result,  \* what inspect returns
          reach,   \* history: where the furthest read ended
          seen,    \* history: the versions since os.Stat
          broken   \* history: what failed
vars == <<file, path, step, info, signals, errors, result, reach, seen, broken>>

PathSignals == {"cache-data-directory", "chrome-path", "service-worker-cache",
                "cache-entry-filename", "unrelated-application-data"}

ASSUME PathsAssumption == Paths \subseteq SUBSET PathSignals

FileSignals == {"simple-cache-magic", "reddit-url", "image-content-type", "valid-cache-key",
                "image-signature", "modification-time-window"}

\* Variant: the magic counts no more than a familiar name.
PointsFlat ==
    [s \in FileSignals \cup PathSignals |->
        CASE s = "simple-cache-magic" -> 10 [] s = "cache-data-directory" -> 25
          [] s = "reddit-url" -> 20 [] s = "image-content-type" -> 15
          [] s = "valid-cache-key" -> 15 [] s = "image-signature" -> 10
          [] s = "chrome-path" -> 10 [] s = "service-worker-cache" -> 8
          [] s = "modification-time-window" -> 5 [] s = "cache-entry-filename" -> 5
          [] s = "unrelated-application-data" -> -10]

\* The rules of scoring.Evaluate; nothing enables InvalidOffsets.
Points ==
    [s \in FileSignals \cup PathSignals |->
        CASE s = "simple-cache-magic" -> 40 [] s = "cache-data-directory" -> 25
          [] s = "reddit-url" -> 20 [] s = "image-content-type" -> 15
          [] s = "valid-cache-key" -> 15 [] s = "image-signature" -> 10
          [] s = "chrome-path" -> 10 [] s = "service-worker-cache" -> 8
          [] s = "modification-time-window" -> 5 [] s = "cache-entry-filename" -> 5
          [] s = "unrelated-application-data" -> -10]

\* A rule adds its points if it is enabled.
Adds(S, s) == IF s \in S THEN Points[s] ELSE 0

Confidence(S) ==
    Adds(S, "simple-cache-magic") + Adds(S, "cache-data-directory") + Adds(S, "reddit-url")
    + Adds(S, "image-content-type") + Adds(S, "valid-cache-key") + Adds(S, "image-signature")
    + Adds(S, "chrome-path") + Adds(S, "service-worker-cache")
    + Adds(S, "modification-time-window") + Adds(S, "cache-entry-filename")
    + Adds(S, "unrelated-application-data")

Nothing == [confidence |-> 0, signals |-> {}, errors |-> {}, err |-> FALSE]

Init == /\ file \in Versions /\ path \in Paths
        /\ step = "stat"
        /\ info = file
        /\ signals = {} /\ errors = {} /\ result = Nothing
        /\ reach = 0 /\ seen = {} /\ broken = {}

-----------------------------------------------------------------------------

\* A call fails, and inspect returns its error with no candidate.
Fail(call) == /\ call \in Faults
              /\ step' = "done"
              /\ result' = [Nothing EXCEPT !.err = TRUE]
              /\ broken' = broken \cup {call}
              /\ UNCHANGED <<file, path, info, signals, errors, reach>>

Stat ==
    /\ step = "stat"
    /\ \/ Fail("stat") /\ UNCHANGED seen
       \/ /\ step' = "open"
          /\ info' = file
          /\ signals' = IF file.window THEN {"modification-time-window"} ELSE {}
          /\ seen' = {file}
          /\ UNCHANGED <<file, path, errors, result, reach, broken>>

Open ==
    /\ step = "open"
    /\ \/ Fail("open") /\ UNCHANGED seen
       \/ step' = "read" /\ UNCHANGED <<file, path, info, signals, errors, result, reach, seen, broken>>

Within(end, n) == end \in 1 .. n

\* What FindSignals and Find see in the first n bytes of a version.
Recognised(v, n) ==
    {s \in {"reddit-url", "image-content-type", "image-signature"} :
        Within(CASE s = "reddit-url" -> v.reddit
                 [] s = "image-content-type" -> v.type
                 [] s = "image-signature" -> v.image, n)}

\* Variant: the whole file is searched.
ReadLengthAll == Min({info.size, file.size})

\* io.ReadFull into min(size, limit) bytes; a shorter file is no error.
ReadLength == Min({info.size, MaxScan, file.size})

Further(end) == reach' = Max({reach, end})

Read ==
    /\ step = "read"
    /\ \/ Fail("read") /\ UNCHANGED seen
       \/ /\ step' = "detect"
          /\ signals' = signals \cup Recognised(file, ReadLength)
          /\ Further(ReadLength)
          /\ UNCHANGED <<file, path, info, errors, result, seen, broken>>

\* simplecache.Detect: a short file is none, by the size of os.Stat; a read that
\* fails or finds less is an error, and inspect goes on.
Detect ==
    /\ step = "detect"
    /\ \/ /\ info.size < MagicLength
          /\ step' = "score"
          /\ UNCHANGED <<signals, errors, reach, broken>>
       \/ /\ info.size >= MagicLength
          /\ file.size < MagicLength \/ "readat" \in Faults
          /\ step' = "score"
          /\ errors' = {"detect"}
          /\ broken' = broken \cup {"detect"}
          /\ UNCHANGED <<signals, reach>>
       \/ /\ info.size >= MagicLength /\ file.size >= MagicLength
          /\ step' = IF file.magic THEN "header" ELSE "score"
          /\ signals' = IF file.magic THEN signals \cup {"simple-cache-magic"} ELSE signals
          /\ Further(MagicLength)
          /\ UNCHANGED <<errors, broken>>
    /\ UNCHANGED <<file, path, info, result, seen>>

\* Variant: any claimed length is believed.
KeyAcceptedAny(v) == HeaderSize + v.key <= info.size

\* The key is bounded, and within the size of os.Stat.
KeyAccepted(v) == v.key <= MaxKey /\ HeaderSize + v.key <= info.size

\* An entry that is damaged, or a read that fails.
ParseFails(why) == /\ errors' = errors \cup {"parse"}
                   /\ broken' = broken \cup {why}
                   /\ UNCHANGED <<signals, reach>>

\* ParseHeaderAndKey, the header: it is read again, and may have changed.
ParseHeader ==
    /\ step = "header"
    /\ \/ /\ \/ /\ \/ info.size < HeaderSize \/ file.size < HeaderSize
                   \/ ~file.magic \/ ~file.known \/ ~KeyAccepted(file)
                /\ ParseFails("entry")
             \/ "readat" \in Faults /\ ParseFails("readat")
          /\ step' = "score"
          /\ UNCHANGED info
       \/ /\ info.size >= HeaderSize /\ file.size >= HeaderSize
          /\ file.magic /\ file.known /\ KeyAccepted(file)
          /\ step' = "key"
          /\ info' = [info EXCEPT !.key = file.key]
          /\ Further(HeaderSize)
          /\ UNCHANGED <<signals, errors, broken>>
    /\ UNCHANGED <<file, path, result, seen>>

\* The key: as many bytes as the header said that was read, whosever they are now,
\* and the URL they show.  That they do not have the hash of the key is a warning,
\* and inspect drops it.
ReadKey ==
    /\ step = "key"
    /\ step' = "score"
    /\ \/ file.size < HeaderSize + info.key /\ ParseFails("entry")
       \/ "readat" \in Faults /\ ParseFails("readat")
       \/ /\ file.size >= HeaderSize + info.key
          /\ signals' = IF info.key \in file.urls THEN signals \cup {"valid-cache-key"} ELSE signals
          /\ Further(HeaderSize + info.key)
          /\ UNCHANGED <<errors, broken>>
    /\ UNCHANGED <<file, path, info, result, seen>>

IsCandidate(S) == Confidence(S) > 0

\* The result: a candidate if the score is positive, and detectErr in any case.
Score ==
    /\ step = "score"
    /\ step' = "done"
    /\ LET all == signals \cup path
       IN result' = [confidence |-> IF IsCandidate(all) THEN Confidence(all) ELSE 0,
                     signals |-> IF IsCandidate(all) THEN all ELSE {},
                     errors |-> IF IsCandidate(all) THEN errors ELSE {},
                     err |-> "detect" \in errors]
    /\ UNCHANGED <<file, path, info, signals, errors, reach, seen, broken>>

\* Somebody writes the file.
Change ==
    /\ step \notin {"stat", "done"} /\ Cardinality(seen) <= MaxChanges
    /\ file' \in Versions \ seen
    /\ seen' = seen \cup {file'}
    /\ UNCHANGED <<path, step, info, signals, errors, result, reach, broken>>

Returned == step = "done" /\ UNCHANGED vars

Call == Stat \/ Open \/ Read \/ Detect \/ ParseHeader \/ ReadKey \/ Score
Next == Call \/ Change \/ Returned

Spec == Init /\ [][Next]_vars

-----------------------------------------------------------------------------
(* Properties.                                                              *)

TypeOK ==
    /\ file \in Versions /\ info \in VersionType /\ path \in Paths
    /\ step \in {"stat", "open", "read", "detect", "header", "key", "score", "done"}
    /\ signals \subseteq FileSignals
    /\ errors \subseteq {"detect", "parse"}
    /\ result \in [confidence : Nat, signals : SUBSET (FileSignals \cup PathSignals),
                   errors : SUBSET {"detect", "parse"}, err : BOOLEAN]
    /\ reach \in Nat
    /\ seen \subseteq Versions /\ IsFiniteSet(seen) /\ (step \notin {"stat", "done"} => file \in seen)
    /\ broken \subseteq {"stat", "open", "read", "detect", "entry", "readat"}

\* The signals a file has if nobody touches it: the reference.
IsCache(v) == v.magic /\ v.size >= MagicLength
HasKey(v) == IsCache(v) /\ v.known /\ v.key <= MaxKey /\ HeaderSize + v.key <= v.size
OfTime(v) == IF v.window THEN {"modification-time-window"} ELSE {}
OfContent(v) == Recognised(v, Min({v.size, MaxScan}))
OfMagic(v) == IF IsCache(v) THEN {"simple-cache-magic"} ELSE {}
OfKey(v) == IF HasKey(v) /\ v.key \in v.urls THEN {"valid-cache-key"} ELSE {}
SignalsOf(v) == OfTime(v) \cup OfContent(v) \cup OfMagic(v) \cup OfKey(v)

\* What says of a cache entry that its key could not be had.
Complaints(v) == IF IsCache(v) /\ ~HasKey(v) THEN {"parse"} ELSE {}

\* A file nobody touches, and that can be read, is judged by exactly its signals
\* and is no error, whatever it holds; only a cache entry whose key cannot be had
\* says so in its record.
QuietFileExact ==
    step = "done" /\ Cardinality(seen) = 1 /\ broken \subseteq {"entry"} =>
        LET all == SignalsOf(file) \cup path
        IN /\ ~result.err
           /\ result.confidence = IF Confidence(all) > 0 THEN Confidence(all) ELSE 0
           /\ result.confidence > 0 =>
                 result.signals = all /\ result.errors = Complaints(file)

\* What can be read off one version.
Shows(v, s) == CASE s = "simple-cache-magic" -> IsCache(v)
                 [] s = "modification-time-window" -> v.window
                 [] OTHER -> s \in OfContent(v)

\* A header that says how long the key is.
Claims(v, length) == /\ v.magic /\ v.known /\ v.size >= HeaderSize
                     /\ v.key = length /\ length <= MaxKey

\* A URL stood behind the header of one version, in as many bytes as the header of
\* one version claimed: it need not be the same one.
KeyShown == \E u, v \in seen : /\ Claims(u, u.key)
                               /\ v.size >= HeaderSize + u.key /\ u.key \in v.urls

Shown(s) == IF s = "valid-cache-key" THEN KeyShown ELSE \E v \in seen : Shows(v, s)

\* Whatever was written in between, every signal of a candidate was true of a
\* version of the file while it was inspected; only the key may be made of the
\* length one version claimed and the bytes another one held, the key of neither.
EvidenceWasThere == \A s \in result.signals \ path : Shown(s)

\* No failure is lost: it is returned, or stands in the record of the candidate,
\* which a file that begins like a cache entry always becomes.
FailuresKept ==
    step = "done" => /\ broken \ {"entry", "readat"} # {} => result.err
                     /\ broken \cap {"entry", "readat"} # {} => "parse" \in result.errors

\* What docs/SPEC.md says: no more than the limit is read of any file.
ContentScanBounded == reach <= MaxScan

\* What holds: no claim of the file makes inspect read beyond the limit and one
\* bounded key, which ParseHeaderAndKey reads whatever the limit is.
ReadBounded == reach <= Max({MaxScan, HeaderSize + MaxKey})

-----------------------------------------------------------------------------
(* The inductive invariant behind them.                                      *)

\* The key is read only as long as the header of some version claimed it to be,
\* which was found to be within its limit.
KeyBounded == step = "key" => \E u \in seen : Claims(u, info.key)

\* Every signal so far was true of some version, and none is returned before the end.
EvidenceSoFar == /\ \A s \in signals : Shown(s)
                 /\ step # "done" => result = Nothing

\* A failure that does not end the call is written down when it happens, and only
\* a file that begins like a cache entry is read for its key.
FailuresSoFar ==
    /\ step \notin {"score", "done"} => broken = {} /\ errors = {}
    /\ step \in {"header", "key"} => "simple-cache-magic" \in signals
    /\ step = "score" =>
          /\ broken \subseteq {"detect", "entry", "readat"}
          /\ "detect" \in broken <=> "detect" \in errors
          /\ broken \cap {"entry", "readat"} # {} <=> "parse" \in errors
          /\ "parse" \in errors => "simple-cache-magic" \in signals

\* While nobody touches the file, inspect has recognised what it has come to, and
\* os.Stat told what the file still is.
QuietSoFar ==
    seen = {file} /\ broken \subseteq {"entry"} =>
        /\ step # "done" => info = file
        /\ step \in {"open", "read"} => signals = OfTime(file)
        /\ step = "detect" => signals = OfTime(file) \cup OfContent(file)
        /\ step \in {"header", "key"} =>
              IsCache(file) /\ signals = OfTime(file) \cup OfContent(file) \cup OfMagic(file)
        /\ step = "key" => HasKey(file)
        /\ step = "score" => signals = SignalsOf(file) /\ errors = Complaints(file)

\* All of it, at every step of the call.
InspectInv == TypeOK /\ ReadBounded /\ KeyBounded /\ EvidenceSoFar /\ FailuresSoFar /\ QuietSoFar
==============================================================================
