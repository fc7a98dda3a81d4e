---------------------------- MODULE InspectProofs ----------------------------
(***************************************************************************)
(* Proofs about Inspect, for any versions of the file, any paths, limits,   *)
(* faults and number of changes: what is said of a file was true of it, no  *)
(* failure is lost, and a file at rest is judged by exactly its signals.    *)
(***************************************************************************)
EXTENDS Inspect, FiniteSetTheorems, TLAPS

-----------------------------------------------------------------------------
(* Lemmas about the operators.                                              *)

\* The least of two and of three numbers, and the greatest of two.
LEMMA MinTwo ==
    ASSUME NEW a \in Int, NEW b \in Int
    PROVE  Min({a, b}) = IF a <= b THEN a ELSE b
<1>1. \E x \in {a, b} : \A y \in {a, b} : x <= y
    OBVIOUS
<1>2. Min({a, b}) \in {a, b} /\ \A y \in {a, b} : Min({a, b}) <= y
    BY <1>1 DEF Min
<1>3. QED
    BY <1>2

LEMMA MinThree ==
    ASSUME NEW a \in Int, NEW b \in Int, NEW c \in Int
    PROVE  /\ Min({a, b, c}) \in {a, b, c}
           /\ Min({a, b, c}) <= a /\ Min({a, b, c}) <= b /\ Min({a, b, c}) <= c
<1>1. \E x \in {a, b, c} : \A y \in {a, b, c} : x <= y
    OBVIOUS
<1>2. QED
    BY <1>1 DEF Min

LEMMA MaxTwo ==
    ASSUME NEW a \in Int, NEW b \in Int
    PROVE  Max({a, b}) = IF a >= b THEN a ELSE b
<1>1. \E x \in {a, b} : \A y \in {a, b} : x >= y
    OBVIOUS
<1>2. Max({a, b}) \in {a, b} /\ \A y \in {a, b} : Max({a, b}) >= y
    BY <1>1 DEF Max
<1>3. QED
    BY <1>2

\* A score is a number, and that of a file that begins like a cache entry is
\* positive whatever else is said of it.
LEMMA Scores ==
    ASSUME NEW S
    PROVE  Confidence(S) \in Int /\ ("simple-cache-magic" \in S => Confidence(S) > 0)
<1>1. /\ Points["simple-cache-magic"] = 40 /\ Points["cache-data-directory"] = 25
      /\ Points["reddit-url"] = 20 /\ Points["image-content-type"] = 15
      /\ Points["valid-cache-key"] = 15 /\ Points["image-signature"] = 10
      /\ Points["chrome-path"] = 10 /\ Points["service-worker-cache"] = 8
      /\ Points["modification-time-window"] = 5 /\ Points["cache-entry-filename"] = 5
      /\ Points["unrelated-application-data"] = -10
    BY DEF Points, FileSignals, PathSignals
<1>2. /\ Adds(S, "simple-cache-magic") = IF "simple-cache-magic" \in S THEN 40 ELSE 0
      /\ Adds(S, "cache-data-directory") \in {0, 25} /\ Adds(S, "reddit-url") \in {0, 20}
      /\ Adds(S, "image-content-type") \in {0, 15} /\ Adds(S, "valid-cache-key") \in {0, 15}
      /\ Adds(S, "image-signature") \in {0, 10} /\ Adds(S, "chrome-path") \in {0, 10}
      /\ Adds(S, "service-worker-cache") \in {0, 8}
      /\ Adds(S, "modification-time-window") \in {0, 5}
      /\ Adds(S, "cache-entry-filename") \in {0, 5}
      /\ Adds(S, "unrelated-application-data") \in {0, -10}
    BY <1>1 DEF Adds
<1>3. QED
    BY <1>2 DEF Confidence

\* What is recognised in a part is recognised in more of the same version, and
\* inspect never reads more of it than it would of the file at rest.
LEMMA LessRecognised ==
    ASSUME NEW v, NEW n \in Int, NEW m \in Int, n <= m
    PROVE  Recognised(v, n) \subseteq Recognised(v, m)
<1>1. \A end : Within(end, n) => Within(end, m)
    BY DEF Within
<1>2. QED
    BY <1>1 DEF Recognised

LEMMA RecognisedNames ==
    ASSUME NEW v, NEW n
    PROVE  Recognised(v, n) \subseteq {"reddit-url", "image-content-type", "image-signature"}
    BY DEF Recognised

LEMMA LimitsGiven ==
    /\ MaxScan \in Nat /\ MaxScan >= MagicLength /\ MaxKey \in Nat
    /\ MagicLength = 8 /\ HeaderSize = 24
    BY LimitsAssumption DEF MagicLength, HeaderSize

LEMMA ReadLengthBounds ==
    ASSUME info \in VersionType, file \in VersionType
    PROVE  /\ ReadLength \in Nat /\ ReadLength <= MaxScan
           /\ OfContent(file) = Recognised(file, Min({file.size, MaxScan}))
           /\ Min({file.size, MaxScan}) \in Nat /\ ReadLength <= Min({file.size, MaxScan})
           /\ info = file => ReadLength = Min({file.size, MaxScan})
<1>1. info.size \in Nat /\ file.size \in Nat /\ MaxScan \in Nat
    BY LimitsGiven DEF VersionType
<1>2. ReadLength \in Nat /\ ReadLength <= MaxScan /\ ReadLength <= file.size
    <2>1. info.size \in Int /\ file.size \in Int /\ MaxScan \in Int
        BY <1>1
    <2>2. /\ ReadLength \in {info.size, MaxScan, file.size}
          /\ ReadLength <= MaxScan /\ ReadLength <= file.size
        BY <2>1, MinThree DEF ReadLength
    <2>3. QED
        BY <1>1, <2>2
<1>3. Min({file.size, MaxScan}) = IF file.size <= MaxScan THEN file.size ELSE MaxScan
    BY <1>1, MinTwo
<1>4. ASSUME info = file PROVE ReadLength = Min({file.size, MaxScan})
    <2>1. {info.size, MaxScan, file.size} = {file.size, MaxScan}
        BY <1>4
    <2>2. QED
        BY <2>1 DEF ReadLength
<1>5. QED
    BY <1>1, <1>2, <1>3, <1>4 DEF OfContent

\* A read extends the reach, and the bound holds of it if it holds of its end.
LEMMA Reaches ==
    ASSUME reach \in Nat, ReadBounded, NEW end \in Nat, Further(end),
           end <= MaxScan \/ end <= HeaderSize + MaxKey
    PROVE  reach' \in Nat /\ ReadBounded'
<1>1. MaxScan \in Nat /\ HeaderSize + MaxKey \in Nat
    BY LimitsGiven
<1>2. reach' = IF reach >= end THEN reach ELSE end
    BY MaxTwo DEF Further
<1>3. Max({MaxScan, HeaderSize + MaxKey}) = IF MaxScan >= HeaderSize + MaxKey THEN MaxScan ELSE HeaderSize + MaxKey
    BY <1>1, MaxTwo
<1>4. QED
    BY <1>1, <1>2, <1>3 DEF ReadBounded

-----------------------------------------------------------------------------
(* The invariant: what is said at each step, and what is returned.          *)

Kept == InspectInv /\ EvidenceWasThere /\ FailuresKept /\ QuietFileExact

LEMMA Typed ==
    ASSUME TypeOK
    PROVE  /\ file \in VersionType /\ info \in VersionType /\ reach \in Nat
           /\ file.size \in Nat /\ info.size \in Nat /\ file.key \in Nat /\ info.key \in Nat
           /\ \A v \in seen : v \in VersionType /\ v.size \in Nat /\ v.key \in Nat
           /\ path \subseteq PathSignals
    BY VersionsAssumption, PathsAssumption DEF TypeOK, VersionType

LEMMA InitKept == Init => Kept
<1> SUFFICES ASSUME Init PROVE Kept
    OBVIOUS
<1>1. TypeOK
    BY VersionsAssumption, FS_EmptySet DEF Init, TypeOK, Nothing
<1>2. ReadBounded
    <2>1. MaxScan \in Nat /\ HeaderSize + MaxKey \in Nat
        BY LimitsGiven
    <2>2. QED
        BY <2>1, MaxTwo DEF Init, ReadBounded
<1>3. KeyBounded /\ EvidenceSoFar /\ FailuresSoFar /\ QuietSoFar
    BY DEF Init, KeyBounded, EvidenceSoFar, FailuresSoFar, QuietSoFar
<1>4. EvidenceWasThere /\ FailuresKept /\ QuietFileExact
    BY DEF Init, Nothing, EvidenceWasThere, FailuresKept, QuietFileExact
<1>5. QED
    BY <1>1, <1>2, <1>3, <1>4 DEF Kept, InspectInv

\* What was shown still is when more versions were seen.
LEMMA StillShown ==
    ASSUME seen \subseteq seen'
    PROVE  \A s : Shown(s) => Shown(s)'
<1> SUFFICES ASSUME NEW s, Shown(s) PROVE Shown(s)'
    OBVIOUS
<1>1. CASE s = "valid-cache-key"
    <2>1. PICK u \in seen, v \in seen : /\ Claims(u, u.key)
                                       /\ v.size >= HeaderSize + u.key /\ u.key \in v.urls
        BY <1>1 DEF Shown, KeyShown
    <2>2. u \in seen' /\ v \in seen'
        BY <2>1
    <2>3. KeyShown'
        BY <2>1, <2>2 DEF KeyShown, Claims
    <2>4. QED
        BY <1>1, <2>3 DEF Shown
<1>2. CASE s # "valid-cache-key"
    <2>1. PICK v \in seen : Shows(v, s)
        BY <1>2 DEF Shown
    <2>2. v \in seen' /\ Shows(v, s)'
        BY <2>1 DEF Shows, IsCache, OfContent
    <2>3. QED
        BY <1>2, <2>2 DEF Shown
<1>3. QED
    BY <1>1, <1>2

\* A step that recognises nothing more keeps the evidence.
LEMMA EvidenceStays ==
    ASSUME EvidenceSoFar, seen \subseteq seen', signals' = signals,
           step' = "done" \/ (step # "done" /\ result' = result)
    PROVE  EvidenceSoFar'
<1>1. \A s \in signals' : Shown(s)'
    BY StillShown DEF EvidenceSoFar
<1>2. step' # "done" => result' = Nothing
    BY DEF EvidenceSoFar
<1>3. QED
    BY <1>1, <1>2 DEF EvidenceSoFar

\* A call that fails is returned, and nothing is said of the file.
LEMMA FailKeeps ==
    ASSUME Kept, NEW call \in {"stat", "open", "read"}, step = call, Fail(call), UNCHANGED seen
    PROVE  Kept'
<1>0. TypeOK /\ ReadBounded /\ FailuresSoFar /\ EvidenceSoFar /\ QuietSoFar
    BY DEF Kept, InspectInv
<1>1. /\ step' = "done" /\ result' = [Nothing EXCEPT !.err = TRUE]
      /\ broken' = {call}
      /\ UNCHANGED <<file, path, info, signals, errors, reach, seen>>
    BY <1>0 DEF Fail, FailuresSoFar
<1>2. result' = [confidence |-> 0, signals |-> {}, errors |-> {}, err |-> TRUE]
    BY <1>1 DEF Nothing
<1>3. TypeOK'
    <2>1. result' \in [confidence : Nat, signals : SUBSET (FileSignals \cup PathSignals),
                       errors : SUBSET {"detect", "parse"}, err : BOOLEAN]
        BY <1>2
    <2>2. broken' \subseteq {"stat", "open", "read", "detect", "entry", "readat"}
        BY <1>1
    <2>3. /\ file' \in Versions /\ info' \in VersionType /\ path' \in Paths
          /\ step' = "done" /\ signals' \subseteq FileSignals /\ errors' \subseteq {"detect", "parse"}
          /\ reach' \in Nat /\ seen' \subseteq Versions /\ IsFiniteSet(seen')
        BY <1>0, <1>1 DEF TypeOK
    <2>4. QED
        BY <2>1, <2>2, <2>3 DEF TypeOK
<1>4. ReadBounded' /\ KeyBounded' /\ EvidenceSoFar' /\ FailuresSoFar' /\ QuietSoFar'
    BY <1>0, <1>1, EvidenceStays DEF ReadBounded, KeyBounded, FailuresSoFar, QuietSoFar
<1>5. EvidenceWasThere' /\ FailuresKept' /\ QuietFileExact'
    BY <1>1, <1>2 DEF EvidenceWasThere, FailuresKept, QuietFileExact
<1>6. QED
    BY <1>3, <1>4, <1>5 DEF Kept, InspectInv

\* A step that does not end the call returns nothing yet.
LEMMA GoesOn ==
    ASSUME Kept, step' # "done", UNCHANGED <<path, result>>, seen \subseteq seen'
    PROVE  EvidenceWasThere' /\ FailuresKept' /\ QuietFileExact'
<1>1. EvidenceWasThere'
    BY StillShown DEF Kept, EvidenceWasThere
<1>2. QED
    BY <1>1 DEF FailuresKept, QuietFileExact

LEMMA StatKeeps == Kept /\ Stat => Kept'
<1> SUFFICES ASSUME Kept, Stat PROVE Kept'
    OBVIOUS
<1>0. TypeOK /\ ReadBounded /\ FailuresSoFar /\ step = "stat"
    BY DEF Kept, InspectInv, Stat
<1>1. CASE Fail("stat") /\ UNCHANGED seen
    BY <1>0, <1>1, FailKeeps
<1>2. CASE /\ step' = "open" /\ info' = file
           /\ signals' = IF file.window THEN {"modification-time-window"} ELSE {}
           /\ seen' = {file}
           /\ UNCHANGED <<file, path, errors, result, reach, broken>>
    <2>1. signals' = OfTime(file)
        BY <1>2 DEF OfTime
    <2>2. IsFiniteSet(seen') /\ file \in Versions /\ file \in VersionType
        BY <1>0, <1>2, FS_Singleton, Typed DEF TypeOK
    <2>3. TypeOK'
        BY <1>0, <1>2, <2>2 DEF TypeOK, FileSignals
    <2>4. ReadBounded' /\ KeyBounded' /\ FailuresSoFar'
        BY <1>0, <1>2 DEF ReadBounded, KeyBounded, FailuresSoFar
    <2>5. EvidenceSoFar' /\ result = Nothing
        <3>1. \A s \in signals' : s = "modification-time-window" /\ Shows(file, s)
            BY <1>2 DEF Shows
        <3>2. \A s \in signals' : Shown(s)'
            BY <1>2, <3>1 DEF Shown, Shows
        <3>3. QED
            BY <1>0, <1>2, <3>2 DEF Kept, InspectInv, EvidenceSoFar
    <2>6. QuietSoFar'
        BY <1>2, <2>1 DEF QuietSoFar
    <2>7. EvidenceWasThere' /\ FailuresKept' /\ QuietFileExact'
        <3>1. EvidenceWasThere'
            BY <1>2, <2>5 DEF Nothing, EvidenceWasThere
        <3>2. QED
            BY <1>2, <3>1 DEF FailuresKept, QuietFileExact
    <2>8. QED
        BY <2>3, <2>4, <2>5, <2>6, <2>7 DEF Kept, InspectInv
<1>3. QED
    BY <1>1, <1>2 DEF Stat

LEMMA OpenKeeps == Kept /\ Open => Kept'
<1> SUFFICES ASSUME Kept, Open PROVE Kept'
    OBVIOUS
<1>0. /\ TypeOK /\ ReadBounded /\ EvidenceSoFar /\ FailuresSoFar /\ QuietSoFar
      /\ step = "open"
    BY DEF Kept, InspectInv, Open
<1>1. CASE Fail("open") /\ UNCHANGED seen
    BY <1>0, <1>1, FailKeeps
<1>2. CASE /\ step' = "read"
           /\ UNCHANGED <<file, path, info, signals, errors, result, reach, seen, broken>>
    <2>1. TypeOK'
        BY <1>0, <1>2 DEF TypeOK
    <2>2. ReadBounded' /\ KeyBounded' /\ EvidenceSoFar' /\ FailuresSoFar' /\ QuietSoFar'
        BY <1>0, <1>2, EvidenceStays DEF ReadBounded, KeyBounded, FailuresSoFar, QuietSoFar
    <2>3. EvidenceWasThere' /\ FailuresKept' /\ QuietFileExact'
        BY <1>2, GoesOn
    <2>4. QED
        BY <2>1, <2>2, <2>3 DEF Kept, InspectInv
<1>3. QED
    BY <1>1, <1>2 DEF Open

\* A part of the version that is there says no more than the version does.
LEMMA ReadKeeps == Kept /\ Read => Kept'
<1> SUFFICES ASSUME Kept, Read PROVE Kept'
    OBVIOUS
<1>0. /\ TypeOK /\ ReadBounded /\ EvidenceSoFar /\ FailuresSoFar /\ QuietSoFar
      /\ step = "read" /\ file \in seen
    BY DEF Kept, InspectInv, Read, TypeOK
<1>1. CASE Fail("read") /\ UNCHANGED seen
    BY <1>0, <1>1, FailKeeps
<1>2. CASE /\ step' = "detect"
           /\ signals' = signals \cup Recognised(file, ReadLength)
           /\ Further(ReadLength)
           /\ UNCHANGED <<file, path, info, errors, result, seen, broken>>
    <2>1. /\ ReadLength \in Nat /\ ReadLength <= MaxScan
          /\ Recognised(file, ReadLength) \subseteq OfContent(file)
          /\ info = file => Recognised(file, ReadLength) = OfContent(file)
        BY <1>0, Typed, ReadLengthBounds, LessRecognised
    <2>2. reach' \in Nat /\ ReadBounded'
        BY <1>0, <1>2, <2>1, Reaches, Typed
    <2>3. Recognised(file, ReadLength) \subseteq {"reddit-url", "image-content-type", "image-signature"}
        BY RecognisedNames
    <2>4. TypeOK'
        BY <1>0, <1>2, <2>2, <2>3 DEF TypeOK, FileSignals
    <2>5. KeyBounded' /\ FailuresSoFar'
        BY <1>0, <1>2 DEF KeyBounded, FailuresSoFar
    <2>6. EvidenceSoFar'
        <3>1. \A s \in Recognised(file, ReadLength) : Shown(s)
            BY <1>0, <2>1, <2>3 DEF Shown, Shows
        <3>2. \A s \in signals' : Shown(s)'
            BY <1>0, <1>2, <3>1, StillShown DEF EvidenceSoFar
        <3>3. QED
            BY <1>0, <1>2, <3>2 DEF EvidenceSoFar
    <2>7. QuietSoFar'
        BY <1>0, <1>2, <2>1 DEF QuietSoFar
    <2>8. EvidenceWasThere' /\ FailuresKept' /\ QuietFileExact'
        BY <1>2, GoesOn
    <2>9. QED
        BY <2>2, <2>4, <2>5, <2>6, <2>7, <2>8 DEF Kept, InspectInv
<1>3. QED
    BY <1>1, <1>2 DEF Read

\* A step that reads on, and finds what the version that is there says, keeps what
\* is known: the facts each of the three steps of the parser has in common.
LEMMA FoundIsSeen ==
    ASSUME Kept, NEW S \in SUBSET FileSignals, signals' = signals \cup S,
           \A s \in S : Shown(s),
           step' # "done", UNCHANGED <<seen, result>>, step # "done"
    PROVE  EvidenceSoFar' /\ signals' \subseteq FileSignals
<1>1. \A s \in signals' : Shown(s)'
    BY StillShown DEF Kept, InspectInv, EvidenceSoFar
<1>2. QED
    BY <1>1 DEF Kept, InspectInv, EvidenceSoFar, TypeOK

LEMMA DetectKeeps == Kept /\ Detect => Kept'
<1> SUFFICES ASSUME Kept, Detect PROVE Kept'
    OBVIOUS
<1>0. /\ TypeOK /\ ReadBounded /\ EvidenceSoFar /\ FailuresSoFar /\ QuietSoFar
      /\ step = "detect" /\ file \in seen
      /\ UNCHANGED <<file, path, info, result, seen>>
    BY DEF Kept, InspectInv, Detect, TypeOK
<1>T. /\ broken = {} /\ errors = {} /\ reach \in Nat
      /\ file.size \in Nat /\ info.size \in Nat
    BY <1>0, Typed DEF FailuresSoFar
<1>Q. seen = {file} => info = file /\ signals = OfTime(file) \cup OfContent(file)
    BY <1>0, <1>T DEF QuietSoFar
<1>1. CASE /\ info.size < MagicLength
           /\ step' = "score"
           /\ UNCHANGED <<signals, errors, reach, broken>>
    <2>1. TypeOK' /\ ReadBounded' /\ KeyBounded'
        BY <1>0, <1>1 DEF TypeOK, ReadBounded, KeyBounded
    <2>2. EvidenceSoFar' /\ FailuresSoFar'
        BY <1>0, <1>1, <1>T, EvidenceStays DEF FailuresSoFar
    <2>3. QuietSoFar'
        <3>1. seen = {file} => ~IsCache(file)
            BY <1>1, <1>T, <1>Q, LimitsGiven DEF IsCache
        <3>2. seen = {file} => signals = SignalsOf(file) /\ Complaints(file) = {}
            BY <1>Q, <3>1 DEF SignalsOf, OfMagic, OfKey, HasKey, Complaints
        <3>3. QED
            BY <1>0, <1>1, <1>T, <3>2 DEF QuietSoFar
    <2>4. QED
        BY <1>0, <1>1, <2>1, <2>2, <2>3, GoesOn DEF Kept, InspectInv
<1>2. CASE /\ step' = "score"
           /\ errors' = {"detect"}
           /\ broken' = broken \cup {"detect"}
           /\ UNCHANGED <<signals, reach>>
    <2>0. broken' = {"detect"} /\ errors' = {"detect"}
        BY <1>2, <1>T
    <2>1. TypeOK' /\ ReadBounded' /\ KeyBounded'
        BY <1>0, <1>2, <2>0 DEF TypeOK, ReadBounded, KeyBounded
    <2>2. EvidenceSoFar' /\ FailuresSoFar'
        BY <1>0, <1>2, <2>0, EvidenceStays DEF FailuresSoFar
    <2>3. QuietSoFar'
        BY <2>0 DEF QuietSoFar
    <2>4. QED
        BY <1>0, <1>2, <2>1, <2>2, <2>3, GoesOn DEF Kept, InspectInv
<1>3. CASE /\ info.size >= MagicLength /\ file.size >= MagicLength
           /\ step' = IF file.magic THEN "header" ELSE "score"
           /\ signals' = IF file.magic THEN signals \cup {"simple-cache-magic"} ELSE signals
           /\ Further(MagicLength)
           /\ UNCHANGED <<errors, broken>>
    <2>1. reach' \in Nat /\ ReadBounded'
        BY <1>0, <1>3, <1>T, Reaches, LimitsGiven
    <2>2. IsCache(file) <=> file.magic
        BY <1>3 DEF IsCache
    <2>3. signals' = signals \cup OfMagic(file) /\ OfMagic(file) \subseteq FileSignals
        BY <1>3, <2>2 DEF OfMagic, FileSignals
    <2>4. \A s \in OfMagic(file) : Shown(s)
        BY <1>0 DEF OfMagic, Shown, Shows
    <2>5. EvidenceSoFar' /\ signals' \subseteq FileSignals
        BY <1>0, <1>3, <2>3, <2>4, FoundIsSeen
    <2>6. TypeOK' /\ KeyBounded'
        BY <1>0, <1>3, <2>1, <2>5 DEF TypeOK, KeyBounded
    <2>7. FailuresSoFar'
        BY <1>0, <1>3, <1>T DEF FailuresSoFar
    <2>8. QuietSoFar'
        <3>1. CASE file.magic
            BY <1>0, <1>3, <1>Q, <2>2, <2>3, <3>1 DEF QuietSoFar
        <3>2. CASE ~file.magic
            <4>1. SignalsOf(file) = OfTime(file) \cup OfContent(file) /\ Complaints(file) = {}
                BY <2>2, <3>2 DEF SignalsOf, OfMagic, OfKey, HasKey, Complaints
            <4>2. QED
                BY <1>0, <1>3, <1>T, <1>Q, <3>2, <4>1 DEF QuietSoFar
        <3>3. QED
            BY <3>1, <3>2
    <2>9. QED
        BY <1>0, <1>3, <2>1, <2>5, <2>6, <2>7, <2>8, GoesOn DEF Kept, InspectInv
<1>4. QED
    BY <1>1, <1>2, <1>3 DEF Detect

\* A parser that gives up writes it down, once.
LEMMA GivingUp ==
    ASSUME Kept, NEW why \in {"entry", "readat"}, ParseFails(why),
           step \in {"header", "key"}, step' = "score", UNCHANGED <<path, result, seen>>
    PROVE  /\ errors' = {"parse"} /\ broken' = {why}
           /\ EvidenceSoFar' /\ FailuresSoFar'
<1>1. /\ broken = {} /\ errors = {} /\ "simple-cache-magic" \in signals
      /\ EvidenceSoFar
    BY DEF Kept, InspectInv, FailuresSoFar
<1>2. errors' = {"parse"} /\ broken' = {why} /\ signals' = signals
    BY <1>1 DEF ParseFails
<1>3. EvidenceSoFar'
    BY <1>1, <1>2, EvidenceStays
<1>4. QED
    BY <1>1, <1>2, <1>3 DEF FailuresSoFar

LEMMA ParseHeaderKeeps == Kept /\ ParseHeader => Kept'
<1> SUFFICES ASSUME Kept, ParseHeader PROVE Kept'
    OBVIOUS
<1>0. /\ TypeOK /\ ReadBounded /\ EvidenceSoFar /\ FailuresSoFar /\ QuietSoFar
      /\ step = "header" /\ file \in seen
      /\ UNCHANGED <<file, path, result, seen>>
    BY DEF Kept, InspectInv, ParseHeader, TypeOK
<1>T. /\ broken = {} /\ errors = {} /\ reach \in Nat
      /\ file \in VersionType /\ info \in VersionType
      /\ file.size \in Nat /\ info.size \in Nat /\ file.key \in Nat
    BY <1>0, Typed DEF FailuresSoFar
<1>Q. seen = {file} =>
         /\ info = file /\ IsCache(file)
         /\ signals = OfTime(file) \cup OfContent(file) \cup OfMagic(file)
    BY <1>0, <1>T DEF QuietSoFar
<1>1. CASE /\ \/ info.size < HeaderSize \/ file.size < HeaderSize
              \/ ~file.magic \/ ~file.known \/ ~KeyAccepted(file)
           /\ ParseFails("entry") /\ step' = "score" /\ UNCHANGED info
    <2>1. errors' = {"parse"} /\ broken' = {"entry"} /\ EvidenceSoFar' /\ FailuresSoFar'
        BY <1>0, <1>1, GivingUp
    <2>2. TypeOK' /\ ReadBounded' /\ KeyBounded'
        BY <1>0, <1>1, <2>1 DEF TypeOK, ReadBounded, KeyBounded, ParseFails
    <2>3. QuietSoFar'
        <3>1. seen = {file} => ~HasKey(file)
            BY <1>1, <1>T, <1>Q, LimitsGiven DEF HasKey, IsCache, KeyAccepted
        <3>2. seen = {file} => signals = SignalsOf(file) /\ Complaints(file) = {"parse"}
            BY <1>Q, <3>1 DEF SignalsOf, OfKey, Complaints
        <3>3. QED
            BY <1>0, <1>1, <2>1, <3>2 DEF QuietSoFar, ParseFails
    <2>4. QED
        BY <1>0, <1>1, <2>1, <2>2, <2>3, GoesOn DEF Kept, InspectInv
<1>2. CASE ParseFails("readat") /\ step' = "score" /\ UNCHANGED info
    <2>1. errors' = {"parse"} /\ broken' = {"readat"} /\ EvidenceSoFar' /\ FailuresSoFar'
        BY <1>0, <1>2, GivingUp
    <2>2. TypeOK' /\ ReadBounded' /\ KeyBounded'
        BY <1>0, <1>2, <2>1 DEF TypeOK, ReadBounded, KeyBounded, ParseFails
    <2>3. QuietSoFar'
        BY <2>1 DEF QuietSoFar
    <2>4. QED
        BY <1>0, <1>2, <2>1, <2>2, <2>3, GoesOn DEF Kept, InspectInv
<1>3. CASE /\ info.size >= HeaderSize /\ file.size >= HeaderSize
           /\ file.magic /\ file.known /\ KeyAccepted(file)
           /\ step' = "key"
           /\ info' = [info EXCEPT !.key = file.key]
           /\ Further(HeaderSize)
           /\ UNCHANGED <<signals, errors, broken>>
    <2>1. reach' \in Nat /\ ReadBounded'
        BY <1>0, <1>3, <1>T, Reaches, LimitsGiven
    <2>2. info' \in VersionType /\ info'.key = file.key /\ info'.size = info.size
        BY <1>3, <1>T DEF VersionType
    <2>3. TypeOK'
        BY <1>0, <1>3, <2>1, <2>2 DEF TypeOK
    <2>4. KeyBounded' /\ EvidenceSoFar' /\ FailuresSoFar'
        <3>1. Claims(file, info'.key)
            BY <1>3, <2>2 DEF Claims, KeyAccepted
        <3>2. KeyBounded'
            BY <1>0, <3>1 DEF KeyBounded, Claims
        <3>3. QED
            BY <1>0, <1>3, <1>T, <3>2, EvidenceStays DEF FailuresSoFar
    <2>5. QuietSoFar'
        <3>1. seen = {file} => info' = file
            BY <1>3, <1>T, <1>Q DEF VersionType
        <3>2. seen = {file} => HasKey(file)
            BY <1>3, <1>Q DEF HasKey, KeyAccepted
        <3>3. QED
            BY <1>0, <1>3, <1>Q, <3>1, <3>2 DEF QuietSoFar
    <2>6. QED
        BY <1>0, <1>3, <2>1, <2>3, <2>4, <2>5, GoesOn DEF Kept, InspectInv
<1>4. QED
    BY <1>1, <1>2, <1>3 DEF ParseHeader

LEMMA ReadKeyKeeps == Kept /\ ReadKey => Kept'
<1> SUFFICES ASSUME Kept, ReadKey PROVE Kept'
    OBVIOUS
<1>0. /\ TypeOK /\ ReadBounded /\ KeyBounded /\ EvidenceSoFar /\ FailuresSoFar /\ QuietSoFar
      /\ step = "key" /\ file \in seen /\ step' = "score"
      /\ UNCHANGED <<file, path, info, result, seen>>
    BY DEF Kept, InspectInv, ReadKey, TypeOK
<1>T. /\ broken = {} /\ errors = {} /\ reach \in Nat
      /\ file.size \in Nat /\ info.key \in Nat /\ info.key <= MaxKey
      /\ "simple-cache-magic" \in signals
    BY <1>0, Typed DEF FailuresSoFar, KeyBounded, Claims
<1>Q. seen = {file} =>
         /\ info = file /\ IsCache(file) /\ HasKey(file)
         /\ signals = OfTime(file) \cup OfContent(file) \cup OfMagic(file)
    BY <1>0, <1>T DEF QuietSoFar
<1>1. ASSUME NEW why \in {"entry", "readat"}, ParseFails(why),
             why = "entry" => file.size < HeaderSize + info.key
      PROVE  Kept'
    <2>1. errors' = {"parse"} /\ broken' = {why} /\ EvidenceSoFar' /\ FailuresSoFar'
        BY <1>0, <1>1, GivingUp
    <2>2. TypeOK' /\ ReadBounded' /\ KeyBounded'
        BY <1>0, <1>1, <2>1 DEF TypeOK, ReadBounded, KeyBounded, ParseFails
    <2>3. QuietSoFar'
        <3>1. seen = {file} => why # "entry"
            BY <1>1, <1>T, <1>Q, LimitsGiven DEF HasKey
        <3>2. QED
            BY <1>0, <1>1, <2>1, <3>1 DEF QuietSoFar
    <2>4. QED
        BY <1>0, <1>1, <2>1, <2>2, <2>3, GoesOn DEF Kept, InspectInv
<1>2. CASE /\ file.size >= HeaderSize + info.key
           /\ signals' = IF info.key \in file.urls THEN signals \cup {"valid-cache-key"} ELSE signals
           /\ Further(HeaderSize + info.key)
           /\ UNCHANGED <<errors, broken>>
    <2>1. reach' \in Nat /\ ReadBounded'
        <3>1. HeaderSize + info.key \in Nat /\ HeaderSize + info.key <= HeaderSize + MaxKey
            BY <1>T, LimitsGiven
        <3>2. QED
            BY <1>0, <1>2, <1>T, <3>1, Reaches
    <2>2. signals' = signals \cup (IF info.key \in file.urls THEN {"valid-cache-key"} ELSE {})
        BY <1>2
    <2>3. EvidenceSoFar' /\ signals' \subseteq FileSignals
        <3> DEFINE S == IF info.key \in file.urls THEN {"valid-cache-key"} ELSE {}
        <3>0. info.key \in file.urls => KeyShown
            <4>1. PICK u \in seen : Claims(u, info.key)
                BY <1>0 DEF KeyBounded
            <4>2. u.key = info.key /\ Claims(u, u.key)
                BY <4>1 DEF Claims
            <4>3. QED
                BY <1>0, <1>2, <4>2 DEF KeyShown
        <3>1. S \in SUBSET FileSignals /\ \A s \in S : Shown(s)
            BY <3>0 DEF FileSignals, Shown
        <3>2. signals' = signals \cup S
            BY <2>2
        <3> HIDE DEF S
        <3>3. QED
            BY <1>0, <3>1, <3>2, FoundIsSeen
    <2>4. TypeOK' /\ KeyBounded'
        BY <1>0, <1>2, <2>1, <2>3 DEF TypeOK, KeyBounded
    <2>5. FailuresSoFar'
        BY <1>0, <1>2, <1>T DEF FailuresSoFar
    <2>6. QuietSoFar'
        <3>1. seen = {file} => signals' = SignalsOf(file) /\ Complaints(file) = {}
            BY <1>Q, <2>2 DEF SignalsOf, OfKey, Complaints
        <3>2. QED
            BY <1>0, <1>2, <1>T, <3>1 DEF QuietSoFar
    <2>7. QED
        BY <1>0, <1>2, <2>1, <2>3, <2>4, <2>5, <2>6, GoesOn DEF Kept, InspectInv
<1>3. QED
    BY <1>1, <1>2 DEF ReadKey

\* The end: what was recognised is what is returned, or nothing is, and the rules
\* make every file that begins like a cache entry a candidate.
LEMMA ScoreKeeps == Kept /\ Score => Kept'
<1> DEFINE all == signals \cup path
<1> SUFFICES ASSUME Kept, Score PROVE Kept'
    OBVIOUS
<1>0. /\ TypeOK /\ ReadBounded /\ EvidenceSoFar /\ FailuresSoFar /\ QuietSoFar
      /\ step = "score" /\ step' = "done" /\ file \in seen
      /\ UNCHANGED <<file, path, info, signals, errors, reach, seen, broken>>
    BY DEF Kept, InspectInv, Score, TypeOK
<1>1. result' = [confidence |-> IF IsCandidate(all) THEN Confidence(all) ELSE 0,
                 signals |-> IF IsCandidate(all) THEN all ELSE {},
                 errors |-> IF IsCandidate(all) THEN errors ELSE {},
                 err |-> "detect" \in errors]
    BY DEF Score
<1>2. /\ Confidence(all) \in Int
      /\ IsCandidate(all) <=> Confidence(all) > 0
      /\ "simple-cache-magic" \in signals => IsCandidate(all)
    BY Scores DEF IsCandidate
<1>3. all \subseteq FileSignals \cup PathSignals /\ errors \subseteq {"detect", "parse"}
    BY <1>0, Typed DEF TypeOK
<1>4. /\ result'.confidence = IF Confidence(all) > 0 THEN Confidence(all) ELSE 0
      /\ result'.signals = IF Confidence(all) > 0 THEN all ELSE {}
      /\ result'.errors = IF Confidence(all) > 0 THEN errors ELSE {}
      /\ result'.err = ("detect" \in errors)
    BY <1>1, <1>2
<1> HIDE DEF all
<1>5. TypeOK'
    <2>1. result' \in [confidence : Nat, signals : SUBSET (FileSignals \cup PathSignals),
                       errors : SUBSET {"detect", "parse"}, err : BOOLEAN]
        BY <1>1, <1>2, <1>3
    <2>2. QED
        BY <1>0, <2>1 DEF TypeOK
<1>6. ReadBounded' /\ KeyBounded' /\ EvidenceSoFar' /\ FailuresSoFar' /\ QuietSoFar'
    BY <1>0, EvidenceStays DEF ReadBounded, KeyBounded, FailuresSoFar, QuietSoFar
<1>7. EvidenceWasThere'
    <2>1. \A s \in result'.signals \ path' : s \in signals
        BY <1>0, <1>4 DEF all
    <2>2. QED
        BY <1>0, <2>1, StillShown DEF EvidenceSoFar, EvidenceWasThere
<1>8. FailuresKept'
    <2>1. broken \ {"entry", "readat"} # {} => "detect" \in errors
        BY <1>0 DEF FailuresSoFar
    <2>2. broken \cap {"entry", "readat"} # {} => "parse" \in errors /\ Confidence(all) > 0
        BY <1>0, <1>2 DEF FailuresSoFar
    <2>3. QED
        BY <1>0, <1>4, <2>1, <2>2 DEF FailuresKept
<1>9. QuietFileExact'
    <2> SUFFICES ASSUME Cardinality(seen) = 1, broken \subseteq {"entry"}
                 PROVE  LET A == SignalsOf(file) \cup path
                        IN /\ ~result'.err
                           /\ result'.confidence = IF Confidence(A) > 0 THEN Confidence(A) ELSE 0
                           /\ result'.confidence > 0 =>
                                 result'.signals = A /\ result'.errors = Complaints(file)
        BY <1>0 DEF QuietFileExact, SignalsOf, Complaints, OfTime, OfContent, OfMagic, OfKey,
                    HasKey, IsCache
    <2>1. seen = {file}
        BY <1>0, FS_Singleton DEF TypeOK
    <2>2. signals = SignalsOf(file) /\ errors = Complaints(file)
        BY <1>0, <2>1 DEF QuietSoFar
    <2>3. "detect" \notin errors
        BY <2>2 DEF Complaints
    <2>4. all = SignalsOf(file) \cup path
        BY <2>2 DEF all
    <2>5. ~result'.err
        BY <1>1, <2>3
    <2>6. QED
        BY <1>2, <1>4, <2>2, <2>4, <2>5
<1>10. QED
    BY <1>5, <1>6, <1>7, <1>8, <1>9 DEF Kept, InspectInv

\* Somebody writes: the file is one it was not, and more than one was seen.
LEMMA ChangeKeeps == Kept /\ Change => Kept'
<1> SUFFICES ASSUME Kept, Change PROVE Kept'
    OBVIOUS
<1>0. /\ TypeOK /\ ReadBounded /\ KeyBounded /\ EvidenceSoFar /\ FailuresSoFar
      /\ step \notin {"stat", "done"} /\ file \in seen
      /\ file' \in Versions \ seen /\ seen' = seen \cup {file'}
      /\ UNCHANGED <<path, step, info, signals, errors, result, reach, broken>>
    BY DEF Kept, InspectInv, Change, TypeOK
<1>1. IsFiniteSet(seen')
    BY <1>0, FS_AddElement DEF TypeOK
<1>2. TypeOK'
    BY <1>0, <1>1 DEF TypeOK
<1>3. ReadBounded' /\ KeyBounded' /\ FailuresSoFar'
    BY <1>0 DEF ReadBounded, KeyBounded, Claims, FailuresSoFar
<1>4. EvidenceSoFar'
    BY <1>0, EvidenceStays
<1>5. seen' # {file'}
    BY <1>0
<1>6. QuietSoFar'
    BY <1>5 DEF QuietSoFar
<1>7. QED
    BY <1>0, <1>2, <1>3, <1>4, <1>6, GoesOn DEF Kept, InspectInv

LEMMA NextKeeps == Kept /\ [Next]_vars => Kept'
<1> SUFFICES ASSUME Kept, [Next]_vars PROVE Kept'
    OBVIOUS
<1>1. CASE Call
    BY <1>1, StatKeeps, OpenKeeps, ReadKeeps, DetectKeeps, ParseHeaderKeeps, ReadKeyKeeps,
       ScoreKeeps DEF Call
<1>2. CASE Change
    BY <1>2, ChangeKeeps
<1>3. CASE Returned \/ UNCHANGED vars
    <2>1. UNCHANGED vars
        BY <1>3 DEF Returned
    <2>2. InspectInv'
        <3>1. EvidenceSoFar'
            BY <2>1, StillShown DEF Kept, InspectInv, vars, EvidenceSoFar
        <3>2. QED
            BY <2>1, <3>1 DEF Kept, InspectInv, vars, TypeOK, ReadBounded, KeyBounded, Claims,
                              FailuresSoFar, QuietSoFar
    <2>3. EvidenceWasThere' /\ FailuresKept' /\ QuietFileExact'
        BY <2>1, StillShown DEF Kept, vars, EvidenceWasThere, FailuresKept, QuietFileExact
    <2>4. QED
        BY <2>2, <2>3 DEF Kept
<1>4. QED
    BY <1>1, <1>2, <1>3 DEF Next

LEMMA AlwaysKept == Spec => []Kept
BY InitKept, NextKeeps, PTL DEF Spec

-----------------------------------------------------------------------------
(* The theorems.                                                            *)

\* The invariant of InspectChanging, and with it that no claim of a file makes
\* inspect read beyond the limit and one bounded key.
THEOREM InspectInvariant == Spec => []InspectInv
<1>1. Kept => InspectInv
    BY DEF Kept
<1>2. QED
    BY <1>1, AlwaysKept, PTL

\* inspect never says of a file what it was at no time: whoever writes it between
\* the calls, each signal of a candidate was true of a version that was there, but
\* for the key, whose length and whose bytes may be those of two of them.
THEOREM SignalsWereThere == Spec => []EvidenceWasThere
<1>1. Kept => EvidenceWasThere
    BY DEF Kept
<1>2. QED
    BY <1>1, AlwaysKept, PTL

\* A call that failed is returned as an error or stands in the candidate's record:
\* the rules of scoring.Evaluate cannot drop a file that begins like an entry.
THEOREM NoFailureLost == Spec => []FailuresKept
<1>1. Kept => FailuresKept
    BY DEF Kept
<1>2. QED
    BY <1>1, AlwaysKept, PTL

\* A readable file nobody touches is judged by exactly the signals it has.
THEOREM RestingFileJudgedExactly == Spec => []QuietFileExact
<1>1. Kept => QuietFileExact
    BY DEF Kept
<1>2. QED
    BY <1>1, AlwaysKept, PTL
==============================================================================
