-------------------------- MODULE SimpleCacheLayout --------------------------
(***************************************************************************)
(* simplecache.ParseFile: which bytes of an entry file are its key and its   *)
(* streams, and how much of them is verified.  Each read of the file is a    *)
(* step, and between two of them whoever else has the file may change it;    *)
(* the size is the one Stat gave at the beginning.                           *)
(***************************************************************************)
EXTENDS SimpleCacheFiles

CONSTANTS Files,          \* what the file may contain, now or later
          Lengths,        \* what a damaged length may claim
          Suffixes,       \* how its name may end
          MaxKeyLength, MaxMetadataLength, MaxValidationBytes,
          MaxInt32, MaxInt64,
          Unstable,       \* bound: those of them that may change, or fail to be read
          MaxChanges      \* bound: how often the file changes during a parse

ASSUME FilesAssumption == (\A f \in Files : IsFile(f)) /\ Unstable \subseteq Files

\* For what is said of intact files and of one damage: a file is as Chrome wrote
\* it, or one damage away from that.
ASSUME DamageAssumption ==
    /\ \A f \in Files :
          /\ f.of \in WritingType
          /\ f = Written(f.of, f.id) \/ f \in Damages(Written(f.of, f.id), Lengths)
    /\ Lengths \subseteq Nat

ASSUME LimitsAssumption ==
    /\ MaxKeyLength \in Nat /\ MaxMetadataLength \in Nat /\ MaxValidationBytes \in Nat
    /\ MaxInt32 \in Nat /\ MaxInt64 \in Nat /\ MaxChanges \in Nat
    /\ Suffixes \subseteq {"_0", "_1", "other"}

\* The lengths the parser allows stay far below 64 bits.
ASSUME WidthsAssumption ==
    /\ FileHeaderSize + MaxKeyLength <= MaxInt64
    /\ 2 * FileEOFSize + MaxInt32 + SHASize <= MaxInt64

VARIABLES
    file,      \* the file now
    suffix,    \* of its name; "other" also for a name with an extension
    pc,        \* the next read
    size,      \* the size the parser goes by
    entry,     \* the Entry under construction, without its streams
    streams,   \* Entry.Streams, by index: 0 and 1, or 2, or none yet
    last,      \* the footer at the end
    outcome,   \* what the parser returned
    allocated, \* history: the largest buffer readAt made
    changes    \* history: how often the file has changed

vars == <<file, suffix, pc, size, entry, streams, last, outcome, allocated, changes>>

NoHeader == [magic |-> FALSE, version |-> FALSE, keyLength |-> 0, keyHash |-> Nothing]
NoFooter == Footer(FALSE, FALSE, Nothing, 0)
NoStreams == [i \in {} |-> NoFooter]

NoEntry == [header |-> NoHeader, key |-> Nothing, keyVerified |-> FALSE,
            body |-> Nothing, keySHA |-> "absent", http |-> FALSE,
            warnings |-> {}]

Init == /\ file \in Files /\ suffix \in Suffixes
        /\ pc = "open" /\ size = 0
        /\ entry = NoEntry /\ streams = NoStreams /\ last = NoFooter
        /\ outcome = "none" /\ allocated = 0 /\ changes = 0

-----------------------------------------------------------------------------
(* Reading.                                                                  *)

\* The bounds check of readAt.
InRange(offset, length, limit) ==
    offset >= 0 /\ length >= 0 /\ offset <= limit /\ length <= limit - offset

\* os.File.ReadAt fills the buffer or fails.
Readable(offset, length, limit) ==
    InRange(offset, length, limit) /\ (length = 0 \/ offset + length <= file.size)

Buffer(offset, length, limit) ==
    allocated' = IF InRange(offset, length, limit) /\ length > allocated THEN length ELSE allocated

IsEOF(offset) == offset \in DOMAIN file.footers

Overflows(a, b) == b > 0 /\ a > MaxInt64 - b

Warn(e, warnings) == [e EXCEPT !.warnings = @ \cup warnings]

Continue(where) == pc' = where /\ UNCHANGED outcome
Return(result) == pc' = "done" /\ outcome' = result

-----------------------------------------------------------------------------
(* The steps of the parser.                                                  *)

Open == /\ pc = "open"
        /\ size' = file.size
        /\ Continue("header")
        /\ UNCHANGED <<file, suffix, entry, streams, last, allocated, changes>>

BaseOffset(h) == FileHeaderSize + h.keyLength

\* Variant: any key that is inside the file is read.
HeaderVerdictNoLimit(h) ==
    IF ~h.magic THEN "not simple cache"
    ELSE IF ~h.version THEN "unsupported"
    ELSE IF BaseOffset(h) > size THEN "truncated"
    ELSE "ok"

\* The checks of the header, before the key is read.
HeaderVerdict(h) ==
    IF ~h.magic THEN "not simple cache"
    ELSE IF ~h.version THEN "unsupported"
    ELSE IF h.keyLength > MaxKeyLength THEN "corrupt"
    ELSE IF Overflows(FileHeaderSize, h.keyLength) \/ BaseOffset(h) > size THEN "truncated"
    ELSE "ok"

ReadHeader ==
    /\ pc = "header"
    /\ Buffer(0, FileHeaderSize, size)
    /\ IF ~Readable(0, FileHeaderSize, size) THEN Return("truncated") /\ UNCHANGED entry
       ELSE /\ entry' = [entry EXCEPT !.header = file.header]
            /\ LET verdict == HeaderVerdict(file.header)
               IN IF verdict = "ok" THEN Continue("key") ELSE Return(verdict)
    /\ UNCHANGED <<file, suffix, size, streams, last, changes>>

\* Variant: a key that does not hash to what the header says is no matter.
WithKeyUnchecked(key) == [entry EXCEPT !.key = key, !.keyVerified = key = entry.header.keyHash]

WithKey(key) ==
    Warn([entry EXCEPT !.key = key, !.keyVerified = key = entry.header.keyHash],
         IF key = entry.header.keyHash THEN {} ELSE {<<"key hash", 0>>})

ReadKey ==
    /\ pc = "key"
    /\ Buffer(FileHeaderSize, entry.header.keyLength, size)
    /\ IF ~Readable(FileHeaderSize, entry.header.keyLength, size)
       THEN Return("truncated") /\ UNCHANGED entry
       ELSE /\ entry' = WithKey(BytesAt(file, FileHeaderSize, entry.header.keyLength))
            /\ Continue("last")
    /\ UNCHANGED <<file, suffix, size, streams, last, changes>>

\* ParseFileReader: the name decides which layouts are tried.
FirstLayout == IF suffix = "_1" THEN "stream2" ELSE "combined"

\* Only without a telling name, and only if the last footer allows it.
MayFallBack == suffix = "other" /\ last.streamSize = 0

ReadLastEOF ==
    /\ pc = "last"
    /\ Buffer(size - FileEOFSize, FileEOFSize, size)
    /\ IF ~Readable(size - FileEOFSize, FileEOFSize, size)
       THEN Return("truncated") /\ UNCHANGED last
       ELSE IF ~IsEOF(size - FileEOFSize) THEN Return("corrupt") /\ UNCHANGED last
       ELSE /\ last' = file.footers[size - FileEOFSize]
            /\ IF last'.streamSize > MaxInt32 THEN Return("corrupt") ELSE Continue(FirstLayout)
    /\ UNCHANGED <<file, suffix, size, entry, streams, changes>>

Base == BaseOffset(entry.header)

SHALength == IF last.hasSHA THEN SHASize ELSE 0

\* Variant: the key digest is forgotten.
FixedLengthNoSHA == 2 * FileEOFSize + last.streamSize

\* All of a combined file after the key but stream 1.
FixedLength == 2 * FileEOFSize + last.streamSize + SHALength

CombinedFits == /\ ~Overflows(2 * FileEOFSize, last.streamSize)
                /\ ~Overflows(2 * FileEOFSize + last.streamSize, SHALength)
                /\ FixedLength <= size - Base

Stream1Length == size - Base - FixedLength
Stream1EOF == Base + Stream1Length

Stream(offset, length, eofOffset, footer) ==
    [offset |-> offset, length |-> length, eof |-> eofOffset, hasCRC |-> footer.hasCRC,
     expected |-> footer.crc, verified |-> FALSE]

\* Variant: stream 0 is looked for behind the key digest.
CombinedStreamsLate(inner) ==
    [i \in {0, 1} |-> IF i = 0
        THEN Stream(Stream1EOF + FileEOFSize + SHALength, last.streamSize, size - FileEOFSize, last)
        ELSE Stream(Base, Stream1Length, Stream1EOF, inner)]

CombinedStreams(inner) ==
    [i \in {0, 1} |-> IF i = 0
        THEN Stream(Stream1EOF + FileEOFSize, last.streamSize, size - FileEOFSize, last)
        ELSE Stream(Base, Stream1Length, Stream1EOF, inner)]

\* The inner footer has to be where the lengths say, and to be one.
CombinedHolds == /\ CombinedFits
                 /\ Readable(Stream1EOF, FileEOFSize, size)
                 /\ IsEOF(Stream1EOF)
                 /\ file.footers[Stream1EOF].streamSize = 0

UnknownFlags(footer, i) == IF footer.unknown THEN {<<"unknown flags", i>>} ELSE {}

ReadCombined ==
    /\ pc = "combined"
    /\ IF CombinedFits THEN Buffer(Stream1EOF, FileEOFSize, size) ELSE UNCHANGED allocated
    /\ \/ /\ CombinedHolds
          /\ LET inner == file.footers[Stream1EOF]
             IN /\ streams' = CombinedStreams(inner)
                /\ entry' = Warn(entry, UnknownFlags(last, 0) \cup UnknownFlags(inner, 1))
          /\ Continue("crc 0")
       \/ /\ ~CombinedHolds
          /\ IF MayFallBack THEN Continue("stream2") ELSE Return("corrupt")
          /\ UNCHANGED <<entry, streams>>
    /\ UNCHANGED <<file, suffix, size, last, changes>>

Stream2Length == size - Base - FileEOFSize

Stream2Holds == last.streamSize = 0 /\ Stream2Length >= 0

TakeStream2 ==
    /\ pc = "stream2"
    /\ \/ /\ Stream2Holds
          /\ streams' = [i \in {2} |-> Stream(Base, Stream2Length, size - FileEOFSize, last)]
          /\ entry' = Warn(entry, UnknownFlags(last, 2))
          /\ Continue("crc 2")
       \/ /\ ~Stream2Holds
          /\ Return("corrupt")
          /\ UNCHANGED <<entry, streams>>
    /\ UNCHANGED <<file, suffix, size, last, allocated, changes>>

\* validateStream: the CRC is of what is there now, were it shorter.
MarkVerified(i) == streams' = [streams EXCEPT ![i].verified = TRUE] /\ UNCHANGED entry
NotVerified(i, why) == entry' = Warn(entry, {<<why, i>>}) /\ UNCHANGED streams

Validate(i) ==
    LET s == streams[i]
    IN \/ ~s.hasCRC /\ UNCHANGED <<entry, streams>>
       \/ s.hasCRC /\ s.length > MaxValidationBytes /\ NotVerified(i, "crc skipped")
       \/ /\ s.hasCRC /\ s.length <= MaxValidationBytes
          /\ \/ BytesAt(file, s.offset, s.length) = s.expected /\ MarkVerified(i)
             \/ BytesAt(file, s.offset, s.length) # s.expected /\ NotVerified(i, "crc mismatch")
             \/ file \in Unstable /\ NotVerified(i, "crc unread")

Validate0 == /\ pc = "crc 0" /\ Validate(0) /\ Continue("crc 1")
             /\ UNCHANGED <<file, suffix, size, last, allocated, changes>>

Validate1 == /\ pc = "crc 1" /\ Validate(1) /\ Continue("digest")
             /\ UNCHANGED <<file, suffix, size, last, allocated, changes>>

Validate2 == /\ pc = "crc 2" /\ Validate(2)
             /\ IF suffix = "_1" THEN Return("ok") ELSE Continue("fallen back")
             /\ UNCHANGED <<file, suffix, size, last, allocated, changes>>

\* parseWithLayout says so when nothing in the name asked for stream 2.
SayFallenBack == /\ pc = "fallen back"
                 /\ entry' = Warn(entry, {<<"read as stream 2", 2>>})
                 /\ Return("ok")
                 /\ UNCHANGED <<file, suffix, size, streams, last, allocated, changes>>

ReadFails(warning) == file \in Unstable /\ entry' = Warn(entry, {warning})

\* digestSection of stream 1.
Digest ==
    /\ pc = "digest"
    /\ LET s == streams[1]
       IN IF s.length > MaxValidationBytes THEN entry' = Warn(entry, {<<"digest skipped", 1>>})
          ELSE \/ entry' = [entry EXCEPT !.body = BytesAt(file, s.offset, s.length)]
               \/ ReadFails(<<"digest unread", 1>>)
    /\ Continue(IF last.hasSHA THEN "key sha" ELSE "http")
    /\ UNCHANGED <<file, suffix, size, streams, last, allocated, changes>>

\* verifyKeySHA256: a digest is a digest only where one was written.
StoredDigest(offset) == IF offset \in DOMAIN file.digests THEN file.digests[offset] ELSE Garbage

VerifyKeySHA ==
    /\ pc = "key sha"
    /\ LET offset == streams[0].offset + streams[0].length
       IN /\ Buffer(offset, SHASize, size)
          /\ IF ~Readable(offset, SHASize, size)
             THEN entry' = Warn(entry, {<<"key sha unread", 0>>})
             ELSE \/ /\ StoredDigest(offset) = entry.key
                     /\ entry' = [entry EXCEPT !.keySHA = "verified"]
                  \/ /\ StoredDigest(offset) # entry.key
                     /\ entry' = Warn([entry EXCEPT !.keySHA = "mismatch"], {<<"key sha mismatch", 0>>})
                  \/ ReadFails(<<"key sha unread", 0>>)
    /\ Continue("http")
    /\ UNCHANGED <<file, suffix, size, streams, last, changes>>

MetadataAllowed(length) == length > 0 /\ length <= MaxMetadataLength

\* parseHTTPStream; whether the metadata make sense is left open.
ParseHTTP ==
    /\ pc = "http"
    /\ LET s == streams[0]
       IN IF ~MetadataAllowed(s.length)
          THEN entry' = Warn(entry, {<<"no metadata", 0>>}) /\ UNCHANGED allocated
          ELSE /\ Buffer(s.offset, s.length, s.offset + s.length)
               /\ \/ /\ Readable(s.offset, s.length, s.offset + s.length)
                     /\ entry' = [entry EXCEPT !.http = TRUE]
                  \/ entry' = Warn(entry, {<<"bad metadata", 0>>})
    /\ Return("ok")
    /\ UNCHANGED <<file, suffix, size, streams, last, changes>>

Parse == \/ Open \/ ReadHeader \/ ReadKey \/ ReadLastEOF \/ ReadCombined \/ TakeStream2
         \/ Validate0 \/ Validate1 \/ Validate2 \/ SayFallenBack
         \/ Digest \/ VerifyKeySHA \/ ParseHTTP

\* Chrome, or anyone else, changes the file.
Change == /\ pc \notin {"open", "done"} /\ changes < MaxChanges
          /\ file \in Unstable /\ file' \in Unstable
          /\ changes' = changes + 1
          /\ UNCHANGED <<suffix, pc, size, entry, streams, last, outcome, allocated>>

Terminated == pc = "done" /\ UNCHANGED vars

Next == Parse \/ Change \/ Terminated

Spec == Init /\ [][Next]_vars

-----------------------------------------------------------------------------
(* Properties.                                                               *)

\* What may be said, and of which stream.
WarningKinds == {"key hash", "key sha unread", "key sha mismatch", "unknown flags", "crc skipped",
                 "crc mismatch", "crc unread", "digest skipped", "digest unread", "no metadata",
                 "bad metadata", "read as stream 2"}
Warnings == WarningKinds \X {0, 1, 2}

EntryType == [header : HeaderType, key : Bytes, keyVerified : BOOLEAN, body : Bytes,
              keySHA : {"absent", "verified", "mismatch"}, http : BOOLEAN,
              warnings : SUBSET Warnings]

StreamType == [offset : Nat, length : Nat, eof : Nat, hasCRC : BOOLEAN, expected : Bytes,
               verified : BOOLEAN]

StreamSets == {{}, {0, 1}, {2}}

PCs == {"open", "header", "key", "last", "combined", "stream2", "crc 0", "crc 1", "crc 2",
        "fallen back", "digest", "key sha", "http", "done"}

\* The parser keeps its state in range: there are streams 0 and 1, or stream 2,
\* or none, and no offset or length computed from the file's claims is negative.
TypeOK ==
    /\ IsFile(file) /\ suffix \in Suffixes /\ pc \in PCs
    /\ size \in Nat /\ allocated \in Nat /\ changes \in 0 .. MaxChanges
    /\ entry \in EntryType
    /\ \E S \in StreamSets : streams \in [S -> StreamType]
    /\ last \in FooterType
    /\ outcome \in {"none", "ok", "truncated", "corrupt", "not simple cache", "unsupported"}

\* Stream 1, its footer, stream 0, the key digest and the last footer follow
\* each other from the end of the key to the end of the file, without a gap and
\* without an overlap, whatever lengths the file claims; so does stream 2.
StreamsTile ==
    LET s == streams
    IN /\ DOMAIN s = {0, 1} =>
             /\ s[1].offset = Base /\ s[1].length >= 0
             /\ s[1].eof = s[1].offset + s[1].length
             /\ s[0].offset = s[1].eof + FileEOFSize /\ s[0].length >= 0
             /\ s[0].eof = s[0].offset + s[0].length + SHALength
             /\ s[0].eof + FileEOFSize = size
       /\ DOMAIN s = {2} =>
             /\ s[2].offset = Base /\ s[2].length >= 0
             /\ s[2].eof = s[2].offset + s[2].length
             /\ s[2].eof + FileEOFSize = size

\* No file, whatever lengths it claims, makes the parser allocate more than the
\* limits of the key and of the metadata.
AllocationBounded ==
    \/ allocated <= MaxKeyLength \/ allocated <= MaxMetadataLength
    \/ allocated \in {FileHeaderSize, FileEOFSize, SHASize}

\* A name that tells the layout is believed even when the file is damaged: a
\* corrupt combined file is never read as stream 2, and no stream-2 file as a
\* combined one, though its bytes may look like it.
SuffixRespected ==
    outcome = "ok" => /\ suffix = "_0" => DOMAIN streams = {0, 1}
                      /\ suffix = "_1" => DOMAIN streams = {2}

\* Which streams there are at each step, which steps a name excludes, and that a
\* key is only read after its length has been checked.
StepsInOrder ==
    /\ pc \in {"open", "header", "key", "last", "combined", "stream2"} => DOMAIN streams = {}
    /\ pc \in {"crc 0", "crc 1", "digest", "key sha", "http"} => DOMAIN streams = {0, 1}
    /\ pc \in {"crc 2", "fallen back"} => DOMAIN streams = {2}
    /\ suffix = "_0" => pc # "stream2" /\ DOMAIN streams # {2}
    /\ suffix = "_1" => pc # "combined" /\ DOMAIN streams # {0, 1}
    /\ pc = "key" => entry.header.keyLength <= MaxKeyLength
    /\ outcome = "none" <=> pc # "done"
    /\ outcome = "ok" => DOMAIN streams # {}

\* The inductive invariant of the parser.
LayoutInv == TypeOK /\ StepsInOrder /\ StreamsTile /\ AllocationBounded

\* The regions of the streams of a file that was written as w.
WrittenRegions(w) ==
    IF w.layout = "combined"
    THEN {<<0, MetaOffset(w), w.meta>>, <<1, BodyOffset(w), w.body>>}
    ELSE {<<2, BodyOffset(w), w.body>>}

Regions == {<<i, streams[i].offset, streams[i].length>> : i \in DOMAIN streams}

\* Warnings that say that something was not looked at.
Unlooked == {"digest skipped", "no metadata", "bad metadata", "read as stream 2", "crc skipped"}
            \X {0, 1, 2}

\* Chrome names combined files ..._0 and stream-2 files ..._1.
NameFits(w) == /\ suffix = "_0" => w.layout = "combined"
               /\ suffix = "_1" => w.layout = "stream2"

\* An intact file is recovered as it was written: key, streams, and everything
\* that is verified is found to be right, even if the body ends in what looks
\* like a footer (but for a stream-2 file whose name does not tell).
IntactRecovered ==
    LET w == file.of
    IN /\ pc = "done" /\ file \notin Unstable /\ file.damage = 0
       /\ w.key <= MaxKeyLength /\ w.meta <= MaxInt32 /\ NameFits(w)
       /\ (suffix = "other" /\ w.layout = "stream2" => ~w.lookalike)
       => /\ outcome = "ok"
          /\ Regions = WrittenRegions(w)
          /\ entry.key = BytesAt(file, FileHeaderSize, w.key) /\ entry.keyVerified
          /\ w.layout = "combined" /\ w.sha => entry.keySHA = "verified"
          /\ entry.warnings \subseteq Unlooked

\* One damage anywhere in a file with checksums (and no body that looks like a
\* footer of its own): a cut, an altered byte or an altered field, gives an error or a warning, or does not matter: key and
\* streams are still the ones that were written.
DamageNoticed ==
    LET w == file.of
    IN /\ outcome = "ok" /\ entry.warnings = {} /\ changes = 0
       /\ w.crc /\ ~w.lookalike /\ NameFits(w)
       => /\ Regions = WrittenRegions(w)
          /\ entry.key = BytesAt(Written(w, file.id), FileHeaderSize, w.key)
          /\ \A r \in Regions :
                BytesAt(file, r[2], r[3]) = BytesAt(Written(w, file.id), r[2], r[3])
=============================================================================
