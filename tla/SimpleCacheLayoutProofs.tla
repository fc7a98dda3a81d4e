----------------------- MODULE SimpleCacheLayoutProofs -----------------------
(***************************************************************************)
(* Proofs about SimpleCacheLayout, for any sizes of header, footer and       *)
(* digest, any limits, and any changes of the file between two reads.        *)
(* First what holds of every parse; then, with what an undisturbed parse has *)
(* found (Undisturbed), that one damage anywhere in a written file is        *)
(* noticed or harmless; and with Recovering, that an intact file comes back  *)
(* as it was written.                                                        *)
(***************************************************************************)
EXTENDS SimpleCacheLayout, TLAPS

-----------------------------------------------------------------------------
(* Lemmas about the operators.                                              *)

\* What is read from a file is bytes, and so is what stands for a digest.
LEMMA BytesTyped ==
    ASSUME NEW f, IsFile(f), NEW offset \in Int, NEW length \in Int
    PROVE  BytesAt(f, offset, length) \in Bytes
<1> DEFINE there == IF f.size - offset < length THEN f.size - offset ELSE length
           altered == {o \in f.altered : offset <= o /\ o < offset + there}
<1>1. f.size \in Nat /\ f.id \in Int /\ f.altered \in SUBSET Int
    BY DEF IsFile
<1>2. there \in Int /\ altered \in SUBSET Int
    BY <1>1
<1>3. Nothing \in Bytes
    BY DEF Nothing, Bytes
<1>4. [entry |-> f.id, offset |-> offset, length |-> there, altered |-> altered] \in Bytes
    BY <1>1, <1>2 DEF Bytes
<1>5. QED
    BY <1>3, <1>4 DEF BytesAt

\* A warning changes nothing of an entry but its warnings.
LEMMA WarnTyped ==
    ASSUME NEW e \in EntryType, NEW W \in SUBSET Warnings
    PROVE  Warn(e, W) \in EntryType /\ Warn(e, W).header = e.header
    BY DEF Warn, EntryType

\* One warning is a set of warnings.
LEMMA OneWarning ==
    ASSUME NEW why \in WarningKinds, NEW i \in {0, 1, 2}
    PROVE  {<<why, i>>} \in SUBSET Warnings
<1>1. <<why, i>> \in Warnings
    BY DEF Warnings
<1>2. QED
    BY <1>1

\* The warning about unknown flags, if any, is a set of warnings.
LEMMA FlagsWarning ==
    ASSUME NEW footer, NEW i \in {0, 1, 2}
    PROVE  UnknownFlags(footer, i) \in SUBSET Warnings
<1>1. {<<"unknown flags", i>>} \in SUBSET Warnings
    BY OneWarning DEF WarningKinds
<1>2. {} \in SUBSET Warnings
    OBVIOUS
<1>3. QED
    BY <1>1, <1>2 DEF UnknownFlags

\* A stream of natural numbers and of a footer's fields is a stream.
LEMMA StreamTyped ==
    ASSUME NEW offset \in Nat, NEW length \in Nat, NEW end \in Nat, NEW footer \in FooterType
    PROVE  Stream(offset, length, end, footer) \in StreamType
    BY DEF Stream, StreamType, FooterType

\* The buffer of a read is a natural number, and within the limits if its
\* length is.
LEMMA BufferTyped ==
    ASSUME allocated \in Nat, AllocationBounded,
           NEW offset \in Int, NEW length \in Nat, NEW limit \in Int,
           Buffer(offset, length, limit),
           \/ length <= MaxKeyLength \/ length <= MaxMetadataLength
           \/ length \in {FileHeaderSize, FileEOFSize, SHASize}
    PROVE  allocated' \in Nat /\ AllocationBounded'
    BY LimitsAssumption, SizesAssumption DEF Buffer, AllocationBounded, InRange

\* Sizes are natural numbers.
LEMMA SizesTyped ==
    ASSUME TypeOK
    PROVE  /\ size \in Nat /\ allocated \in Nat /\ IsFile(file)
           /\ FileHeaderSize \in Nat /\ FileEOFSize \in Nat /\ SHASize \in Nat
<1>1. size \in Nat /\ allocated \in Nat /\ IsFile(file)
    BY DEF TypeOK
<1>2. QED
    BY <1>1, SizesAssumption

\* The lengths a header declares add up to a natural number.
LEMMA BaseTyped ==
    ASSUME TypeOK PROVE Base \in Nat /\ SHALength \in Nat /\ last.streamSize \in Nat
<1>1. entry.header \in HeaderType /\ last \in FooterType
    BY DEF TypeOK, EntryType
<1>2. entry.header.keyLength \in Nat /\ last.streamSize \in Nat
    BY <1>1 DEF HeaderType, FooterType
<1>3. QED
    BY <1>2, SizesAssumption DEF Base, BaseOffset, SHALength

-----------------------------------------------------------------------------
(* The invariant.                                                           *)

\* It holds before the first read.
LEMMA LayoutInit == Init => LayoutInv
<1> SUFFICES ASSUME Init PROVE LayoutInv
    OBVIOUS
<1> USE DEF Init
<1>1. Nothing \in Bytes
    BY DEF Nothing, Bytes
<1>2. NoEntry \in EntryType
    BY <1>1 DEF NoEntry, NoHeader, EntryType, HeaderType
<1>3. NoFooter \in FooterType
    BY <1>1 DEF NoFooter, Footer, FooterType
<1>4. NoStreams \in [{} -> StreamType] /\ DOMAIN NoStreams = {}
    BY DEF NoStreams
<1>5. TypeOK
    BY <1>2, <1>3, <1>4, LimitsAssumption, FilesAssumption DEF TypeOK, PCs, StreamSets
<1>6. StepsInOrder /\ StreamsTile
    BY <1>4 DEF StepsInOrder, StreamsTile
<1>7. AllocationBounded
    BY LimitsAssumption DEF AllocationBounded
<1>8. QED
    BY <1>5, <1>6, <1>7 DEF LayoutInv

\* A step that leaves the header, the last footer, the streams and the size
\* alone leaves the tiling alone.
LEMMA TilingKept ==
    ASSUME StreamsTile, UNCHANGED <<size, streams, last>>, entry'.header = entry.header
    PROVE  StreamsTile'
    BY DEF StreamsTile, Base, BaseOffset, SHALength

\* As long as there are no streams there is nothing to tile.
LEMMA NothingToTile ==
    ASSUME DOMAIN streams' = {} PROVE StreamsTile'
    BY DEF StreamsTile

\* Opening the file.
LEMMA OpenKeeps == LayoutInv /\ Open => LayoutInv'
<1> SUFFICES ASSUME LayoutInv, Open PROVE LayoutInv'
    OBVIOUS
<1>1. file.size \in Nat
    BY FilesAssumption DEF LayoutInv, TypeOK, IsFile
<1>2. TypeOK'
    BY <1>1 DEF LayoutInv, TypeOK, Open, Continue, PCs
<1>3. StepsInOrder'
    BY DEF LayoutInv, StepsInOrder, Open, Continue
<1>4. StreamsTile'
    BY NothingToTile DEF LayoutInv, StepsInOrder, Open
<1>5. AllocationBounded'
    BY DEF LayoutInv, AllocationBounded, Open
<1>6. QED
    BY <1>2, <1>3, <1>4, <1>5 DEF LayoutInv

\* Reading the header: its key length is below the limit when the key is next.
LEMMA ReadHeaderKeeps == LayoutInv /\ ReadHeader => LayoutInv'
<1> SUFFICES ASSUME LayoutInv, ReadHeader PROVE LayoutInv'
    OBVIOUS
<1>1. /\ TypeOK /\ StepsInOrder /\ AllocationBounded /\ pc = "header" /\ DOMAIN streams = {}
      /\ UNCHANGED <<file, suffix, size, streams, last, changes>>
    BY DEF LayoutInv, StepsInOrder, ReadHeader
<1>2. file.header \in HeaderType
    BY <1>1, FilesAssumption DEF TypeOK, IsFile
<1>3. entry' \in EntryType
    BY <1>1, <1>2 DEF TypeOK, ReadHeader, EntryType
<1>4. HeaderVerdict(file.header) \in {"ok", "truncated", "corrupt", "not simple cache", "unsupported"}
    BY DEF HeaderVerdict
<1>5. /\ pc' = "key" \/ pc' = "done"
      /\ pc' = "key" => UNCHANGED outcome
      /\ pc' = "done" => outcome' \in {"truncated", "corrupt", "not simple cache", "unsupported"}
    BY <1>4 DEF ReadHeader, Continue, Return
<1>6. pc' = "key" => entry'.header.keyLength <= MaxKeyLength
    <2> SUFFICES ASSUME pc' = "key" PROVE entry'.header.keyLength <= MaxKeyLength
        OBVIOUS
    <2>1. entry' = [entry EXCEPT !.header = file.header] /\ HeaderVerdict(file.header) = "ok"
        BY DEF ReadHeader, Continue, Return
    <2>2. ~(file.header.keyLength > MaxKeyLength)
        BY <2>1 DEF HeaderVerdict
    <2>3. entry'.header = file.header
        BY <1>1, <2>1 DEF TypeOK, EntryType
    <2>4. QED
        BY <1>2, <2>2, <2>3, LimitsAssumption DEF HeaderType
<1>7. allocated' \in Nat /\ AllocationBounded'
    <2>1. Buffer(0, FileHeaderSize, size)
        BY DEF ReadHeader
    <2>2. size \in Int /\ FileHeaderSize \in Nat /\ 0 \in Int /\ allocated \in Nat
        BY <1>1, SizesTyped
    <2>3. QED
        BY <1>1, <2>1, <2>2, BufferTyped
<1>8. TypeOK'
    BY <1>1, <1>3, <1>5, <1>7 DEF TypeOK, PCs
<1>9. StepsInOrder'
    BY <1>1, <1>5, <1>6 DEF StepsInOrder
<1>10. StreamsTile'
    BY <1>1, NothingToTile
<1>11. QED
    BY <1>7, <1>8, <1>9, <1>10 DEF LayoutInv

\* Reading the key.
LEMMA ReadKeyKeeps == LayoutInv /\ ReadKey => LayoutInv'
<1> SUFFICES ASSUME LayoutInv, ReadKey PROVE LayoutInv'
    OBVIOUS
<1>1. /\ TypeOK /\ StepsInOrder /\ AllocationBounded /\ pc = "key" /\ DOMAIN streams = {}
      /\ entry.header.keyLength <= MaxKeyLength
      /\ UNCHANGED <<file, suffix, size, streams, last, changes>>
    BY DEF LayoutInv, StepsInOrder, ReadKey
<1>2. entry.header.keyLength \in Nat
    BY <1>1 DEF TypeOK, EntryType, HeaderType
<1>3. BytesAt(file, FileHeaderSize, entry.header.keyLength) \in Bytes
    BY <1>1, <1>2, SizesTyped, BytesTyped
<1>4. ASSUME NEW key \in Bytes PROVE WithKey(key) \in EntryType
    <2>1. [entry EXCEPT !.key = key, !.keyVerified = key = entry.header.keyHash] \in EntryType
        BY <1>1 DEF TypeOK, EntryType
    <2>2. (IF key = entry.header.keyHash THEN {} ELSE {<<"key hash", 0>>}) \in SUBSET Warnings
        <3>1. {<<"key hash", 0>>} \in SUBSET Warnings
            BY OneWarning DEF WarningKinds
        <3>2. QED
            BY <3>1
    <2>3. QED
        BY <2>1, <2>2, WarnTyped DEF WithKey
<1>5. entry' \in EntryType
    BY <1>1, <1>3, <1>4 DEF TypeOK, ReadKey
<1>6. \/ pc' = "last" /\ UNCHANGED outcome
      \/ pc' = "done" /\ outcome' = "truncated"
    BY DEF ReadKey, Continue, Return
<1>7. allocated' \in Nat /\ AllocationBounded'
    BY <1>1, <1>2, SizesTyped, BufferTyped DEF ReadKey
<1>8. TypeOK'
    BY <1>1, <1>5, <1>6, <1>7 DEF TypeOK, PCs
<1>9. StepsInOrder'
    BY <1>1, <1>6 DEF StepsInOrder
<1>10. StreamsTile'
    BY <1>1, NothingToTile
<1>11. QED
    BY <1>7, <1>8, <1>9, <1>10 DEF LayoutInv

\* Reading the last footer: the name chooses the next step.
LEMMA ReadLastEOFKeeps == LayoutInv /\ ReadLastEOF => LayoutInv'
<1> SUFFICES ASSUME LayoutInv, ReadLastEOF PROVE LayoutInv'
    OBVIOUS
<1>1. /\ TypeOK /\ StepsInOrder /\ AllocationBounded /\ pc = "last" /\ DOMAIN streams = {}
      /\ UNCHANGED <<file, suffix, size, entry, streams, changes>>
    BY DEF LayoutInv, StepsInOrder, ReadLastEOF
<1>2. last' \in FooterType
    BY <1>1, FilesAssumption DEF TypeOK, ReadLastEOF, IsFile, IsEOF
<1>3. \/ pc' = FirstLayout /\ UNCHANGED outcome
      \/ pc' = "done" /\ outcome' \in {"truncated", "corrupt"}
    BY DEF ReadLastEOF, Continue, Return
<1>4. allocated' \in Nat /\ AllocationBounded'
    <2>1. Buffer(size - FileEOFSize, FileEOFSize, size)
        BY DEF ReadLastEOF
    <2>2. size \in Int /\ FileEOFSize \in Nat /\ size - FileEOFSize \in Int /\ allocated \in Nat
        BY <1>1, SizesTyped
    <2>3. QED
        BY <1>1, <2>1, <2>2, BufferTyped
<1>5. TypeOK'
    BY <1>1, <1>2, <1>3, <1>4 DEF TypeOK, PCs, FirstLayout
<1>6. StepsInOrder'
    BY <1>1, <1>3 DEF StepsInOrder, FirstLayout
<1>7. StreamsTile'
    BY <1>1, NothingToTile
<1>8. QED
    BY <1>4, <1>5, <1>6, <1>7 DEF LayoutInv

\* Taking streams 0 and 1: the pieces between the key and the end add up.
LEMMA ReadCombinedKeeps == LayoutInv /\ ReadCombined => LayoutInv'
<1> SUFFICES ASSUME LayoutInv, ReadCombined PROVE LayoutInv'
    OBVIOUS
<1>1. /\ TypeOK /\ StepsInOrder /\ AllocationBounded /\ pc = "combined" /\ DOMAIN streams = {}
      /\ suffix # "_1" /\ UNCHANGED <<file, suffix, size, last, changes>>
    BY DEF LayoutInv, StepsInOrder, ReadCombined
<1>2. /\ size \in Nat /\ FileEOFSize \in Nat \ {0} /\ Base \in Nat /\ SHALength \in Nat
      /\ last.streamSize \in Nat /\ last \in FooterType /\ entry \in EntryType
    BY <1>1, SizesTyped, BaseTyped, SizesAssumption DEF TypeOK
<1>3. allocated' \in Nat /\ AllocationBounded'
    <2>1. CASE CombinedFits
        <3>1. Buffer(Stream1EOF, FileEOFSize, size)
            BY <2>1 DEF ReadCombined
        <3>2. Stream1EOF \in Int
            BY <1>2 DEF Stream1EOF, Stream1Length, FixedLength
        <3>3. QED
            BY <1>1, <1>2, <3>1, <3>2, SizesTyped, BufferTyped
    <2>2. CASE ~CombinedFits
        BY <1>1, <2>2, SizesTyped DEF ReadCombined, AllocationBounded
    <2>3. QED
        BY <2>1, <2>2
<1>4. CASE /\ CombinedHolds
           /\ streams' = CombinedStreams(file.footers[Stream1EOF])
           /\ entry' = Warn(entry, UnknownFlags(last, 0)
                                       \cup UnknownFlags(file.footers[Stream1EOF], 1))
           /\ Continue("crc 0")
    <2> DEFINE inner == file.footers[Stream1EOF]
    <2>1. inner \in FooterType
        BY <1>1, <1>4, SizesTyped DEF CombinedHolds, IsEOF, IsFile
    <2>2. FixedLength <= size - Base
        BY <1>4 DEF CombinedHolds, CombinedFits
    <2>3. Stream1Length \in Nat /\ Stream1EOF \in Nat /\ FixedLength \in Nat
        BY <1>2, <2>2 DEF FixedLength, Stream1Length, Stream1EOF
    <2>4. size - FileEOFSize \in Nat /\ Stream1EOF + FileEOFSize \in Nat
        BY <1>2, <2>2, <2>3 DEF FixedLength, Stream1Length, Stream1EOF
    <2>5. /\ Stream(Stream1EOF + FileEOFSize, last.streamSize, size - FileEOFSize, last) \in StreamType
          /\ Stream(Base, Stream1Length, Stream1EOF, inner) \in StreamType
        BY <1>2, <2>1, <2>3, <2>4, StreamTyped
    <2>6. streams' \in [{0, 1} -> StreamType] /\ DOMAIN streams' = {0, 1}
        BY <1>4, <2>5 DEF CombinedStreams
    <2>7. UnknownFlags(last, 0) \cup UnknownFlags(inner, 1) \in SUBSET Warnings
        BY FlagsWarning
    <2>8. entry' \in EntryType /\ entry'.header = entry.header
        BY <1>2, <1>4, <2>7, WarnTyped
    <2>9. TypeOK'
        BY <1>1, <1>3, <1>4, <2>6, <2>8 DEF TypeOK, Continue, PCs, StreamSets
    <2>10. StepsInOrder'
        <3>1. pc' = "crc 0" /\ outcome' = outcome /\ outcome = "none" /\ suffix' # "_1"
            BY <1>1, <1>4 DEF StepsInOrder, Continue
        <3>2. {0, 1} # {2} /\ {0, 1} # {}
            OBVIOUS
        <3>3. QED
            BY <2>6, <3>1, <3>2 DEF StepsInOrder
    <2>11. /\ streams'[1].offset = Base /\ streams'[1].length = Stream1Length
           /\ streams'[1].eof = Stream1EOF
           /\ streams'[0].offset = Stream1EOF + FileEOFSize
           /\ streams'[0].length = last.streamSize /\ streams'[0].eof = size - FileEOFSize
        <3> HIDE DEF inner
        <3>1. streams' = CombinedStreams(inner)
            BY <1>4 DEF inner
        <3>2. streams'[0] = Stream(Stream1EOF + FileEOFSize, last.streamSize,
                                   size - FileEOFSize, last)
            BY <3>1 DEF CombinedStreams
        <3>3. streams'[1] = Stream(Base, Stream1Length, Stream1EOF, inner)
            BY <3>1 DEF CombinedStreams
        <3>4. QED
            BY <3>2, <3>3 DEF Stream
    <2>12. Base' = Base /\ SHALength' = SHALength /\ size' = size
        BY <1>1, <2>8 DEF Base, BaseOffset, SHALength
    <2>13. /\ Stream1EOF = Base + Stream1Length
           /\ size - FileEOFSize = Stream1EOF + FileEOFSize + last.streamSize + SHALength
           /\ size - FileEOFSize + FileEOFSize = size
        BY <1>2, <2>3 DEF Stream1EOF, Stream1Length, FixedLength
    <2>14. StreamsTile'
        BY <1>2, <2>3, <2>6, <2>11, <2>12, <2>13 DEF StreamsTile
    <2>15. QED
        BY <1>3, <2>9, <2>10, <2>14 DEF LayoutInv
<1>5. CASE /\ ~CombinedHolds
           /\ IF MayFallBack THEN Continue("stream2") ELSE Return("corrupt")
           /\ UNCHANGED <<entry, streams>>
    <2>1. \/ pc' = "stream2" /\ suffix = "other" /\ UNCHANGED outcome
          \/ pc' = "done" /\ outcome' = "corrupt"
        BY <1>5 DEF MayFallBack, Continue, Return
    <2>2. TypeOK'
        BY <1>1, <1>3, <1>5, <2>1 DEF TypeOK, PCs
    <2>3. StepsInOrder'
        BY <1>1, <1>5, <2>1 DEF StepsInOrder
    <2>4. StreamsTile'
        BY <1>1, <1>5, NothingToTile
    <2>5. QED
        BY <1>3, <2>2, <2>3, <2>4 DEF LayoutInv
<1>6. QED
    BY <1>4, <1>5 DEF ReadCombined

\* Taking stream 2: it is what lies between the key and the last footer.
LEMMA TakeStream2Keeps == LayoutInv /\ TakeStream2 => LayoutInv'
<1> SUFFICES ASSUME LayoutInv, TakeStream2 PROVE LayoutInv'
    OBVIOUS
<1>1. /\ TypeOK /\ StepsInOrder /\ AllocationBounded /\ pc = "stream2" /\ DOMAIN streams = {}
      /\ suffix # "_0" /\ UNCHANGED <<file, suffix, size, last, allocated, changes>>
    BY DEF LayoutInv, StepsInOrder, TakeStream2
<1>2. /\ size \in Nat /\ FileEOFSize \in Nat \ {0} /\ Base \in Nat
      /\ last \in FooterType /\ entry \in EntryType
    BY <1>1, SizesTyped, BaseTyped, SizesAssumption DEF TypeOK
<1>3. AllocationBounded'
    BY <1>1 DEF AllocationBounded
<1>4. CASE /\ Stream2Holds
           /\ streams' = [i \in {2} |-> Stream(Base, Stream2Length, size - FileEOFSize, last)]
           /\ entry' = Warn(entry, UnknownFlags(last, 2))
           /\ Continue("crc 2")
    <2>1. Stream2Length \in Nat /\ size - FileEOFSize = Base + Stream2Length
        <3>1. Stream2Length >= 0
            BY <1>4 DEF Stream2Holds
        <3>2. QED
            BY <1>2, <3>1 DEF Stream2Length
    <2>2. Stream(Base, Stream2Length, size - FileEOFSize, last) \in StreamType
        BY <1>2, <2>1, StreamTyped
    <2>3. streams' \in [{2} -> StreamType] /\ DOMAIN streams' = {2}
        BY <1>4, <2>2
    <2>4. entry' \in EntryType /\ entry'.header = entry.header
        BY <1>2, <1>4, FlagsWarning, WarnTyped
    <2>5. TypeOK'
        BY <1>1, <1>4, <2>3, <2>4 DEF TypeOK, Continue, PCs, StreamSets
    <2>6. StepsInOrder'
        <3>1. pc' = "crc 2" /\ outcome' = outcome /\ outcome = "none" /\ suffix' # "_0"
            BY <1>1, <1>4 DEF StepsInOrder, Continue
        <3>2. {0, 1} # {2} /\ {2} # {}
            OBVIOUS
        <3>3. QED
            BY <2>3, <3>1, <3>2 DEF StepsInOrder
    <2>7. /\ streams'[2].offset = Base /\ streams'[2].length = Stream2Length
          /\ streams'[2].eof = size - FileEOFSize
        BY <1>4 DEF Stream
    <2>8. Base' = Base /\ size' = size
        BY <1>1, <2>4 DEF Base, BaseOffset
    <2>9. StreamsTile'
        BY <1>2, <2>1, <2>3, <2>7, <2>8 DEF StreamsTile
    <2>10. QED
        BY <1>3, <2>5, <2>6, <2>9 DEF LayoutInv
<1>5. CASE ~Stream2Holds /\ Return("corrupt") /\ UNCHANGED <<entry, streams>>
    <2>1. TypeOK'
        BY <1>1, <1>5 DEF TypeOK, PCs, Return
    <2>2. StepsInOrder'
        BY <1>1, <1>5 DEF StepsInOrder, Return
    <2>3. StreamsTile'
        BY <1>1, <1>5, NothingToTile
    <2>4. QED
        BY <1>3, <2>1, <2>2, <2>3 DEF LayoutInv
<1>6. QED
    BY <1>4, <1>5 DEF TakeStream2

\* Validating a stream changes neither which streams there are nor where they
\* are, only whether one is verified.
LEMMA ValidateKeeps ==
    ASSUME TypeOK, NEW i \in DOMAIN streams, Validate(i)
    PROVE  /\ entry' \in EntryType /\ entry'.header = entry.header
           /\ DOMAIN streams' = DOMAIN streams
           /\ \E S \in StreamSets : streams' \in [S -> StreamType]
           /\ \A j \in DOMAIN streams : /\ streams'[j].offset = streams[j].offset
                                        /\ streams'[j].length = streams[j].length
                                        /\ streams'[j].eof = streams[j].eof
<1>1. PICK S \in StreamSets : streams \in [S -> StreamType]
    BY DEF TypeOK
<1>2. entry \in EntryType /\ i \in S /\ i \in {0, 1, 2}
    BY <1>1 DEF TypeOK, StreamSets
<1>3. CASE UNCHANGED <<entry, streams>>
    BY <1>1, <1>2, <1>3
<1>4. CASE MarkVerified(i)
    <2>1. streams' = [streams EXCEPT ![i].verified = TRUE] /\ entry' = entry
        BY <1>4 DEF MarkVerified
    <2>2. streams[i] \in StreamType
        BY <1>1, <1>2
    <2>3. /\ [streams[i] EXCEPT !.verified = TRUE] \in StreamType
          /\ [streams[i] EXCEPT !.verified = TRUE].offset = streams[i].offset
          /\ [streams[i] EXCEPT !.verified = TRUE].length = streams[i].length
          /\ [streams[i] EXCEPT !.verified = TRUE].eof = streams[i].eof
        BY <2>2 DEF StreamType
    <2>4. streams' \in [S -> StreamType] /\ DOMAIN streams' = S /\ DOMAIN streams = S
        BY <1>1, <2>1, <2>3
    <2>5. \A j \in S : streams'[j] = IF j = i THEN [streams[i] EXCEPT !.verified = TRUE]
                                     ELSE streams[j]
        BY <1>1, <2>1
    <2>6. QED
        BY <1>1, <1>2, <2>1, <2>3, <2>4, <2>5
<1>5. ASSUME NEW why \in WarningKinds, NotVerified(i, why)
      PROVE  UNCHANGED streams /\ entry' \in EntryType /\ entry'.header = entry.header
    BY <1>2, <1>5, OneWarning, WarnTyped DEF NotVerified
<1>6. \/ UNCHANGED <<entry, streams>> \/ MarkVerified(i)
      \/ \E why \in WarningKinds : NotVerified(i, why)
    BY DEF Validate, WarningKinds
<1>7. QED
    BY <1>1, <1>3, <1>4, <1>5, <1>6

\* What a validating step keeps of the invariant, its next step aside.
LEMMA ValidatedTiles ==
    ASSUME LayoutInv, NEW i \in DOMAIN streams, Validate(i),
           UNCHANGED <<file, suffix, size, last, allocated, changes>>
    PROVE  StreamsTile' /\ AllocationBounded'
<1>1. /\ StreamsTile /\ TypeOK /\ AllocationBounded
      /\ entry'.header = entry.header /\ DOMAIN streams' = DOMAIN streams
    BY ValidateKeeps DEF LayoutInv
<1>2. \A j \in DOMAIN streams : /\ streams'[j].offset = streams[j].offset
                                /\ streams'[j].length = streams[j].length
                                /\ streams'[j].eof = streams[j].eof
    BY <1>1, ValidateKeeps
<1>3. Base' = Base /\ SHALength' = SHALength /\ size' = size
    BY <1>1 DEF Base, BaseOffset, SHALength
<1>4. StreamsTile'
    <2>1. DOMAIN streams = {0, 1} =>
              /\ streams'[0].offset = streams[0].offset /\ streams'[0].length = streams[0].length
              /\ streams'[0].eof = streams[0].eof
              /\ streams'[1].offset = streams[1].offset /\ streams'[1].length = streams[1].length
              /\ streams'[1].eof = streams[1].eof
        BY <1>2
    <2>2. DOMAIN streams = {2} =>
              /\ streams'[2].offset = streams[2].offset /\ streams'[2].length = streams[2].length
              /\ streams'[2].eof = streams[2].eof
        BY <1>2
    <2>3. QED
        BY <1>1, <1>3, <2>1, <2>2 DEF StreamsTile
<1>5. AllocationBounded'
    BY <1>1 DEF AllocationBounded
<1>6. QED
    BY <1>4, <1>5

\* Validating stream 0.
LEMMA Validate0Keeps == LayoutInv /\ Validate0 => LayoutInv'
<1> SUFFICES ASSUME LayoutInv, Validate0 PROVE LayoutInv'
    OBVIOUS
<1>1. /\ TypeOK /\ StepsInOrder /\ pc = "crc 0" /\ DOMAIN streams = {0, 1} /\ Validate(0)
      /\ UNCHANGED <<file, suffix, size, last, allocated, changes>>
      /\ pc' = "crc 1" /\ outcome' = outcome
    BY DEF LayoutInv, StepsInOrder, Validate0, Continue
<1>2. 0 \in DOMAIN streams
    BY <1>1
<1>3. /\ entry' \in EntryType /\ DOMAIN streams' = {0, 1}
      /\ \E S \in StreamSets : streams' \in [S -> StreamType]
    BY <1>1, <1>2, ValidateKeeps
<1>4. TypeOK'
    BY <1>1, <1>3 DEF TypeOK, PCs
<1>5. StepsInOrder'
    BY <1>1, <1>3 DEF StepsInOrder
<1>6. QED
    BY <1>1, <1>2, <1>4, <1>5, ValidatedTiles DEF LayoutInv

\* Validating stream 1.
LEMMA Validate1Keeps == LayoutInv /\ Validate1 => LayoutInv'
<1> SUFFICES ASSUME LayoutInv, Validate1 PROVE LayoutInv'
    OBVIOUS
<1>1. /\ TypeOK /\ StepsInOrder /\ pc = "crc 1" /\ DOMAIN streams = {0, 1} /\ Validate(1)
      /\ UNCHANGED <<file, suffix, size, last, allocated, changes>>
      /\ pc' = "digest" /\ outcome' = outcome
    BY DEF LayoutInv, StepsInOrder, Validate1, Continue
<1>2. 1 \in DOMAIN streams
    BY <1>1
<1>3. /\ entry' \in EntryType /\ DOMAIN streams' = {0, 1}
      /\ \E S \in StreamSets : streams' \in [S -> StreamType]
    BY <1>1, <1>2, ValidateKeeps
<1>4. TypeOK'
    BY <1>1, <1>3 DEF TypeOK, PCs
<1>5. StepsInOrder'
    BY <1>1, <1>3 DEF StepsInOrder
<1>6. QED
    BY <1>1, <1>2, <1>4, <1>5, ValidatedTiles DEF LayoutInv

\* Validating stream 2, which ends the parse if the name asked for it.
LEMMA Validate2Keeps == LayoutInv /\ Validate2 => LayoutInv'
<1> SUFFICES ASSUME LayoutInv, Validate2 PROVE LayoutInv'
    OBVIOUS
<1>1. /\ TypeOK /\ StepsInOrder /\ pc = "crc 2" /\ DOMAIN streams = {2} /\ Validate(2)
      /\ UNCHANGED <<file, suffix, size, last, allocated, changes>>
    BY DEF LayoutInv, StepsInOrder, Validate2
<1>2. \/ pc' = "done" /\ outcome' = "ok"
      \/ pc' = "fallen back" /\ outcome' = outcome
    BY DEF Validate2, Continue, Return
<1>3. 2 \in DOMAIN streams
    BY <1>1
<1>4. /\ entry' \in EntryType /\ DOMAIN streams' = {2}
      /\ \E S \in StreamSets : streams' \in [S -> StreamType]
    BY <1>1, <1>3, ValidateKeeps
<1>5. TypeOK'
    BY <1>1, <1>2, <1>4 DEF TypeOK, PCs
<1>6. StepsInOrder'
    BY <1>1, <1>2, <1>4 DEF StepsInOrder
<1>7. QED
    BY <1>1, <1>3, <1>5, <1>6, ValidatedTiles DEF LayoutInv

\* A step that changes only the entry, not its header, and goes on to a step
\* that wants the same streams.
LEMMA EntryStepKeeps ==
    ASSUME LayoutInv, entry' \in EntryType, entry'.header = entry.header,
           UNCHANGED <<file, suffix, size, streams, last, changes>>,
           allocated' \in Nat, AllocationBounded', DOMAIN streams # {},
           \/ /\ DOMAIN streams = {0, 1}
              /\ pc' \in {"crc 1", "digest", "key sha", "http"} /\ outcome' = outcome
              /\ pc # "done"
           \/ pc' = "done" /\ outcome' = "ok"
    PROVE  LayoutInv'
<1>1. TypeOK /\ StepsInOrder /\ StreamsTile
    BY DEF LayoutInv
<1>2. TypeOK'
    BY <1>1 DEF TypeOK, PCs
<1>3. StepsInOrder'
    BY <1>1 DEF StepsInOrder
<1>4. StreamsTile'
    BY <1>1, TilingKept
<1>5. QED
    BY <1>2, <1>3, <1>4 DEF LayoutInv

\* Warning that a file was read as stream 2.
LEMMA SayFallenBackKeeps == LayoutInv /\ SayFallenBack => LayoutInv'
<1> SUFFICES ASSUME LayoutInv, SayFallenBack PROVE LayoutInv'
    OBVIOUS
<1>1. /\ entry \in EntryType /\ DOMAIN streams = {2} /\ allocated \in Nat /\ AllocationBounded
      /\ UNCHANGED <<file, suffix, size, streams, last, allocated, changes>>
      /\ entry' = Warn(entry, {<<"read as stream 2", 2>>})
      /\ pc' = "done" /\ outcome' = "ok"
    BY DEF LayoutInv, TypeOK, StepsInOrder, SayFallenBack, Return
<1>2. {<<"read as stream 2", 2>>} \in SUBSET Warnings
    BY OneWarning DEF WarningKinds
<1>3. entry' \in EntryType /\ entry'.header = entry.header
    BY <1>1, <1>2, WarnTyped
<1>4. AllocationBounded' /\ DOMAIN streams # {}
    BY <1>1 DEF AllocationBounded
<1>5. QED
    BY <1>1, <1>3, <1>4, EntryStepKeeps

\* Streams 0 and 1, when there are some, are streams.
LEMMA CombinedTyped ==
    ASSUME TypeOK, DOMAIN streams = {0, 1}
    PROVE  streams[0] \in StreamType /\ streams[1] \in StreamType
<1>1. PICK S \in StreamSets : streams \in [S -> StreamType]
    BY DEF TypeOK
<1>2. 0 \in S /\ 1 \in S
    BY <1>1
<1>3. QED
    BY <1>1, <1>2

\* Digesting stream 1.
LEMMA DigestKeeps == LayoutInv /\ Digest => LayoutInv'
<1> SUFFICES ASSUME LayoutInv, Digest PROVE LayoutInv'
    OBVIOUS
<1>1. /\ TypeOK /\ entry \in EntryType /\ allocated \in Nat /\ AllocationBounded
      /\ DOMAIN streams = {0, 1} /\ pc = "digest"
      /\ UNCHANGED <<file, suffix, size, streams, last, allocated, changes>>
      /\ pc' \in {"key sha", "http"} /\ outcome' = outcome
    BY DEF LayoutInv, TypeOK, StepsInOrder, Digest, Continue
<1>2. streams[1].offset \in Nat /\ streams[1].length \in Nat
    BY <1>1, CombinedTyped DEF StreamType
<1>3. BytesAt(file, streams[1].offset, streams[1].length) \in Bytes
    <2>1. streams[1].offset \in Int /\ streams[1].length \in Int
        BY <1>2
    <2>2. QED
        BY <1>1, <2>1, SizesTyped, BytesTyped
<1>4. \/ entry' = [entry EXCEPT !.body = BytesAt(file, streams[1].offset, streams[1].length)]
      \/ \E why \in WarningKinds : entry' = Warn(entry, {<<why, 1>>})
    BY DEF Digest, ReadFails, WarningKinds
<1>5. entry' \in EntryType /\ entry'.header = entry.header
    <2>1. CASE entry' = [entry EXCEPT !.body = BytesAt(file, streams[1].offset, streams[1].length)]
        BY <1>1, <1>3, <2>1 DEF EntryType
    <2>2. CASE \E why \in WarningKinds : entry' = Warn(entry, {<<why, 1>>})
        BY <1>1, <2>2, OneWarning, WarnTyped
    <2>3. QED
        BY <1>4, <2>1, <2>2
<1>6. AllocationBounded' /\ DOMAIN streams # {}
    BY <1>1 DEF AllocationBounded
<1>7. QED
    BY <1>1, <1>5, <1>6, EntryStepKeeps

\* Comparing the key with its digest.
LEMMA VerifyKeySHAKeeps == LayoutInv /\ VerifyKeySHA => LayoutInv'
<1> SUFFICES ASSUME LayoutInv, VerifyKeySHA PROVE LayoutInv'
    OBVIOUS
<1> DEFINE offset == streams[0].offset + streams[0].length
<1>1. /\ TypeOK /\ entry \in EntryType /\ allocated \in Nat /\ AllocationBounded
      /\ DOMAIN streams = {0, 1} /\ pc = "key sha"
      /\ UNCHANGED <<file, suffix, size, streams, last, changes>>
      /\ pc' = "http" /\ outcome' = outcome
    BY DEF LayoutInv, TypeOK, StepsInOrder, VerifyKeySHA, Continue
<1>2. offset \in Int
    <2>1. streams[0].offset \in Nat /\ streams[0].length \in Nat
        BY <1>1, CombinedTyped DEF StreamType
    <2>2. QED
        BY <2>1
<1>3. allocated' \in Nat /\ AllocationBounded'
    <2>1. Buffer(offset, SHASize, size)
        BY DEF VerifyKeySHA
    <2> HIDE DEF offset
    <2>2. size \in Nat /\ SHASize \in Nat
        BY <1>1, SizesTyped
    <2>3. size \in Int
        BY <2>2
    <2>4. QED
        BY <1>1, <1>2, <2>1, <2>2, <2>3, BufferTyped
<1>4. \/ entry' = [entry EXCEPT !.keySHA = "verified"]
      \/ entry' = Warn([entry EXCEPT !.keySHA = "mismatch"], {<<"key sha mismatch", 0>>})
      \/ entry' = Warn(entry, {<<"key sha unread", 0>>})
    BY DEF VerifyKeySHA, ReadFails
<1>5. entry' \in EntryType /\ entry'.header = entry.header
    <2>1. /\ [entry EXCEPT !.keySHA = "verified"] \in EntryType
          /\ [entry EXCEPT !.keySHA = "mismatch"] \in EntryType
          /\ [entry EXCEPT !.keySHA = "verified"].header = entry.header
          /\ [entry EXCEPT !.keySHA = "mismatch"].header = entry.header
        BY <1>1 DEF EntryType
    <2>2. /\ {<<"key sha mismatch", 0>>} \in SUBSET Warnings
          /\ {<<"key sha unread", 0>>} \in SUBSET Warnings
        BY OneWarning DEF WarningKinds
    <2>3. /\ Warn([entry EXCEPT !.keySHA = "mismatch"], {<<"key sha mismatch", 0>>}) \in EntryType
          /\ Warn([entry EXCEPT !.keySHA = "mismatch"], {<<"key sha mismatch", 0>>}).header
                 = entry.header
        BY <2>1, <2>2, WarnTyped
    <2>4. /\ Warn(entry, {<<"key sha unread", 0>>}) \in EntryType
          /\ Warn(entry, {<<"key sha unread", 0>>}).header = entry.header
        BY <1>1, <2>2, WarnTyped
    <2>5. QED
        BY <1>4, <2>1, <2>3, <2>4
<1>6. DOMAIN streams # {}
    BY <1>1
<1>7. QED
    BY <1>1, <1>3, <1>5, <1>6, EntryStepKeeps

\* Reading the metadata, whose length has been compared with the limit.
LEMMA ParseHTTPKeeps == LayoutInv /\ ParseHTTP => LayoutInv'
<1> SUFFICES ASSUME LayoutInv, ParseHTTP PROVE LayoutInv'
    OBVIOUS
<1> DEFINE s == streams[0]
<1>1. /\ TypeOK /\ entry \in EntryType /\ allocated \in Nat /\ AllocationBounded
      /\ DOMAIN streams = {0, 1} /\ pc = "http"
      /\ UNCHANGED <<file, suffix, size, streams, last, changes>>
      /\ pc' = "done" /\ outcome' = "ok"
    BY DEF LayoutInv, TypeOK, StepsInOrder, ParseHTTP, Return
<1>2. s.offset \in Nat /\ s.length \in Nat
    BY <1>1, CombinedTyped DEF StreamType
<1>3. allocated' \in Nat /\ AllocationBounded'
    <2>1. CASE MetadataAllowed(s.length)
        <3>1. Buffer(s.offset, s.length, s.offset + s.length) /\ s.length <= MaxMetadataLength
            BY <2>1 DEF ParseHTTP, MetadataAllowed
        <3> HIDE DEF s
        <3>2. s.offset \in Int /\ s.offset + s.length \in Int
            BY <1>2
        <3>3. QED
            BY <1>1, <1>2, <3>1, <3>2, BufferTyped
    <2>2. CASE ~MetadataAllowed(s.length)
        <3>1. allocated' = allocated
            BY <2>2 DEF ParseHTTP
        <3>2. QED
            BY <1>1, <3>1 DEF AllocationBounded
    <2>3. QED
        BY <2>1, <2>2
<1>4. \/ entry' = [entry EXCEPT !.http = TRUE]
      \/ \E why \in WarningKinds : entry' = Warn(entry, {<<why, 0>>})
    BY DEF ParseHTTP, WarningKinds
<1>5. entry' \in EntryType /\ entry'.header = entry.header
    <2>1. CASE entry' = [entry EXCEPT !.http = TRUE]
        BY <1>1, <2>1 DEF EntryType
    <2>2. CASE \E why \in WarningKinds : entry' = Warn(entry, {<<why, 0>>})
        BY <1>1, <2>2, OneWarning, WarnTyped
    <2>3. QED
        BY <1>4, <2>1, <2>2
<1>6. DOMAIN streams # {}
    BY <1>1
<1>7. QED
    BY <1>1, <1>3, <1>5, <1>6, EntryStepKeeps

\* A change of the file, and a step that changes nothing.
LEMMA OthersKeep == LayoutInv /\ (Change \/ UNCHANGED vars) => LayoutInv'
<1> SUFFICES ASSUME LayoutInv, Change \/ UNCHANGED vars PROVE LayoutInv'
    OBVIOUS
<1>1. /\ UNCHANGED <<suffix, pc, size, entry, streams, last, outcome, allocated>>
      /\ IsFile(file') /\ changes' \in 0 .. MaxChanges
    <2>1. IsFile(file) /\ changes \in 0 .. MaxChanges
        BY DEF LayoutInv, TypeOK
    <2>2. CASE Change
        BY <2>1, <2>2, LimitsAssumption, FilesAssumption DEF Change
    <2>3. CASE UNCHANGED vars
        BY <2>1, <2>3 DEF vars
    <2>4. QED
        BY <2>2, <2>3
<1>2. TypeOK' /\ StepsInOrder'
    BY <1>1 DEF LayoutInv, TypeOK, StepsInOrder
<1>3. StreamsTile'
    BY <1>1, TilingKept DEF LayoutInv
<1>4. AllocationBounded'
    BY <1>1 DEF LayoutInv, AllocationBounded
<1>5. QED
    BY <1>2, <1>3, <1>4 DEF LayoutInv

-----------------------------------------------------------------------------
(* Theorems.                                                                *)

\* The invariant of the parser holds whatever the file contains, and however it
\* changes while it is read.
THEOREM LayoutInvariant == Spec => []LayoutInv
<1>1. LayoutInv /\ [Next]_vars => LayoutInv'
    BY OpenKeeps, ReadHeaderKeeps, ReadKeyKeeps, ReadLastEOFKeeps, ReadCombinedKeeps,
       TakeStream2Keeps, Validate0Keeps, Validate1Keeps, Validate2Keeps, SayFallenBackKeeps,
       DigestKeeps, VerifyKeySHAKeeps, ParseHTTPKeeps, OthersKeep
       DEF Next, Parse, Terminated
<1>2. QED
    BY <1>1, LayoutInit, PTL DEF Spec

\* The parser's state keeps its type: no offset and no length is negative.
THEOREM ParserTyped == Spec => []TypeOK
<1>1. LayoutInv => TypeOK
    BY DEF LayoutInv
<1>2. QED
    BY <1>1, LayoutInvariant, PTL

\* Streams, footers and key digest tile the file behind the key.
THEOREM Tiling == Spec => []StreamsTile
<1>1. LayoutInv => StreamsTile
    BY DEF LayoutInv
<1>2. QED
    BY <1>1, LayoutInvariant, PTL

\* No length a file claims makes the parser allocate more than its limits.
THEOREM BoundedAllocation == Spec => []AllocationBounded
<1>1. LayoutInv => AllocationBounded
    BY DEF LayoutInv
<1>2. QED
    BY <1>1, LayoutInvariant, PTL

\* A telling name is believed.
THEOREM NamesRespected == Spec => []SuffixRespected
<1>1. LayoutInv => SuffixRespected
    <2> SUFFICES ASSUME LayoutInv, outcome = "ok"
                 PROVE  /\ suffix = "_0" => DOMAIN streams = {0, 1}
                        /\ suffix = "_1" => DOMAIN streams = {2}
        BY DEF SuffixRespected
    <2>1. DOMAIN streams # {} /\ StepsInOrder
        BY DEF LayoutInv, StepsInOrder
    <2>2. DOMAIN streams \in {{}, {0, 1}, {2}}
        BY DEF LayoutInv, TypeOK, StreamSets
    <2>3. QED
        BY <2>1, <2>2 DEF StepsInOrder
<1>2. QED
    BY <1>1, LayoutInvariant, PTL
-----------------------------------------------------------------------------
(* What an undisturbed parse has found.                                     *)

\* The header, the key or the last footer has been read, and the parse goes on.
AfterHeader == pc \notin {"open", "header", "done"} \/ outcome = "ok"
AfterKey == pc \notin {"open", "header", "key", "done"} \/ outcome = "ok"
AfterLast == pc \notin {"open", "header", "key", "last", "done"} \/ outcome = "ok"

Warned == entry.warnings # {}

\* A stream is described by its footer, and flags nobody knows are warned of.
Describes(footer, i) == /\ streams[i].hasCRC = footer.hasCRC /\ streams[i].expected = footer.crc
                        /\ footer.unknown => Warned

\* A stream with a checksum has been compared with it, or there is a warning.
CRCChecked(i) ==
    streams[i].hasCRC => \/ BytesAt(file, streams[i].offset, streams[i].length) = streams[i].expected
                         \/ Warned

HeaderFound == AfterHeader => entry.header = file.header /\ HeaderVerdict(entry.header) = "ok"

KeyFound == AfterKey => /\ entry.key = BytesAt(file, FileHeaderSize, entry.header.keyLength)
                        /\ entry.keyVerified = (entry.key = entry.header.keyHash)
                        /\ entry.keyVerified \/ Warned

LastFound == AfterLast => IsEOF(size - FileEOFSize) /\ last = file.footers[size - FileEOFSize]

CombinedFound ==
    DOMAIN streams = {0, 1} =>
        /\ IsEOF(streams[1].eof) /\ file.footers[streams[1].eof].streamSize = 0
        /\ streams[0].length = last.streamSize
        /\ Describes(last, 0) /\ Describes(file.footers[streams[1].eof], 1)
        /\ pc # "crc 0" => CRCChecked(0)
        /\ pc \notin {"crc 0", "crc 1"} => CRCChecked(1)
        /\ pc \in {"http", "done"} /\ last.hasSHA =>
               StoredDigest(streams[0].offset + streams[0].length) = entry.key \/ Warned

Stream2Found ==
    DOMAIN streams = {2} =>
        /\ last.streamSize = 0 /\ Describes(last, 2)
        /\ pc # "crc 2" => CRCChecked(2)
        /\ pc = "done" => suffix = "_1" \/ Warned

\* While the file has not changed, everything found is what the file says; and
\* only an unstable file changes.
Undisturbed ==
    /\ file \in Files
    /\ changes # 0 => file \in Unstable
    /\ changes = 0 => /\ pc # "open" => size = file.size
                      /\ HeaderFound /\ KeyFound /\ LastFound
                      /\ CombinedFound /\ Stream2Found

\* The file is one that has to be recovered.
Recoverable ==
    LET w == file.of
    IN /\ file \notin Unstable /\ file.damage = 0
       /\ w.key <= MaxKeyLength /\ w.meta <= MaxInt32 /\ NameFits(w)
       /\ suffix = "other" /\ w.layout = "stream2" => ~w.lookalike

\* The parse of such a file meets no error, and warns of nothing it looked at.
Recovering ==
    LET w == file.of
    IN Recoverable =>
          /\ outcome \in {"none", "ok"} /\ entry.warnings \subseteq Unlooked
          /\ pc = "stream2" => w.layout = "stream2"
          /\ pc = "key sha" => w.sha
          /\ DOMAIN streams = {0, 1} => w.layout = "combined"
          /\ DOMAIN streams = {2} => w.layout = "stream2"
          /\ DOMAIN streams = {0, 1} /\ pc \in {"http", "done"} /\ w.sha => entry.keySHA = "verified"

-----------------------------------------------------------------------------
(* Files that are read without a warning.                                   *)

LastOf(f) == f.footers[f.size - FileEOFSize]
BaseOf(f) == BaseOffset(f.header)
InnerOf(f) == f.size - 2 * FileEOFSize - (IF LastOf(f).hasSHA THEN SHASize ELSE 0)
              - LastOf(f).streamSize

Fits(footer, f, offset, length) ==
    ~footer.unknown /\ (footer.hasCRC => BytesAt(f, offset, length) = footer.crc)

CleanHeader(f) == /\ f.header.magic /\ f.header.version /\ BaseOf(f) + FileEOFSize <= f.size
                  /\ BytesAt(f, FileHeaderSize, f.header.keyLength) = f.header.keyHash
                  /\ f.size - FileEOFSize \in DOMAIN f.footers

CleanCombined(f) ==
    /\ CleanHeader(f) /\ BaseOf(f) <= InnerOf(f)
    /\ InnerOf(f) \in DOMAIN f.footers /\ f.footers[InnerOf(f)].streamSize = 0
    /\ Fits(LastOf(f), f, InnerOf(f) + FileEOFSize, LastOf(f).streamSize)
    /\ Fits(f.footers[InnerOf(f)], f, BaseOf(f), InnerOf(f) - BaseOf(f))
    /\ LastOf(f).hasSHA =>
          LET o == InnerOf(f) + FileEOFSize + LastOf(f).streamSize
          IN /\ o \in DOMAIN f.digests
             /\ f.digests[o] = BytesAt(f, FileHeaderSize, f.header.keyLength)

CleanStream2(f) ==
    /\ CleanHeader(f) /\ LastOf(f).streamSize = 0
    /\ Fits(LastOf(f), f, BaseOf(f), f.size - FileEOFSize - BaseOf(f))

\* The parts of f are as long as w says, and its bytes are those of g.
Unharmed(f, g, w) ==
    /\ f.size = g.size /\ f.altered = g.altered /\ f.header.keyLength = w.key
    /\ w.layout = "combined" => LastOf(f).streamSize = w.meta /\ LastOf(f).hasSHA = w.sha

-----------------------------------------------------------------------------
(* An undisturbed parse finds what the file says.                           *)

\* It has found nothing yet before the first read.
LEMMA UndisturbedInit == Init => Undisturbed
<1> SUFFICES ASSUME Init PROVE Undisturbed
    OBVIOUS
<1>1. /\ file \in Files /\ changes = 0 /\ pc = "open" /\ outcome = "none"
      /\ DOMAIN streams = {}
    BY DEF Init, NoStreams
<1>2. ~AfterHeader /\ ~AfterKey /\ ~AfterLast
    BY <1>1 DEF AfterHeader, AfterKey, AfterLast
<1>3. DOMAIN streams # {0, 1} /\ DOMAIN streams # {2}
    BY <1>1
<1>4. HeaderFound /\ KeyFound /\ LastFound /\ CombinedFound /\ Stream2Found
    BY <1>2, <1>3 DEF HeaderFound, KeyFound, LastFound, CombinedFound, Stream2Found
<1>5. QED
    BY <1>1, <1>4 DEF Undisturbed

\* A change of the file ends the claim, and a step that changes nothing keeps it.
LEMMA UndisturbedOthers ==
    LayoutInv /\ Undisturbed /\ (Change \/ UNCHANGED vars) => Undisturbed'
<1> SUFFICES ASSUME LayoutInv, Undisturbed, Change \/ UNCHANGED vars PROVE Undisturbed'
    OBVIOUS
<1>1. CASE Change
    <2>1. changes \in 0 .. MaxChanges
        BY DEF LayoutInv, TypeOK
    <2>2. changes \in Nat /\ changes' = changes + 1
        BY <1>1, <2>1, LimitsAssumption DEF Change
    <2>3. changes' # 0 /\ file' \in Unstable /\ file' \in Files
        BY <1>1, <2>2, FilesAssumption DEF Change
    <2>4. QED
        BY <2>3 DEF Undisturbed
<1>2. CASE UNCHANGED vars
    <2>1. UNCHANGED <<file, suffix, pc, size, entry, streams, last, outcome, changes>>
        BY <1>2 DEF vars
    <2>2. HeaderFound = HeaderFound'
        BY <2>1 DEF HeaderFound, AfterHeader, HeaderVerdict, Overflows, BaseOffset
    <2>3. KeyFound = KeyFound' /\ Warned' = Warned
        BY <2>1 DEF KeyFound, AfterKey, Warned
    <2>4. LastFound = LastFound'
        BY <2>1 DEF LastFound, AfterLast, IsEOF
    <2>5. CRCChecked(0) = CRCChecked(0)' /\ CRCChecked(1) = CRCChecked(1)'
          /\ CRCChecked(2) = CRCChecked(2)'
        BY <2>1, <2>3 DEF CRCChecked
    <2>6. CombinedFound = CombinedFound'
        BY <2>1, <2>3, <2>5 DEF CombinedFound, IsEOF, Describes, StoredDigest
    <2>7. Stream2Found = Stream2Found'
        BY <2>1, <2>3, <2>5 DEF Stream2Found, Describes
    <2>8. QED
        BY <2>1, <2>2, <2>3, <2>4, <2>6, <2>7 DEF Undisturbed
<1>3. QED
    BY <1>1, <1>2

\* What has been found of the header, the key and the last footer stays found.
LEMMA EarlyKept ==
    ASSUME Undisturbed, UNCHANGED <<file, suffix, size, last, changes>>,
           entry'.header = entry.header, entry'.key = entry.key,
           entry'.keyVerified = entry.keyVerified, entry.warnings \subseteq entry'.warnings,
           AfterHeader' => AfterHeader, AfterKey' => AfterKey, AfterLast' => AfterLast,
           changes = 0
    PROVE  HeaderFound' /\ KeyFound' /\ LastFound'
<1>1. Warned => Warned'
    BY DEF Warned
<1>2. HeaderFound'
    BY DEF Undisturbed, HeaderFound, HeaderVerdict, Overflows, BaseOffset
<1>3. KeyFound'
    BY <1>1 DEF Undisturbed, KeyFound
<1>4. LastFound'
    BY DEF Undisturbed, LastFound, IsEOF
<1>5. QED
    BY <1>2, <1>3, <1>4

\* No streams, nothing to be found of them.
LEMMA NoStreamsFound ==
    ASSUME DOMAIN streams' = {} PROVE CombinedFound' /\ Stream2Found'
<1>1. DOMAIN streams' # {0, 1} /\ DOMAIN streams' # {2}
    OBVIOUS
<1>2. QED
    BY <1>1 DEF CombinedFound, Stream2Found

\* Two streams are not one.
LEMMA TwoStreams == {0, 1} # {2} /\ 0 # 1
    OBVIOUS

\* Opening the file.
LEMMA UndisturbedOpen == LayoutInv /\ Undisturbed /\ Open => Undisturbed'
<1> SUFFICES ASSUME LayoutInv, Undisturbed, Open PROVE Undisturbed'
    OBVIOUS
<1>1. /\ pc = "open" /\ pc' = "header" /\ outcome' = outcome /\ size' = file.size
      /\ outcome = "none" /\ DOMAIN streams = {}
      /\ UNCHANGED <<file, suffix, entry, streams, last, allocated, changes>>
    BY DEF Open, Continue, LayoutInv, StepsInOrder
<1>2. ~AfterHeader' /\ ~AfterKey' /\ ~AfterLast'
    BY <1>1 DEF AfterHeader, AfterKey, AfterLast
<1>3. HeaderFound' /\ KeyFound' /\ LastFound'
    BY <1>2 DEF HeaderFound, KeyFound, LastFound
<1>4. CombinedFound' /\ Stream2Found'
    BY <1>1, NoStreamsFound
<1>5. QED
    BY <1>1, <1>3, <1>4 DEF Undisturbed

\* Reading the header.
LEMMA UndisturbedReadHeader == LayoutInv /\ Undisturbed /\ ReadHeader => Undisturbed'
<1> SUFFICES ASSUME LayoutInv, Undisturbed, ReadHeader PROVE Undisturbed'
    OBVIOUS
<1>1. /\ pc = "header" /\ outcome = "none" /\ DOMAIN streams = {} /\ entry \in EntryType
      /\ UNCHANGED <<file, suffix, size, streams, last, changes>>
    BY DEF ReadHeader, LayoutInv, StepsInOrder, TypeOK
<1>2. \/ pc' = "done" /\ outcome' # "ok"
      \/ /\ pc' = "key" /\ outcome' = outcome
         /\ entry' = [entry EXCEPT !.header = file.header] /\ HeaderVerdict(file.header) = "ok"
    BY DEF ReadHeader, Continue, Return
<1>3. ~AfterKey' /\ ~AfterLast'
    BY <1>1, <1>2 DEF AfterKey, AfterLast
<1>4. HeaderFound'
    <2> SUFFICES ASSUME AfterHeader'
                 PROVE  entry'.header = file'.header /\ HeaderVerdict(entry.header)' = "ok"
        BY DEF HeaderFound
    <2>1. entry' = [entry EXCEPT !.header = file.header] /\ HeaderVerdict(file.header) = "ok"
        BY <1>2 DEF AfterHeader
    <2>2. entry'.header = file.header
        BY <1>1, <2>1 DEF EntryType
    <2>3. QED
        BY <1>1, <2>1, <2>2 DEF HeaderVerdict, Overflows, BaseOffset
<1>5. KeyFound' /\ LastFound'
    BY <1>3 DEF KeyFound, LastFound
<1>6. CombinedFound' /\ Stream2Found'
    BY <1>1, NoStreamsFound
<1>7. QED
    BY <1>1, <1>4, <1>5, <1>6 DEF Undisturbed

\* A key that does not hash to what the header says is warned of.
LEMMA WithKeyFound ==
    ASSUME NEW key, entry \in EntryType
    PROVE  LET e == WithKey(key)
           IN /\ e.header = entry.header /\ e.key = key
              /\ e.keyVerified = (key = entry.header.keyHash)
              /\ key = entry.header.keyHash \/ e.warnings # {}
              /\ key = entry.header.keyHash => e.warnings = entry.warnings
<1> DEFINE W == IF key = entry.header.keyHash THEN {} ELSE {<<"key hash", 0>>}
<1>1. WithKey(key) = [entry EXCEPT !.key = key, !.keyVerified = (key = entry.header.keyHash),
                                   !.warnings = entry.warnings \cup W]
    BY DEF WithKey, Warn, EntryType
<1>2. key # entry.header.keyHash => W # {}
    OBVIOUS
<1>3. key = entry.header.keyHash => W = {}
    OBVIOUS
<1> HIDE DEF W
<1>4. QED
    BY <1>1, <1>2, <1>3 DEF EntryType

\* Reading the key.
LEMMA UndisturbedReadKey == LayoutInv /\ Undisturbed /\ ReadKey => Undisturbed'
<1> SUFFICES ASSUME LayoutInv, Undisturbed, ReadKey PROVE Undisturbed'
    OBVIOUS
<1> DEFINE key == BytesAt(file, FileHeaderSize, entry.header.keyLength)
<1>1. /\ pc = "key" /\ outcome = "none" /\ DOMAIN streams = {} /\ entry \in EntryType
      /\ UNCHANGED <<file, suffix, size, streams, last, changes>>
    BY DEF ReadKey, LayoutInv, StepsInOrder, TypeOK
<1>2. \/ pc' = "done" /\ outcome' # "ok"
      \/ pc' = "last" /\ outcome' = outcome /\ entry' = WithKey(key)
    BY DEF ReadKey, Continue, Return
<1>3. ~AfterLast'
    BY <1>1, <1>2 DEF AfterLast
<1>4. ASSUME pc' = "last"
      PROVE  /\ entry'.header = entry.header /\ entry'.key = key
             /\ entry'.keyVerified = (key = entry.header.keyHash)
             /\ key = entry.header.keyHash \/ Warned'
    <2> HIDE DEF key
    <2>1. entry' = WithKey(key)
        BY <1>2, <1>4
    <2>2. QED
        BY <1>1, <2>1, WithKeyFound DEF Warned
<1>5. changes = 0 => HeaderFound'
    <2> SUFFICES ASSUME changes = 0, AfterHeader'
                 PROVE  entry'.header = file'.header /\ HeaderVerdict(entry.header)' = "ok"
        BY DEF HeaderFound
    <2>1. pc' = "last" /\ AfterHeader
        BY <1>1, <1>2 DEF AfterHeader
    <2>2. entry.header = file.header /\ HeaderVerdict(entry.header) = "ok"
        BY <2>1 DEF Undisturbed, HeaderFound
    <2>3. QED
        BY <1>1, <1>4, <2>1, <2>2 DEF HeaderVerdict, Overflows, BaseOffset
<1>6. KeyFound'
    <2> SUFFICES ASSUME AfterKey'
                 PROVE  /\ entry'.key = BytesAt(file', FileHeaderSize, entry'.header.keyLength)
                        /\ entry'.keyVerified = (entry'.key = entry'.header.keyHash)
                        /\ entry'.keyVerified \/ Warned'
        BY DEF KeyFound
    <2>1. pc' = "last"
        BY <1>2 DEF AfterKey
    <2>2. entry'.key = BytesAt(file, FileHeaderSize, entry.header.keyLength)
        BY <1>4, <2>1
    <2> HIDE DEF key
    <2>3. QED
        BY <1>1, <1>4, <2>1, <2>2
<1>7. LastFound'
    BY <1>3 DEF LastFound
<1>8. CombinedFound' /\ Stream2Found'
    BY <1>1, NoStreamsFound
<1>9. QED
    BY <1>1, <1>5, <1>6, <1>7, <1>8 DEF Undisturbed

\* Reading the last footer.
LEMMA UndisturbedReadLastEOF == LayoutInv /\ Undisturbed /\ ReadLastEOF => Undisturbed'
<1> SUFFICES ASSUME LayoutInv, Undisturbed, ReadLastEOF PROVE Undisturbed'
    OBVIOUS
<1>1. /\ pc = "last" /\ outcome = "none" /\ DOMAIN streams = {}
      /\ UNCHANGED <<file, suffix, size, entry, streams, changes>>
    BY DEF ReadLastEOF, LayoutInv, StepsInOrder
<1>2. \/ pc' = "done" /\ outcome' # "ok"
      \/ /\ pc' = FirstLayout /\ outcome' = outcome
         /\ IsEOF(size - FileEOFSize) /\ last' = file.footers[size - FileEOFSize]
    BY DEF ReadLastEOF, Continue, Return
<1>3. AfterHeader /\ AfterKey
    BY <1>1 DEF AfterHeader, AfterKey
<1>4. changes = 0 => HeaderFound' /\ KeyFound'
    BY <1>1, <1>3 DEF Undisturbed, HeaderFound, KeyFound, HeaderVerdict, Overflows, BaseOffset,
                      Warned
<1>5. LastFound'
    <2> SUFFICES ASSUME AfterLast'
                 PROVE  IsEOF(size - FileEOFSize)' /\ last' = file'.footers[size' - FileEOFSize]
        BY DEF LastFound
    <2>1. pc' # "done" \/ outcome' = "ok"
        BY DEF AfterLast
    <2>2. QED
        BY <1>1, <1>2, <2>1 DEF IsEOF
<1>6. CombinedFound' /\ Stream2Found'
    BY <1>1, NoStreamsFound
<1>7. QED
    BY <1>1, <1>4, <1>5, <1>6 DEF Undisturbed

\* A warning adds to the warnings and changes nothing else.
LEMMA WarnKeeps ==
    ASSUME NEW e \in EntryType, NEW W \in SUBSET Warnings
    PROVE  /\ Warn(e, W).header = e.header /\ Warn(e, W).key = e.key
           /\ Warn(e, W).keyVerified = e.keyVerified /\ Warn(e, W).keySHA = e.keySHA
           /\ Warn(e, W).warnings = e.warnings \cup W
    BY DEF Warn, EntryType

\* Taking streams 0 and 1.
LEMMA UndisturbedReadCombined == LayoutInv /\ Undisturbed /\ ReadCombined => Undisturbed'
<1> SUFFICES ASSUME LayoutInv, Undisturbed, ReadCombined PROVE Undisturbed'
    OBVIOUS
<1>1. /\ pc = "combined" /\ outcome = "none" /\ DOMAIN streams = {} /\ entry \in EntryType
      /\ UNCHANGED <<file, suffix, size, last, changes>>
    BY DEF ReadCombined, LayoutInv, StepsInOrder, TypeOK
<1>2. AfterHeader /\ AfterKey /\ AfterLast
    BY <1>1 DEF AfterHeader, AfterKey, AfterLast
<1>3. CASE /\ CombinedHolds
           /\ streams' = CombinedStreams(file.footers[Stream1EOF])
           /\ entry' = Warn(entry, UnknownFlags(last, 0)
                                       \cup UnknownFlags(file.footers[Stream1EOF], 1))
           /\ Continue("crc 0")
    <2> DEFINE inner == file.footers[Stream1EOF]
               W == UnknownFlags(last, 0) \cup UnknownFlags(inner, 1)
    <2>1. W \in SUBSET Warnings
        BY FlagsWarning
    <2>2. (last.unknown => W # {}) /\ (inner.unknown => W # {})
        BY DEF UnknownFlags
    <2>3. /\ streams' = CombinedStreams(inner) /\ entry' = Warn(entry, W)
          /\ pc' = "crc 0" /\ outcome' = outcome
          /\ Stream1EOF \in DOMAIN file.footers /\ inner.streamSize = 0
        BY <1>3 DEF Continue, CombinedHolds, IsEOF
    <2>4. inner = file.footers[Stream1EOF]
        OBVIOUS
    <2> HIDE DEF inner, W
    <2>5. /\ entry'.header = entry.header /\ entry'.key = entry.key
          /\ entry'.keyVerified = entry.keyVerified /\ entry'.warnings = entry.warnings \cup W
        BY <1>1, <2>1, <2>3, WarnKeeps
    <2>6. changes = 0 => HeaderFound' /\ KeyFound' /\ LastFound'
        BY <1>1, <1>2, <2>5, EarlyKept
    <2>7. DOMAIN streams' = {0, 1} /\ {0, 1} # {2}
        <3>1. streams' = CombinedStreams(inner)
            BY <2>3
        <3>2. DOMAIN streams' = {0, 1}
            BY <3>1 DEF CombinedStreams
        <3>3. {0, 1} # {2}
            OBVIOUS
        <3>4. QED
            BY <3>2, <3>3
    <2>8. /\ streams'[1].eof = Stream1EOF /\ streams'[1].hasCRC = inner.hasCRC
          /\ streams'[1].expected = inner.crc
          /\ streams'[0].length = last.streamSize /\ streams'[0].hasCRC = last.hasCRC
          /\ streams'[0].expected = last.crc
        <3>1. streams' = CombinedStreams(inner)
            BY <2>3
        <3>2. streams'[0] = Stream(Stream1EOF + FileEOFSize, last.streamSize,
                                   size - FileEOFSize, last)
            BY <3>1 DEF CombinedStreams
        <3>3. streams'[1] = Stream(Base, Stream1Length, Stream1EOF, inner)
            BY <3>1 DEF CombinedStreams
        <3>4. QED
            BY <3>2, <3>3 DEF Stream
    <2>9. /\ Describes(last, 0)'
          /\ streams'[1].hasCRC = inner.hasCRC /\ streams'[1].expected = inner.crc
          /\ inner.unknown => Warned'
        BY <1>1, <2>2, <2>5, <2>8 DEF Describes, Warned
    <2>10. CombinedFound'
        BY <1>1, <2>3, <2>4, <2>8, <2>9 DEF CombinedFound, IsEOF, Describes
    <2>11. Stream2Found'
        BY <2>7 DEF Stream2Found
    <2>12. QED
        BY <1>1, <2>3, <2>6, <2>10, <2>11 DEF Undisturbed
<1>4. CASE /\ ~CombinedHolds
           /\ IF MayFallBack THEN Continue("stream2") ELSE Return("corrupt")
           /\ UNCHANGED <<entry, streams>>
    <2>1. changes = 0 => HeaderFound' /\ KeyFound' /\ LastFound'
        BY <1>1, <1>2, <1>4, EarlyKept
    <2>2. pc' = "done" => outcome' # "ok"
        BY <1>4 DEF Continue, Return
    <2>3. CombinedFound' /\ Stream2Found'
        BY <1>1, <1>4, NoStreamsFound
    <2>4. pc' # "open"
        BY <1>4 DEF Continue, Return
    <2>5. QED
        BY <1>1, <2>1, <2>3, <2>4 DEF Undisturbed
<1>5. QED
    BY <1>3, <1>4 DEF ReadCombined

\* Taking stream 2.
LEMMA UndisturbedTakeStream2 == LayoutInv /\ Undisturbed /\ TakeStream2 => Undisturbed'
<1> SUFFICES ASSUME LayoutInv, Undisturbed, TakeStream2 PROVE Undisturbed'
    OBVIOUS
<1>1. /\ pc = "stream2" /\ outcome = "none" /\ DOMAIN streams = {} /\ entry \in EntryType
      /\ UNCHANGED <<file, suffix, size, last, changes>>
    BY DEF TakeStream2, LayoutInv, StepsInOrder, TypeOK
<1>2. AfterHeader /\ AfterKey /\ AfterLast
    BY <1>1 DEF AfterHeader, AfterKey, AfterLast
<1>3. CASE /\ Stream2Holds
           /\ streams' = [i \in {2} |-> Stream(Base, Stream2Length, size - FileEOFSize, last)]
           /\ entry' = Warn(entry, UnknownFlags(last, 2))
           /\ Continue("crc 2")
    <2> DEFINE W == UnknownFlags(last, 2)
    <2>1. W \in SUBSET Warnings
        BY FlagsWarning
    <2>2. last.unknown => W # {}
        BY DEF UnknownFlags
    <2>3. /\ entry' = Warn(entry, W) /\ pc' = "crc 2" /\ outcome' = outcome
          /\ last.streamSize = 0
        BY <1>3 DEF Continue, Stream2Holds
    <2> HIDE DEF W
    <2>4. /\ entry'.header = entry.header /\ entry'.key = entry.key
          /\ entry'.keyVerified = entry.keyVerified /\ entry'.warnings = entry.warnings \cup W
        BY <1>1, <2>1, <2>3, WarnKeeps
    <2>5. changes = 0 => HeaderFound' /\ KeyFound' /\ LastFound'
        BY <1>1, <1>2, <2>4, EarlyKept
    <2>6. DOMAIN streams' = {2} /\ {0, 1} # {2}
        <3>1. streams' = [i \in {2} |-> Stream(Base, Stream2Length, size - FileEOFSize, last)]
            BY <1>3
        <3>2. DOMAIN streams' = {2}
            BY <3>1
        <3>3. {0, 1} # {2}
            OBVIOUS
        <3>4. QED
            BY <3>2, <3>3
    <2>7. streams'[2].hasCRC = last.hasCRC /\ streams'[2].expected = last.crc
        BY <1>3 DEF Stream
    <2>8. Describes(last, 2)'
        BY <1>1, <2>2, <2>4, <2>7 DEF Describes, Warned
    <2>9. CombinedFound' /\ Stream2Found'
        BY <1>1, <2>3, <2>6, <2>8 DEF CombinedFound, Stream2Found
    <2>10. QED
        BY <1>1, <2>3, <2>5, <2>9 DEF Undisturbed
<1>4. CASE ~Stream2Holds /\ Return("corrupt") /\ UNCHANGED <<entry, streams>>
    <2>1. changes = 0 => HeaderFound' /\ KeyFound' /\ LastFound'
        BY <1>1, <1>2, <1>4, EarlyKept
    <2>2. CombinedFound' /\ Stream2Found'
        BY <1>1, <1>4, NoStreamsFound
    <2>3. QED
        BY <1>1, <1>4, <2>1, <2>2 DEF Undisturbed, Return
<1>5. QED
    BY <1>3, <1>4 DEF TakeStream2

\* Validating a stream may warn; if it has a checksum and there is no warning,
\* the checksum is right.
LEMMA ValidateFinds ==
    ASSUME TypeOK, NEW i \in DOMAIN streams, Validate(i), UNCHANGED file
    PROVE  /\ entry'.header = entry.header /\ entry'.key = entry.key
           /\ entry'.keyVerified = entry.keyVerified /\ entry'.keySHA = entry.keySHA
           /\ entry.warnings \subseteq entry'.warnings
           /\ \A j \in DOMAIN streams :
                  /\ streams'[j].offset = streams[j].offset /\ streams'[j].eof = streams[j].eof
                  /\ streams'[j].length = streams[j].length
                  /\ streams'[j].hasCRC = streams[j].hasCRC
                  /\ streams'[j].expected = streams[j].expected
           /\ CRCChecked(i)'
<1>1. PICK S \in StreamSets : streams \in [S -> StreamType]
    BY DEF TypeOK
<1>2. entry \in EntryType /\ i \in S /\ i \in {0, 1, 2} /\ streams[i] \in StreamType
    BY <1>1 DEF TypeOK, StreamSets
<1>3. CASE UNCHANGED <<entry, streams>> /\ ~streams[i].hasCRC
    BY <1>3 DEF CRCChecked
<1>4. CASE MarkVerified(i) /\ BytesAt(file, streams[i].offset, streams[i].length)
                                  = streams[i].expected
    <2>1. streams' = [streams EXCEPT ![i].verified = TRUE] /\ entry' = entry
        BY <1>4 DEF MarkVerified
    <2> DEFINE t == [streams[i] EXCEPT !.verified = TRUE]
    <2>2. /\ t.offset = streams[i].offset /\ t.length = streams[i].length
          /\ t.eof = streams[i].eof /\ t.hasCRC = streams[i].hasCRC
          /\ t.expected = streams[i].expected
        BY <1>2 DEF StreamType
    <2>3. \A j \in DOMAIN streams : streams'[j] = IF j = i THEN t ELSE streams[j]
        BY <2>1
    <2> HIDE DEF t
    <2>4. \A j \in DOMAIN streams :
                  /\ streams'[j].offset = streams[j].offset /\ streams'[j].eof = streams[j].eof
                  /\ streams'[j].length = streams[j].length
                  /\ streams'[j].hasCRC = streams[j].hasCRC
                  /\ streams'[j].expected = streams[j].expected
        BY <2>2, <2>3
    <2>5. CRCChecked(i)'
        BY <1>4, <2>4 DEF CRCChecked
    <2>6. QED
        BY <2>1, <2>4, <2>5
<1>5. ASSUME NEW why \in WarningKinds, NotVerified(i, why)
      PROVE  /\ UNCHANGED streams /\ Warned'
             /\ entry'.header = entry.header /\ entry'.key = entry.key
             /\ entry'.keyVerified = entry.keyVerified /\ entry'.keySHA = entry.keySHA
             /\ entry.warnings \subseteq entry'.warnings
    <2>1. {<<why, i>>} \in SUBSET Warnings
        BY <1>2, OneWarning
    <2>2. entry' = Warn(entry, {<<why, i>>}) /\ UNCHANGED streams
        BY <1>5 DEF NotVerified
    <2>3. /\ entry'.warnings = entry.warnings \cup {<<why, i>>}
          /\ entry'.header = entry.header /\ entry'.key = entry.key
          /\ entry'.keyVerified = entry.keyVerified /\ entry'.keySHA = entry.keySHA
        BY <1>2, <2>1, <2>2, WarnKeeps
    <2>4. QED
        BY <2>2, <2>3 DEF Warned
<1>6. CASE \E why \in WarningKinds : NotVerified(i, why)
    BY <1>5, <1>6 DEF CRCChecked
<1>7. \/ UNCHANGED <<entry, streams>> /\ ~streams[i].hasCRC
      \/ MarkVerified(i) /\ BytesAt(file, streams[i].offset, streams[i].length)
                                = streams[i].expected
      \/ \E why \in WarningKinds : NotVerified(i, why)
    BY DEF Validate, WarningKinds
<1>8. QED
    BY <1>3, <1>4, <1>6, <1>7

\* A stream that has been checked stays so.
LEMMA CheckedKept ==
    ASSUME NEW i, CRCChecked(i), UNCHANGED file, entry.warnings \subseteq entry'.warnings,
           streams'[i].offset = streams[i].offset, streams'[i].length = streams[i].length,
           streams'[i].hasCRC = streams[i].hasCRC, streams'[i].expected = streams[i].expected
    PROVE  CRCChecked(i)'
    BY DEF CRCChecked, Warned

\* Validating stream 0 or 1.
LEMMA UndisturbedValidateOne ==
    ASSUME LayoutInv, Undisturbed, NEW i \in {0, 1}, Validate(i), outcome' = outcome,
           i = 0 => pc = "crc 0" /\ pc' = "crc 1",
           i = 1 => pc = "crc 1" /\ pc' = "digest",
           UNCHANGED <<file, suffix, size, last, changes>>
    PROVE  Undisturbed'
<1>1. \/ i = 0 /\ pc = "crc 0" /\ pc' = "crc 1"
      \/ i = 1 /\ pc = "crc 1" /\ pc' = "digest"
    OBVIOUS
<1>2. DOMAIN streams = {0, 1} /\ TypeOK /\ outcome = "none"
    BY <1>1 DEF LayoutInv, StepsInOrder
<1>3. /\ entry'.header = entry.header /\ entry'.key = entry.key
      /\ entry'.keyVerified = entry.keyVerified
      /\ entry.warnings \subseteq entry'.warnings /\ CRCChecked(i)'
      /\ \A j \in {0, 1} : /\ streams'[j].offset = streams[j].offset
                           /\ streams'[j].eof = streams[j].eof
                           /\ streams'[j].length = streams[j].length
                           /\ streams'[j].hasCRC = streams[j].hasCRC
                           /\ streams'[j].expected = streams[j].expected
      /\ DOMAIN streams' = {0, 1}
    <2>1. i \in DOMAIN streams
        BY <1>2
    <2>2. QED
        BY <1>2, <2>1, ValidateFinds, ValidateKeeps
<1>4. AfterHeader /\ AfterKey /\ AfterLast
    BY <1>1 DEF AfterHeader, AfterKey, AfterLast
<1>5. changes = 0 => HeaderFound' /\ KeyFound' /\ LastFound'
    BY <1>2, <1>3, <1>4, EarlyKept
<1>6. changes = 0 => CombinedFound'
    <2> SUFFICES ASSUME changes = 0 PROVE CombinedFound'
        OBVIOUS
    <2>1. CombinedFound
        BY DEF Undisturbed
    <2>2. i = 1 => CRCChecked(0)
        <3>1. i = 1 => pc = "crc 1"
            OBVIOUS
        <3>2. QED
            BY <1>2, <2>1, <3>1 DEF CombinedFound
    <2>3. CRCChecked(0)'
        BY <1>2, <1>3, <2>2, CheckedKept
    <2>4. i = 1 => CRCChecked(1)'
        BY <1>3
    <2>5. pc' = "crc 1" => i = 0
        BY <1>1
    <2>6. pc' \notin {"crc 0", "crc 1"} => i = 1
        BY <1>1
    <2>7. pc' \notin {"http", "done"}
        BY <1>1
    <2>8. (Describes(last, 0) => Describes(last, 0)')
          /\ (Describes(file.footers[streams[1].eof], 1)
                  => Describes(file.footers[streams[1].eof], 1)')
        BY <1>2, <1>3 DEF Describes, Warned
    <2>9. QED
        BY <1>2, <1>3, <2>1, <2>3, <2>4, <2>6, <2>7, <2>8 DEF CombinedFound, IsEOF
<1>7. Stream2Found'
    <2>1. DOMAIN streams' # {2}
        BY <1>3, TwoStreams
    <2>2. QED
        BY <2>1 DEF Stream2Found
<1>8. pc' # "open" /\ pc # "open"
    BY <1>1
<1>9. QED
    BY <1>2, <1>5, <1>6, <1>7, <1>8 DEF Undisturbed

LEMMA UndisturbedValidate01 ==
    LayoutInv /\ Undisturbed /\ (Validate0 \/ Validate1) => Undisturbed'
<1> SUFFICES ASSUME LayoutInv, Undisturbed, Validate0 \/ Validate1 PROVE Undisturbed'
    OBVIOUS
<1>1. CASE Validate0
    <2>1. /\ pc = "crc 0" /\ Validate(0) /\ pc' = "crc 1" /\ outcome' = outcome
          /\ UNCHANGED <<file, suffix, size, last, changes>>
        BY <1>1 DEF Validate0, Continue
    <2>2. QED
        BY <2>1, TwoStreams, UndisturbedValidateOne
<1>2. CASE Validate1
    <2>1. /\ pc = "crc 1" /\ Validate(1) /\ pc' = "digest" /\ outcome' = outcome
          /\ UNCHANGED <<file, suffix, size, last, changes>>
        BY <1>2 DEF Validate1, Continue
    <2>2. QED
        BY <2>1, TwoStreams, UndisturbedValidateOne
<1>3. QED
    BY <1>1, <1>2

\* Validating stream 2.
LEMMA UndisturbedValidate2 == LayoutInv /\ Undisturbed /\ Validate2 => Undisturbed'
<1> SUFFICES ASSUME LayoutInv, Undisturbed, Validate2 PROVE Undisturbed'
    OBVIOUS
<1>1. /\ pc = "crc 2" /\ DOMAIN streams = {2} /\ TypeOK /\ Validate(2) /\ outcome = "none"
      /\ UNCHANGED <<file, suffix, size, last, changes>>
      /\ pc' = "fallen back" \/ (pc' = "done" /\ suffix = "_1")
    BY DEF Validate2, Continue, Return, LayoutInv, StepsInOrder
<1>2. /\ entry'.header = entry.header /\ entry'.key = entry.key
      /\ entry'.keyVerified = entry.keyVerified
      /\ entry.warnings \subseteq entry'.warnings /\ CRCChecked(2)'
      /\ streams'[2].hasCRC = streams[2].hasCRC /\ streams'[2].expected = streams[2].expected
      /\ DOMAIN streams' = {2}
    <2>1. 2 \in DOMAIN streams
        BY <1>1
    <2>2. QED
        BY <1>1, <2>1, ValidateFinds, ValidateKeeps
<1>3. AfterHeader /\ AfterKey /\ AfterLast
    BY <1>1 DEF AfterHeader, AfterKey, AfterLast
<1>4. changes = 0 => HeaderFound' /\ KeyFound' /\ LastFound'
    BY <1>1, <1>2, <1>3, EarlyKept
<1>5. changes = 0 => Stream2Found'
    <2> SUFFICES ASSUME changes = 0 PROVE Stream2Found'
        OBVIOUS
    <2>1. last.streamSize = 0 /\ Describes(last, 2)
        BY <1>1 DEF Undisturbed, Stream2Found
    <2>2. Describes(last, 2)'
        BY <1>1, <1>2, <2>1 DEF Describes, Warned
    <2>3. QED
        BY <1>1, <1>2, <2>1, <2>2 DEF Stream2Found
<1>6. CombinedFound'
    <2>1. DOMAIN streams' # {0, 1}
        BY <1>2
    <2>2. QED
        BY <2>1 DEF CombinedFound
<1>7. pc' # "open" /\ pc # "open"
    BY <1>1
<1>8. QED
    BY <1>1, <1>4, <1>5, <1>6, <1>7 DEF Undisturbed

\* Warning that a file was read as stream 2.
LEMMA UndisturbedSayFallenBack == LayoutInv /\ Undisturbed /\ SayFallenBack => Undisturbed'
<1> SUFFICES ASSUME LayoutInv, Undisturbed, SayFallenBack PROVE Undisturbed'
    OBVIOUS
<1>1. /\ pc = "fallen back" /\ DOMAIN streams = {2} /\ entry \in EntryType
      /\ UNCHANGED <<file, suffix, size, streams, last, changes>>
      /\ entry' = Warn(entry, {<<"read as stream 2", 2>>}) /\ pc' = "done"
    BY DEF SayFallenBack, Return, LayoutInv, StepsInOrder, TypeOK
<1>2. {<<"read as stream 2", 2>>} \in SUBSET Warnings
    BY OneWarning DEF WarningKinds
<1>3. /\ entry'.header = entry.header /\ entry'.key = entry.key
      /\ entry'.keyVerified = entry.keyVerified
      /\ entry.warnings \subseteq entry'.warnings /\ Warned'
    <2>1. entry'.warnings = entry.warnings \cup {<<"read as stream 2", 2>>}
        BY <1>1, <1>2, WarnKeeps
    <2>2. QED
        BY <1>1, <1>2, <2>1, WarnKeeps DEF Warned
<1>4. AfterHeader /\ AfterKey /\ AfterLast
    BY <1>1 DEF AfterHeader, AfterKey, AfterLast
<1>5. changes = 0 => HeaderFound' /\ KeyFound' /\ LastFound'
    BY <1>1, <1>3, <1>4, EarlyKept
<1>6. changes = 0 => Stream2Found'
    <2> SUFFICES ASSUME changes = 0 PROVE Stream2Found'
        OBVIOUS
    <2>1. last.streamSize = 0 /\ Describes(last, 2) /\ CRCChecked(2)
        BY <1>1 DEF Undisturbed, Stream2Found
    <2>2. Describes(last, 2)' /\ CRCChecked(2)'
        BY <1>1, <1>3, <2>1 DEF Describes, CRCChecked
    <2>3. QED
        BY <1>1, <1>3, <2>1, <2>2 DEF Stream2Found
<1>7. CombinedFound'
    <2>1. DOMAIN streams' # {0, 1}
        BY <1>1, TwoStreams
    <2>2. QED
        BY <2>1 DEF CombinedFound
<1>8. pc' # "open" /\ pc # "open"
    BY <1>1
<1>9. QED
    BY <1>1, <1>5, <1>6, <1>7, <1>8 DEF Undisturbed

\* A late step on streams 0 and 1 leaves what was found, and has to see to the
\* digest of the key.
LEMMA FoundKept ==
    ASSUME Undisturbed, DOMAIN streams = {0, 1}, UNCHANGED <<file, suffix, size, streams, last, changes>>,
           pc \in {"digest", "key sha", "http"}, pc' \in {"key sha", "http", "done"},
           entry'.header = entry.header, entry'.key = entry.key,
           entry'.keyVerified = entry.keyVerified, entry.warnings \subseteq entry'.warnings,
           \/ pc' = "key sha" \/ ~last.hasSHA \/ pc = "http" \/ Warned'
           \/ StoredDigest(streams[0].offset + streams[0].length) = entry.key
    PROVE  Undisturbed'
<1>1. AfterHeader /\ AfterKey /\ AfterLast
    BY DEF AfterHeader, AfterKey, AfterLast
<1>2. changes = 0 => HeaderFound' /\ KeyFound' /\ LastFound'
    BY <1>1, EarlyKept
<1>3. Stream2Found'
    <2>1. DOMAIN streams' # {2}
        BY TwoStreams
    <2>2. QED
        BY <2>1 DEF Stream2Found
<1>4. changes = 0 => CombinedFound'
    <2> SUFFICES ASSUME changes = 0 PROVE CombinedFound'
        OBVIOUS
    <2>1. CombinedFound
        BY DEF Undisturbed
    <2>2. /\ IsEOF(streams[1].eof) /\ file.footers[streams[1].eof].streamSize = 0
          /\ streams[0].length = last.streamSize
          /\ Describes(last, 0) /\ Describes(file.footers[streams[1].eof], 1)
          /\ CRCChecked(0) /\ CRCChecked(1)
          /\ pc = "http" /\ last.hasSHA =>
               StoredDigest(streams[0].offset + streams[0].length) = entry.key \/ Warned
        <3>1. pc # "crc 0" /\ pc # "crc 1"
            OBVIOUS
        <3>2. QED
            BY <2>1, <3>1 DEF CombinedFound
    <2>3. Warned => Warned'
        BY DEF Warned
    <2>4. /\ IsEOF(streams[1].eof)' /\ Describes(last, 0)'
          /\ Describes(file.footers[streams[1].eof], 1)' /\ CRCChecked(0)' /\ CRCChecked(1)'
        BY <2>2, <2>3 DEF IsEOF, Describes, CRCChecked
    <2>5. StoredDigest(streams[0].offset + streams[0].length)'
              = StoredDigest(streams[0].offset + streams[0].length)
        BY DEF StoredDigest
    <2>6. pc' \in {"http", "done"} /\ last.hasSHA =>
               StoredDigest(streams[0].offset + streams[0].length) = entry.key \/ Warned'
        BY <2>2, <2>3
    <2>7. QED
        BY <2>2, <2>4, <2>5, <2>6 DEF CombinedFound
<1>5. pc' # "open" /\ pc # "open"
    OBVIOUS
<1>6. QED
    BY <1>2, <1>3, <1>4, <1>5 DEF Undisturbed

\* Digesting stream 1.
LEMMA UndisturbedDigest == LayoutInv /\ Undisturbed /\ Digest => Undisturbed'
<1> SUFFICES ASSUME LayoutInv, Undisturbed, Digest PROVE Undisturbed'
    OBVIOUS
<1>1. /\ DOMAIN streams = {0, 1} /\ pc = "digest" /\ entry \in EntryType
      /\ UNCHANGED <<file, suffix, size, streams, last, changes>>
      /\ pc' \in {"key sha", "http"} /\ (pc' = "key sha" \/ ~last.hasSHA)
    BY DEF LayoutInv, StepsInOrder, TypeOK, Digest, Continue
<1>2. \/ entry' = [entry EXCEPT !.body = BytesAt(file, streams[1].offset, streams[1].length)]
      \/ \E why \in WarningKinds : entry' = Warn(entry, {<<why, 1>>})
    BY DEF Digest, ReadFails, WarningKinds
<1>3. /\ entry'.header = entry.header /\ entry'.key = entry.key
      /\ entry'.keyVerified = entry.keyVerified /\ entry.warnings \subseteq entry'.warnings
    <2>1. CASE entry' = [entry EXCEPT !.body = BytesAt(file, streams[1].offset, streams[1].length)]
        BY <1>1, <2>1 DEF EntryType
    <2>2. ASSUME NEW why \in WarningKinds, entry' = Warn(entry, {<<why, 1>>})
          PROVE  /\ entry'.header = entry.header /\ entry'.key = entry.key
                 /\ entry'.keyVerified = entry.keyVerified /\ entry.warnings \subseteq entry'.warnings
        <3>1. {<<why, 1>>} \in SUBSET Warnings
            BY OneWarning
        <3>2. entry'.warnings = entry.warnings \cup {<<why, 1>>}
            BY <1>1, <2>2, <3>1, WarnKeeps
        <3>3. QED
            BY <1>1, <2>2, <3>1, <3>2, WarnKeeps
    <2>3. QED
        BY <1>2, <2>1, <2>2
<1>4. pc \in {"digest", "key sha", "http"} /\ pc' \in {"key sha", "http", "done"}
    BY <1>1
<1>5. QED
    BY <1>1, <1>3, <1>4, FoundKept

\* Comparing the key with its digest.
LEMMA UndisturbedVerifyKeySHA == LayoutInv /\ Undisturbed /\ VerifyKeySHA => Undisturbed'
<1> SUFFICES ASSUME LayoutInv, Undisturbed, VerifyKeySHA PROVE Undisturbed'
    OBVIOUS
<1> DEFINE offset == streams[0].offset + streams[0].length
<1>1. /\ DOMAIN streams = {0, 1} /\ pc = "key sha" /\ pc' = "http" /\ entry \in EntryType
      /\ UNCHANGED <<file, suffix, size, streams, last, changes>>
    BY DEF LayoutInv, StepsInOrder, TypeOK, VerifyKeySHA, Continue
<1>2. \/ entry' = [entry EXCEPT !.keySHA = "verified"] /\ StoredDigest(offset) = entry.key
      \/ entry' = Warn([entry EXCEPT !.keySHA = "mismatch"], {<<"key sha mismatch", 0>>})
      \/ entry' = Warn(entry, {<<"key sha unread", 0>>})
    BY DEF VerifyKeySHA, ReadFails
<1>3. /\ entry'.header = entry.header /\ entry'.key = entry.key
      /\ entry'.keyVerified = entry.keyVerified /\ entry.warnings \subseteq entry'.warnings
      /\ StoredDigest(offset) = entry.key \/ Warned'
    <2> HIDE DEF offset
    <2>1. CASE entry' = [entry EXCEPT !.keySHA = "verified"] /\ StoredDigest(offset) = entry.key
        BY <1>1, <2>1 DEF EntryType
    <2>2. /\ {<<"key sha mismatch", 0>>} \in SUBSET Warnings
          /\ {<<"key sha unread", 0>>} \in SUBSET Warnings
        BY OneWarning DEF WarningKinds
    <2>3. CASE entry' = Warn([entry EXCEPT !.keySHA = "mismatch"], {<<"key sha mismatch", 0>>})
        <3> DEFINE e == [entry EXCEPT !.keySHA = "mismatch"]
        <3>1. /\ e \in EntryType /\ e.header = entry.header /\ e.key = entry.key
              /\ e.keyVerified = entry.keyVerified /\ e.warnings = entry.warnings
            BY <1>1 DEF EntryType
        <3>2. entry' = Warn(e, {<<"key sha mismatch", 0>>})
            BY <2>3
        <3> HIDE DEF e
        <3>3. /\ entry'.warnings = e.warnings \cup {<<"key sha mismatch", 0>>}
              /\ entry'.header = e.header /\ entry'.key = e.key /\ entry'.keyVerified = e.keyVerified
            BY <2>2, <3>1, <3>2, WarnKeeps
        <3>4. QED
            BY <3>1, <3>3 DEF Warned
    <2>4. CASE entry' = Warn(entry, {<<"key sha unread", 0>>})
        <3>1. entry'.warnings = entry.warnings \cup {<<"key sha unread", 0>>}
            BY <1>1, <2>2, <2>4, WarnKeeps
        <3>2. QED
            BY <1>1, <2>2, <2>4, <3>1, WarnKeeps DEF Warned
    <2>5. QED
        BY <1>2, <2>1, <2>3, <2>4
<1>4. QED
    BY <1>1, <1>3, FoundKept

\* Reading the metadata.
LEMMA UndisturbedParseHTTP == LayoutInv /\ Undisturbed /\ ParseHTTP => Undisturbed'
<1> SUFFICES ASSUME LayoutInv, Undisturbed, ParseHTTP PROVE Undisturbed'
    OBVIOUS
<1>1. /\ DOMAIN streams = {0, 1} /\ pc = "http" /\ pc' = "done" /\ entry \in EntryType
      /\ UNCHANGED <<file, suffix, size, streams, last, changes>>
    BY DEF LayoutInv, StepsInOrder, TypeOK, ParseHTTP, Return
<1>2. \/ entry' = [entry EXCEPT !.http = TRUE]
      \/ \E why \in WarningKinds : entry' = Warn(entry, {<<why, 0>>})
    BY DEF ParseHTTP, WarningKinds
<1>3. /\ entry'.header = entry.header /\ entry'.key = entry.key
      /\ entry'.keyVerified = entry.keyVerified /\ entry.warnings \subseteq entry'.warnings
    <2>1. CASE entry' = [entry EXCEPT !.http = TRUE]
        BY <1>1, <2>1 DEF EntryType
    <2>2. ASSUME NEW why \in WarningKinds, entry' = Warn(entry, {<<why, 0>>})
          PROVE  /\ entry'.header = entry.header /\ entry'.key = entry.key
                 /\ entry'.keyVerified = entry.keyVerified /\ entry.warnings \subseteq entry'.warnings
        <3>1. {<<why, 0>>} \in SUBSET Warnings
            BY OneWarning
        <3>2. entry'.warnings = entry.warnings \cup {<<why, 0>>}
            BY <1>1, <2>2, <3>1, WarnKeeps
        <3>3. QED
            BY <1>1, <2>2, <3>1, <3>2, WarnKeeps
    <2>3. QED
        BY <1>2, <2>1, <2>2
<1>4. QED
    BY <1>1, <1>3, FoundKept

\* What an undisturbed parse has found is what the file says.
THEOREM FindsWhatIsThere == Spec => []Undisturbed
<1>1. LayoutInv /\ Undisturbed /\ [Next]_vars => Undisturbed'
    BY UndisturbedOpen, UndisturbedReadHeader, UndisturbedReadKey, UndisturbedReadLastEOF,
       UndisturbedReadCombined, UndisturbedTakeStream2, UndisturbedValidate01,
       UndisturbedValidate2, UndisturbedSayFallenBack, UndisturbedDigest,
       UndisturbedVerifyKeySHA, UndisturbedParseHTTP, UndisturbedOthers
       DEF Next, Parse, Terminated
<1>2. QED
    BY <1>1, UndisturbedInit, LayoutInvariant, PTL DEF Spec

-----------------------------------------------------------------------------
(* What is written, and what one damage makes of it.                        *)

\* The file g holds what w says, where w says.
AsWritten(g, w) ==
    /\ g.size = OuterEOF(w) + FileEOFSize /\ g.altered = {}
    /\ g.header = [magic |-> TRUE, version |-> TRUE, keyLength |-> w.key,
                   keyHash |-> BytesAt(g, FileHeaderSize, w.key)]
    /\ DOMAIN g.footers = {InnerEOF(w), OuterEOF(w)}
                          \cup (IF w.lookalike THEN {InnerEOF(w) - FileEOFSize} ELSE {})
    /\ g.footers[InnerEOF(w)] = Footer(w.crc, FALSE, BytesAt(g, BodyOffset(w), w.body), 0)
    /\ w.layout = "combined" =>
          g.footers[OuterEOF(w)] = Footer(w.crc, w.sha, BytesAt(g, MetaOffset(w), w.meta), w.meta)
    /\ DOMAIN g.digests = IF w.layout = "combined" /\ w.sha THEN {DigestOffset(w)} ELSE {}
    /\ \A o \in DOMAIN g.digests : g.digests[o] = BytesAt(g, FileHeaderSize, w.key)

\* The parts of what is written follow each other.
LEMMA WrittenOffsets ==
    ASSUME NEW w \in WritingType
    PROVE  /\ w.key \in Nat /\ w.body \in Nat /\ w.meta \in Nat
           /\ BodyOffset(w) = FileHeaderSize + w.key /\ BodyOffset(w) \in Nat
           /\ InnerEOF(w) = FileHeaderSize + w.key + w.body /\ InnerEOF(w) \in Nat
           /\ MetaOffset(w) = InnerEOF(w) + FileEOFSize /\ MetaOffset(w) \in Nat
           /\ DigestOffset(w) = InnerEOF(w) + FileEOFSize + w.meta /\ DigestOffset(w) \in Nat
           /\ OuterEOF(w) \in Nat
           /\ w.layout = "combined" => /\ OuterEOF(w) >= InnerEOF(w) + FileEOFSize + w.meta
                                       /\ w.sha => OuterEOF(w) = DigestOffset(w) + SHASize
                                       /\ ~w.sha => OuterEOF(w) = DigestOffset(w)
           /\ w.layout # "combined" => OuterEOF(w) = InnerEOF(w)
           /\ w.layout \in {"combined", "stream2"} /\ w.sha \in BOOLEAN
<1>1. /\ w.key \in Nat /\ w.body \in Nat /\ w.meta \in Nat
      /\ w.layout \in {"combined", "stream2"} /\ w.sha \in BOOLEAN
    BY DEF WritingType
<1>2. FileHeaderSize \in Nat /\ FileEOFSize \in Nat /\ SHASize \in Nat
    BY SizesAssumption
<1>3. BodyOffset(w) = FileHeaderSize + w.key /\ BodyOffset(w) \in Nat
    BY <1>1, <1>2 DEF BodyOffset
<1>4. InnerEOF(w) = FileHeaderSize + w.key + w.body /\ InnerEOF(w) \in Nat
    BY <1>1, <1>2, <1>3 DEF InnerEOF
<1>5. MetaOffset(w) = InnerEOF(w) + FileEOFSize /\ MetaOffset(w) \in Nat
    BY <1>2, <1>4 DEF MetaOffset
<1>6. DigestOffset(w) = InnerEOF(w) + FileEOFSize + w.meta /\ DigestOffset(w) \in Nat
    BY <1>1, <1>2, <1>4, <1>5 DEF DigestOffset
<1>7. /\ OuterEOF(w) \in Nat
      /\ w.layout = "combined" => /\ OuterEOF(w) >= InnerEOF(w) + FileEOFSize + w.meta
                                  /\ w.sha => OuterEOF(w) = DigestOffset(w) + SHASize
                                  /\ ~w.sha => OuterEOF(w) = DigestOffset(w)
      /\ w.layout # "combined" => OuterEOF(w) = InnerEOF(w)
    BY <1>1, <1>2, <1>4, <1>6 DEF OuterEOF
<1>8. QED
    BY <1>1, <1>3, <1>4, <1>5, <1>6, <1>7

\* Files of the same size whose bytes have the same origin hold the same bytes.
LEMMA SameBytes ==
    ASSUME NEW f, NEW g, f.size = g.size, f.id = g.id, f.altered = g.altered,
           NEW offset, NEW length
    PROVE  BytesAt(f, offset, length) = BytesAt(g, offset, length)
    BY DEF BytesAt

\* What is written is as it was written.
LEMMA WrittenFacts ==
    ASSUME NEW w \in WritingType, NEW id
    PROVE  /\ AsWritten(Written(w, id), w)
           /\ Written(w, id).id = id /\ Written(w, id).of = w /\ Written(w, id).damage = 0
<1> DEFINE blank == [id |-> id, of |-> w, damage |-> 0, size |-> OuterEOF(w) + FileEOFSize,
                     altered |-> {}]
           body == BytesAt(blank, BodyOffset(w), w.body)
           meta == BytesAt(blank, MetaOffset(w), w.meta)
           key == BytesAt(blank, FileHeaderSize, w.key)
           header == [magic |-> TRUE, version |-> TRUE, keyLength |-> w.key, keyHash |-> key]
           lookalikes == IF w.lookalike THEN {InnerEOF(w) - FileEOFSize} ELSE {}
           footers == [o \in {InnerEOF(w), OuterEOF(w)} \cup lookalikes |->
                        IF o = InnerEOF(w) THEN Footer(w.crc, FALSE, body, 0)
                        ELSE IF o = OuterEOF(w) THEN Footer(w.crc, w.sha, meta, w.meta)
                        ELSE Footer(FALSE, FALSE, Garbage, 0)]
           digests == [o \in IF w.layout = "combined" /\ w.sha THEN {DigestOffset(w)} ELSE {}
                        |-> key]
           g == Written(w, id)
<1>1. g = [id |-> id, of |-> w, damage |-> 0, size |-> OuterEOF(w) + FileEOFSize,
           altered |-> {}, header |-> header, footers |-> footers, digests |-> digests]
    BY DEF Written
<1>2. blank.size = OuterEOF(w) + FileEOFSize /\ blank.id = id /\ blank.altered = {}
    OBVIOUS
<1> HIDE DEF header, footers, digests, g, blank
<1>3. /\ g.id = id /\ g.of = w /\ g.damage = 0 /\ g.size = OuterEOF(w) + FileEOFSize
      /\ g.altered = {} /\ g.header = header /\ g.footers = footers /\ g.digests = digests
    BY <1>1
<1>4. ASSUME NEW offset, NEW length
      PROVE  BytesAt(blank, offset, length) = BytesAt(g, offset, length)
    <2>1. blank.size = g.size /\ blank.id = g.id /\ blank.altered = g.altered
        BY <1>2, <1>3
    <2>2. QED
        BY <2>1, SameBytes
<1> HIDE DEF body, meta, key, lookalikes
<1>5. /\ DOMAIN footers = {InnerEOF(w), OuterEOF(w)} \cup lookalikes
      /\ footers[InnerEOF(w)] = Footer(w.crc, FALSE, body, 0)
      /\ OuterEOF(w) # InnerEOF(w) =>
             footers[OuterEOF(w)] = Footer(w.crc, w.sha, meta, w.meta)
    BY DEF footers
<1>6. w.layout = "combined" => OuterEOF(w) # InnerEOF(w)
    BY WrittenOffsets, SizesAssumption
<1>7. /\ DOMAIN digests = IF w.layout = "combined" /\ w.sha THEN {DigestOffset(w)} ELSE {}
      /\ \A o \in DOMAIN digests : digests[o] = key
    BY DEF digests
<1>8. /\ body = BytesAt(g, BodyOffset(w), w.body) /\ meta = BytesAt(g, MetaOffset(w), w.meta)
      /\ key = BytesAt(g, FileHeaderSize, w.key)
    BY <1>4 DEF body, meta, key
<1>9. g.header = [magic |-> TRUE, version |-> TRUE, keyLength |-> w.key,
                  keyHash |-> BytesAt(g, FileHeaderSize, w.key)]
    BY <1>3, <1>8 DEF header
<1>10. DOMAIN g.footers = {InnerEOF(w), OuterEOF(w)}
                          \cup (IF w.lookalike THEN {InnerEOF(w) - FileEOFSize} ELSE {})
    BY <1>3, <1>5 DEF lookalikes
<1>11. /\ g.footers[InnerEOF(w)] = Footer(w.crc, FALSE, BytesAt(g, BodyOffset(w), w.body), 0)
       /\ w.layout = "combined" =>
            g.footers[OuterEOF(w)] = Footer(w.crc, w.sha, BytesAt(g, MetaOffset(w), w.meta), w.meta)
    BY <1>3, <1>5, <1>6, <1>8
<1>12. AsWritten(g, w)
    BY <1>3, <1>7, <1>8, <1>9, <1>10, <1>11 DEF AsWritten
<1>13. QED
    BY <1>3, <1>12 DEF g

\* What each damage leaves of a file, and what it changes.
Spared(f, g) == f.id = g.id /\ f.of = g.of /\ f.damage = g.damage + 1

AlteredAt(f, g, o) ==
    /\ o \in FileHeaderSize .. g.size - 1 /\ Spared(f, g)
    /\ f.size = g.size /\ f.header = g.header /\ f.altered = g.altered \cup {o}
    /\ DOMAIN f.footers = {e \in DOMAIN g.footers : o < e \/ e + FileEOFSize <= o}
    /\ \A e \in DOMAIN f.footers : f.footers[e] = g.footers[e]
    /\ DOMAIN f.digests = {e \in DOMAIN g.digests : o < e \/ e + SHASize <= o}

CutAt(f, g) ==
    /\ Spared(f, g) /\ f.size \in 0 .. g.size - 1
    /\ DOMAIN f.footers \subseteq DOMAIN g.footers
    /\ \A e \in DOMAIN f.footers : f.footers[e] = g.footers[e]

FooterChanged(f, g, e, lengths) ==
    /\ Spared(f, g) /\ f.size = g.size /\ f.header = g.header /\ f.altered = g.altered
    /\ e \in DOMAIN g.footers /\ DOMAIN f.footers = DOMAIN g.footers /\ f.digests = g.digests
    /\ f.footers[e] \in FooterVariants(g.footers[e], lengths)
    /\ \A d \in DOMAIN g.footers \ {e} : f.footers[d] = g.footers[d]

HeaderChanged(f, g, lengths) ==
    /\ Spared(f, g) /\ f.size = g.size /\ f.altered = g.altered
    /\ f.footers = g.footers /\ f.digests = g.digests
    /\ f.header \in HeaderVariants(g.header, lengths)

OneDamage(f, g, lengths) == \/ \E o \in Int : AlteredAt(f, g, o)
                            \/ CutAt(f, g)
                            \/ \E e \in DOMAIN g.footers : FooterChanged(f, g, e, lengths)
                            \/ HeaderChanged(f, g, lengths)

\* Every file one damage away from a written one is one of these.
LEMMA DamagesFacts ==
    ASSUME NEW w \in WritingType, NEW id, NEW lengths, NEW f \in Damages(Written(w, id), lengths)
    PROVE  OneDamage(f, Written(w, id), lengths)
<1>1. PICK s, h, F, D : Written(w, id) = [id |-> id, of |-> w, damage |-> 0, size |-> s,
                                          altered |-> {}, header |-> h, footers |-> F,
                                          digests |-> D]
    BY DEF Written
<1> DEFINE g == [id |-> id, of |-> w, damage |-> 0, size |-> s, altered |-> {}, header |-> h,
                 footers |-> F, digests |-> D]
           d == [id |-> id, of |-> w, damage |-> 1, size |-> s, altered |-> {}, header |-> h,
                 footers |-> F, digests |-> D]
<1>2. Written(w, id) = g
    BY <1>1
<1>3. Damaged(g) = d
    BY DEF Damaged
<1> HIDE DEF d
<1>4. s \in Nat
    <2>1. AsWritten(g, w)
        BY <1>2, WrittenFacts
    <2>2. s = OuterEOF(w) + FileEOFSize
        BY <2>1 DEF AsWritten
    <2>3. QED
        BY <2>2, WrittenOffsets, SizesAssumption
<1>5. ASSUME NEW o \in FileHeaderSize .. g.size - 1, f = Altered(g, o)
      PROVE  AlteredAt(f, g, o) /\ o \in Int
    <2> DEFINE Fs == {e \in DOMAIN F : o < e \/ e + FileEOFSize <= o}
               Ds == {e \in DOMAIN D : o < e \/ e + SHASize <= o}
    <2>1. f = [d EXCEPT !.altered = {} \cup {o}, !.footers = Restrict(F, Fs),
                        !.digests = Restrict(D, Ds)]
        <3>1. f = [d EXCEPT
                !.altered = d.altered \cup {o},
                !.footers = Restrict(d.footers, {e \in DOMAIN d.footers :
                                                    o < e \/ e + FileEOFSize <= o}),
                !.digests = Restrict(d.digests, {e \in DOMAIN d.digests :
                                                    o < e \/ e + SHASize <= o})]
            BY <1>5, <1>3 DEF Altered
        <3>2. d.altered = {} /\ d.footers = F /\ d.digests = D
            BY DEF d
        <3>3. QED
            BY <3>1, <3>2
    <2>2. /\ DOMAIN Restrict(F, Fs) = Fs /\ DOMAIN Restrict(D, Ds) = Ds
          /\ \A e \in Fs : Restrict(F, Fs)[e] = F[e]
        BY DEF Restrict
    <2>3. o \in Int
        BY <1>4, SizesAssumption
    <2> HIDE DEF Fs, Ds
    <2>4. /\ f.id = id /\ f.of = w /\ f.damage = 1 /\ f.size = s /\ f.altered = {} \cup {o}
          /\ f.header = h /\ f.footers = Restrict(F, Fs) /\ f.digests = Restrict(D, Ds)
        BY <2>1 DEF d
    <2>5. DOMAIN f.footers = Fs /\ DOMAIN f.digests = Ds
          /\ \A e \in DOMAIN f.footers : f.footers[e] = F[e]
        BY <2>2, <2>4
    <2>6. QED
        BY <2>3, <2>4, <2>5 DEF AlteredAt, Spared, Fs, Ds
<1>6. ASSUME NEW n \in 0 .. g.size - 1, f = Cut(g, n)
      PROVE  CutAt(f, g)
    <2> DEFINE Fs == {e \in DOMAIN F : e + FileEOFSize <= n}
               Ds == {e \in DOMAIN D : e + SHASize <= n}
    <2>1. f = [d EXCEPT !.size = n, !.footers = Restrict(F, Fs), !.digests = Restrict(D, Ds)]
        <3>1. f = [d EXCEPT
                !.size = n,
                !.footers = Restrict(d.footers, {e \in DOMAIN d.footers : e + FileEOFSize <= n}),
                !.digests = Restrict(d.digests, {e \in DOMAIN d.digests : e + SHASize <= n})]
            BY <1>6, <1>3 DEF Cut
        <3>2. d.footers = F /\ d.digests = D
            BY DEF d
        <3>3. QED
            BY <3>1, <3>2
    <2>2. DOMAIN Restrict(F, Fs) = Fs /\ \A e \in Fs : Restrict(F, Fs)[e] = F[e]
        BY DEF Restrict
    <2>3. Fs \subseteq DOMAIN F
        OBVIOUS
    <2> HIDE DEF Fs, Ds
    <2>4. /\ f.id = id /\ f.of = w /\ f.damage = 1 /\ f.size = n /\ f.footers = Restrict(F, Fs)
        BY <2>1 DEF d
    <2>5. QED
        BY <2>2, <2>3, <2>4 DEF CutAt, Spared
<1>7. ASSUME NEW e \in DOMAIN g.footers, NEW v \in FooterVariants(g.footers[e], lengths),
             f = [Damaged(g) EXCEPT !.footers[e] = v]
      PROVE  FooterChanged(f, g, e, lengths)
    <2>1. f = [d EXCEPT !.footers = [F EXCEPT ![e] = v]]
        <3>1. f = [d EXCEPT !.footers = [d.footers EXCEPT ![e] = v]]
            BY <1>7, <1>3
        <3>2. d.footers = F
            BY DEF d
        <3>3. QED
            BY <3>1, <3>2
    <2>2. /\ DOMAIN [F EXCEPT ![e] = v] = DOMAIN F /\ [F EXCEPT ![e] = v][e] = v
          /\ \A c \in DOMAIN F \ {e} : [F EXCEPT ![e] = v][c] = F[c]
        BY <1>7
    <2>3. /\ f.id = id /\ f.of = w /\ f.damage = 1 /\ f.size = s /\ f.altered = {}
          /\ f.header = h /\ f.footers = [F EXCEPT ![e] = v] /\ f.digests = D
        BY <2>1 DEF d
    <2>4. /\ g.id = id /\ g.of = w /\ g.damage = 0 /\ g.size = s /\ g.altered = {}
          /\ g.header = h /\ g.footers = F /\ g.digests = D
        OBVIOUS
    <2> HIDE DEF g
    <2>5. e \in DOMAIN g.footers /\ v \in FooterVariants(g.footers[e], lengths)
        BY <1>7
    <2>6. /\ DOMAIN f.footers = DOMAIN g.footers /\ f.footers[e] = v
          /\ \A c \in DOMAIN g.footers \ {e} : f.footers[c] = g.footers[c]
        BY <2>2, <2>3, <2>4
    <2>7. Spared(f, g)
        BY <2>3, <2>4 DEF Spared
    <2>8. QED
        BY <2>3, <2>4, <2>5, <2>6, <2>7 DEF FooterChanged
<1>8. ASSUME NEW v \in HeaderVariants(g.header, lengths), f = [Damaged(g) EXCEPT !.header = v]
      PROVE  HeaderChanged(f, g, lengths)
    <2>1. f = [d EXCEPT !.header = v]
        BY <1>8, <1>3
    <2>2. /\ f.id = id /\ f.of = w /\ f.damage = 1 /\ f.size = s /\ f.altered = {}
          /\ f.header = v /\ f.footers = F /\ f.digests = D
        BY <2>1 DEF d
    <2>3. QED
        BY <1>8, <2>2 DEF HeaderChanged, Spared
<1>9. f \in Damages(g, lengths)
    BY <1>2
<1> HIDE DEF g
<1>10. OneDamage(f, g, lengths)
    <2>1. \/ \E o \in FileHeaderSize .. g.size - 1 : f = Altered(g, o)
          \/ \E n \in 0 .. g.size - 1 : f = Cut(g, n)
          \/ \E e \in DOMAIN g.footers : \E v \in FooterVariants(g.footers[e], lengths) :
                 f = [Damaged(g) EXCEPT !.footers[e] = v]
          \/ \E v \in HeaderVariants(g.header, lengths) : f = [Damaged(g) EXCEPT !.header = v]
        BY <1>9, SMTT(40) DEF Damages
    <2>2. QED
        BY <1>5, <1>6, <1>7, <1>8, <2>1 DEF OneDamage
<1>11. QED
    BY <1>2, <1>10

-----------------------------------------------------------------------------
(* A file that is read without a warning is unharmed.                       *)

\* The footers and the header of what was written, field by field.
LEMMA WrittenFields ==
    ASSUME NEW w \in WritingType, NEW g, AsWritten(g, w), w.crc, ~w.lookalike
    PROVE  /\ DOMAIN g.footers = {InnerEOF(w), OuterEOF(w)}
           /\ g.size \in Nat /\ g.size - FileEOFSize = OuterEOF(w)
           /\ LET i == g.footers[InnerEOF(w)]
              IN /\ i.streamSize = 0 /\ i.hasSHA = FALSE /\ i.hasCRC = TRUE
                 /\ i.crc = BytesAt(g, BodyOffset(w), w.body)
           /\ w.layout = "combined" =>
                 LET o == g.footers[OuterEOF(w)]
                 IN /\ o.streamSize = w.meta /\ o.hasSHA = w.sha /\ o.hasCRC = TRUE
                    /\ o.crc = BytesAt(g, MetaOffset(w), w.meta)
           /\ g.header.keyLength = w.key /\ g.header.keyHash = BytesAt(g, FileHeaderSize, w.key)
           /\ DOMAIN g.digests \subseteq {DigestOffset(w)}
<1>1. g.size = OuterEOF(w) + FileEOFSize
    BY DEF AsWritten
<1>2. g.size \in Nat /\ g.size - FileEOFSize = OuterEOF(w)
    BY <1>1, WrittenOffsets, SizesAssumption
<1>3. DOMAIN g.footers = {InnerEOF(w), OuterEOF(w)}
    BY DEF AsWritten
<1>4. w.crc = TRUE
    BY DEF WritingType
<1>5. g.footers[InnerEOF(w)] = Footer(w.crc, FALSE, BytesAt(g, BodyOffset(w), w.body), 0)
    BY DEF AsWritten
<1>6. w.layout = "combined" =>
          g.footers[OuterEOF(w)] = Footer(w.crc, w.sha, BytesAt(g, MetaOffset(w), w.meta), w.meta)
    BY DEF AsWritten
<1>7. g.header = [magic |-> TRUE, version |-> TRUE, keyLength |-> w.key,
                  keyHash |-> BytesAt(g, FileHeaderSize, w.key)]
    BY DEF AsWritten
<1>8. DOMAIN g.digests \subseteq {DigestOffset(w)}
    BY DEF AsWritten
<1>9. QED
    BY <1>2, <1>3, <1>4, <1>5, <1>6, <1>7, <1>8 DEF Footer

\* Bytes one of which is altered are not the bytes they were.
LEMMA AlteredShows ==
    ASSUME NEW f, NEW g, NEW o \in Int, f.size = g.size, f.size \in Nat,
           f.altered = g.altered \cup {o}, g.altered = {},
           NEW offset \in Nat, NEW length \in Nat, offset + length <= f.size,
           offset <= o, o < offset + length
    PROVE  BytesAt(f, offset, length) # BytesAt(g, offset, length)
<1> DEFINE read(h) == {e \in h.altered : offset <= e /\ e < offset + length}
<1>1. length > 0 /\ ~(f.size - offset < length) /\ ~(g.size - offset < length)
    OBVIOUS
<1>2. /\ BytesAt(f, offset, length) = [entry |-> f.id, offset |-> offset, length |-> length,
                                      altered |-> read(f)]
      /\ BytesAt(g, offset, length) = [entry |-> g.id, offset |-> offset, length |-> length,
                                      altered |-> read(g)]
    BY <1>1 DEF BytesAt
<1>3. o \in read(f) /\ o \notin read(g)
    OBVIOUS
<1> HIDE DEF read
<1>4. read(f) # read(g)
    BY <1>3
<1>5. QED
    BY <1>2, <1>4

\* Bytes of different lengths differ.
LEMMA LengthShows ==
    ASSUME NEW f, NEW g, f.size = g.size, f.size \in Nat, NEW offset \in Nat,
           NEW m \in Nat, NEW n \in Nat, offset + m <= f.size, offset + n <= f.size,
           BytesAt(f, offset, m) = BytesAt(g, offset, n)
    PROVE  m = n
<1>1. /\ BytesAt(f, offset, m).length = m
      /\ BytesAt(g, offset, n).length = n
    BY DEF BytesAt, Nothing
<1>2. QED
    BY <1>1

\* A stream-2 file is never read as a combined one without a telling name: there
\* is no footer where stream 1 would end.
LEMMA NoInnerFooter ==
    ASSUME NEW w \in WritingType, NEW f, IsFile(f), f.size \in Int,
           LastOf(f).streamSize \in Nat, DOMAIN f.footers \subseteq {f.size - FileEOFSize}
    PROVE  ~CleanCombined(f)
<1>1. InnerOf(f) < f.size - FileEOFSize
    BY SizesAssumption DEF InnerOf
<1>2. InnerOf(f) \notin DOMAIN f.footers
    <2> DEFINE i == InnerOf(f)
               e == f.size - FileEOFSize
    <2>1. e \in Int /\ i < e /\ i \in Int
        BY <1>1, SizesAssumption DEF InnerOf
    <2> HIDE DEF i, e
    <2>2. i # e
        BY <2>1
    <2>3. QED
        BY <2>2 DEF i, e
<1>3. QED
    BY <1>2 DEF CleanCombined

\* The last footer of a file is a footer, if there is one.
LEMMA LastTyped ==
    ASSUME NEW f, IsFile(f), CleanHeader(f)
    PROVE  /\ LastOf(f) \in FooterType /\ LastOf(f).streamSize \in Nat
           /\ LastOf(f).hasSHA \in BOOLEAN /\ f.size \in Nat /\ f.header \in HeaderType
           /\ f.header.keyLength \in Nat
<1>1. LastOf(f) \in FooterType /\ f.size \in Nat /\ f.header \in HeaderType
    BY DEF IsFile, CleanHeader, LastOf
<1>2. QED
    BY <1>1 DEF FooterType, HeaderType

\* What was written is unharmed.
LEMMA IntactUnharmed ==
    ASSUME NEW w \in WritingType, NEW g, AsWritten(g, w), IsFile(g), w.crc, ~w.lookalike
    PROVE  /\ CleanCombined(g) => w.layout = "combined" /\ Unharmed(g, g, w)
           /\ CleanStream2(g) /\ w.layout = "stream2" => Unharmed(g, g, w)
<1>1. /\ g.size - FileEOFSize = OuterEOF(w) /\ g.header.keyLength = w.key
      /\ DOMAIN g.footers = {InnerEOF(w), OuterEOF(w)}
    BY WrittenFields
<1>2. w.layout = "combined" => LastOf(g).streamSize = w.meta /\ LastOf(g).hasSHA = w.sha
    BY <1>1, WrittenFields DEF LastOf
<1>3. Unharmed(g, g, w)
    BY <1>1, <1>2 DEF Unharmed
<1>4. ASSUME CleanCombined(g) PROVE w.layout = "combined"
    <2> SUFFICES ASSUME w.layout # "combined" PROVE FALSE
        OBVIOUS
    <2>1. InnerEOF(w) = OuterEOF(w)
        BY WrittenOffsets
    <2>2. DOMAIN g.footers \subseteq {g.size - FileEOFSize}
        BY <1>1, <2>1
    <2>3. LastOf(g).streamSize \in Nat /\ g.size \in Int
        BY <1>4, LastTyped DEF CleanCombined
    <2>4. QED
        BY <1>4, <2>2, <2>3, NoInnerFooter
<1>5. QED
    BY <1>3, <1>4

\* A cut leaves no file that is read without a warning.
LEMMA CutShows ==
    ASSUME NEW w \in WritingType, NEW g, AsWritten(g, w), w.crc, ~w.lookalike,
           NEW f, IsFile(f), CutAt(f, g)
    PROVE  /\ ~CleanCombined(f)
           /\ ~(CleanStream2(f) /\ w.layout = "stream2")
<1> DEFINE i == InnerEOF(w)
           o == OuterEOF(w)
           e == f.size - FileEOFSize
<1>1. /\ DOMAIN f.footers \subseteq {i, o} /\ g.size - FileEOFSize = o /\ g.size \in Nat
      /\ f.size < g.size /\ f.size \in Nat
      /\ \A d \in DOMAIN f.footers : f.footers[d] = g.footers[d]
      /\ g.footers[i].streamSize = 0 /\ g.footers[i].hasSHA = FALSE
    <2>1. /\ DOMAIN g.footers = {i, o} /\ g.size - FileEOFSize = o /\ g.size \in Nat
          /\ g.footers[i].streamSize = 0 /\ g.footers[i].hasSHA = FALSE
        BY WrittenFields
    <2>2. f.size \in Nat /\ f.size \in 0 .. g.size - 1 /\ DOMAIN f.footers \subseteq DOMAIN g.footers
        BY DEF CutAt, IsFile
    <2>3. f.size < g.size
        BY <2>1, <2>2
    <2>4. \A d \in DOMAIN f.footers : f.footers[d] = g.footers[d]
        BY DEF CutAt
    <2>5. QED
        BY <2>1, <2>2, <2>3, <2>4
<1>2. i \in Nat /\ o \in Nat /\ e \in Int /\ e < o
    BY <1>1, WrittenOffsets, SizesAssumption
<1> HIDE DEF i, o, e
<1>3. ASSUME e \in DOMAIN f.footers PROVE e = i
    <2>1. e \in {i, o}
        BY <1>1, <1>3
    <2>2. QED
        BY <1>2, <2>1
<1>4. ASSUME CleanCombined(f) PROVE FALSE
    <2>1. e \in DOMAIN f.footers
        BY <1>4 DEF CleanCombined, CleanHeader, e
    <2>2. LastOf(f) = g.footers[i]
        BY <1>1, <1>3, <2>1 DEF LastOf, e
    <2>3. InnerOf(f) = e - FileEOFSize
        BY <1>1, <2>2, SizesAssumption DEF InnerOf, e
    <2>4. InnerOf(f) < e /\ InnerOf(f) \in Int
        BY <1>2, <2>3, SizesAssumption
    <2>5. InnerOf(f) \in {i, o}
        BY <1>1, <1>4 DEF CleanCombined
    <2>6. QED
        BY <1>2, <1>3, <2>1, <2>4, <2>5
<1>5. ASSUME CleanStream2(f), w.layout = "stream2" PROVE FALSE
    <2>1. e \in DOMAIN f.footers
        BY <1>5 DEF CleanStream2, CleanHeader, e
    <2>2. o = i
        BY <1>5, WrittenOffsets DEF i, o
    <2>3. QED
        BY <1>2, <1>3, <2>1, <2>2
<1>6. QED
    BY <1>4, <1>5

\* Nor does an altered byte: it lies in the key, in a stream, in the digest of the
\* key or in a footer, and each of these is checked.
LEMMA AlterationShows ==
    ASSUME NEW w \in WritingType, NEW g, AsWritten(g, w), w.crc, ~w.lookalike,
           NEW f, IsFile(f), NEW o \in Int, AlteredAt(f, g, o)
    PROVE  /\ ~CleanCombined(f)
           /\ ~(CleanStream2(f) /\ w.layout = "stream2")
<1> DEFINE I == InnerEOF(w)
           O == OuterEOF(w)
<1>1. /\ w.key \in Nat /\ w.body \in Nat /\ w.meta \in Nat /\ w.sha \in BOOLEAN
      /\ FileHeaderSize \in Nat /\ FileEOFSize \in Nat \ {0} /\ SHASize \in Nat \ {0}
      /\ I = FileHeaderSize + w.key + w.body /\ BodyOffset(w) = FileHeaderSize + w.key
      /\ MetaOffset(w) = I + FileEOFSize /\ DigestOffset(w) = I + FileEOFSize + w.meta
      /\ I \in Nat /\ O \in Nat
    BY WrittenOffsets, SizesAssumption
<1>2. /\ f.size = g.size /\ f.header = g.header /\ f.altered = g.altered \cup {o}
      /\ g.altered = {} /\ g.size = O + FileEOFSize /\ f.size \in Nat
      /\ FileHeaderSize <= o /\ o < O + FileEOFSize
    <2>1. /\ f.size = g.size /\ f.header = g.header /\ f.altered = g.altered \cup {o}
          /\ o \in FileHeaderSize .. g.size - 1
        BY DEF AlteredAt
    <2>2. g.altered = {} /\ g.size = O + FileEOFSize
        BY DEF AsWritten
    <2>3. g.size \in Nat
        BY <1>1, <2>2
    <2>4. FileHeaderSize <= o /\ o <= g.size - 1
        BY <1>1, <2>1, <2>3
    <2>5. QED
        BY <1>1, <2>1, <2>2, <2>3, <2>4
<1>3. /\ \A e \in DOMAIN f.footers : /\ e \in {I, O} /\ f.footers[e] = g.footers[e]
                                     /\ o < e \/ e + FileEOFSize <= o
      /\ \A e \in DOMAIN f.digests : e = DigestOffset(w) /\ (o < e \/ e + SHASize <= o)
    <2>1. DOMAIN g.footers = {I, O} /\ DOMAIN g.digests \subseteq {DigestOffset(w)}
        BY WrittenFields
    <2>2. QED
        BY <2>1 DEF AlteredAt
<1>4. /\ g.footers[I].streamSize = 0 /\ g.footers[I].hasSHA = FALSE /\ g.footers[I].hasCRC = TRUE
      /\ g.footers[I].crc = BytesAt(g, BodyOffset(w), w.body)
    BY WrittenFields
<1>5. w.layout = "combined" =>
         /\ g.footers[O].streamSize = w.meta /\ g.footers[O].hasSHA = w.sha
         /\ g.footers[O].hasCRC = TRUE /\ g.footers[O].crc = BytesAt(g, MetaOffset(w), w.meta)
         /\ O >= I + FileEOFSize + w.meta
         /\ w.sha => O = I + FileEOFSize + w.meta + SHASize
         /\ ~w.sha => O = I + FileEOFSize + w.meta
    BY <1>1, WrittenFields, WrittenOffsets
<1>6. w.layout # "combined" => O = I
    BY WrittenOffsets
<1>7. f.header.keyLength = w.key /\ f.header.keyHash = BytesAt(g, FileHeaderSize, w.key)
    BY <1>2, WrittenFields
<1> HIDE DEF I, O
<1>8. ASSUME NEW offset \in Nat, NEW length \in Nat, offset + length <= f.size,
             BytesAt(f, offset, length) = BytesAt(g, offset, length)
      PROVE  o < offset \/ o >= offset + length
    BY <1>2, <1>8, AlteredShows
<1>9. ASSUME CleanHeader(f)
      PROVE  /\ O \in DOMAIN f.footers /\ o < O /\ LastOf(f) = g.footers[O]
             /\ o >= BodyOffset(w) /\ BaseOf(f) = BodyOffset(w)
    <2>1. f.size - FileEOFSize = O
        BY <1>1, <1>2
    <2>2. O \in DOMAIN f.footers
        BY <1>9, <2>1 DEF CleanHeader
    <2>3. o < O
        BY <1>1, <1>2, <1>3, <2>2
    <2>4. LastOf(f) = g.footers[O]
        BY <1>3, <2>1, <2>2 DEF LastOf
    <2>5. BaseOf(f) = BodyOffset(w)
        BY <1>1, <1>7 DEF BaseOf, BaseOffset
    <2>6. BytesAt(f, FileHeaderSize, w.key) = BytesAt(g, FileHeaderSize, w.key)
        BY <1>7, <1>9 DEF CleanHeader
    <2>7. FileHeaderSize + w.key <= f.size
        <3>1. O >= I
            BY <1>1, <1>5, <1>6
        <3>2. QED
            BY <1>1, <1>2, <3>1
    <2>8. o < FileHeaderSize \/ o >= FileHeaderSize + w.key
        BY <1>1, <1>8, <2>6, <2>7
    <2>9. QED
        BY <1>1, <1>2, <2>2, <2>3, <2>4, <2>5, <2>8
<1>10. ASSUME CleanCombined(f) PROVE FALSE
    <2>1. /\ O \in DOMAIN f.footers /\ o < O /\ LastOf(f) = g.footers[O]
          /\ o >= BodyOffset(w) /\ BaseOf(f) = BodyOffset(w)
        BY <1>9, <1>10 DEF CleanCombined
    <2>2. w.layout = "combined"
        <3> SUFFICES ASSUME w.layout # "combined" PROVE FALSE
            OBVIOUS
        <3>1. DOMAIN f.footers \subseteq {f.size - FileEOFSize}
            BY <1>1, <1>2, <1>3, <1>6
        <3>2. LastOf(f).streamSize \in Nat /\ f.size \in Int
            BY <1>10, LastTyped DEF CleanCombined
        <3>3. QED
            BY <1>10, <3>1, <3>2, NoInnerFooter
    <2>3. InnerOf(f) = I
        <3>1. LastOf(f).streamSize = w.meta /\ LastOf(f).hasSHA = w.sha
            BY <1>5, <2>1, <2>2
        <3>2. QED
            BY <1>1, <1>2, <1>5, <2>2, <3>1 DEF InnerOf
    <2>4. I \in DOMAIN f.footers
        BY <1>10, <2>3 DEF CleanCombined
    <2>5. o < I \/ I + FileEOFSize <= o
        BY <1>3, <2>4
    <2>6. ASSUME o < I PROVE FALSE
        <3>1. f.footers[I] = g.footers[I]
            BY <1>3, <2>4
        <3>2. Fits(g.footers[I], f, BodyOffset(w), I - BodyOffset(w))
            BY <1>10, <2>1, <2>3, <3>1 DEF CleanCombined
        <3>3. I - BodyOffset(w) = w.body
            BY <1>1
        <3>4. BytesAt(f, BodyOffset(w), w.body) = BytesAt(g, BodyOffset(w), w.body)
            BY <1>4, <3>2, <3>3 DEF Fits
        <3>5. BodyOffset(w) + w.body <= f.size /\ BodyOffset(w) \in Nat
            BY <1>1, <1>2, <1>5, <2>2
        <3>6. o < BodyOffset(w) \/ o >= BodyOffset(w) + w.body
            BY <1>1, <1>8, <3>4, <3>5
        <3>7. QED
            BY <1>1, <2>1, <2>6, <3>6
    <2>7. ASSUME I + FileEOFSize <= o PROVE FALSE
        <3>1. Fits(g.footers[O], f, I + FileEOFSize, w.meta)
            <4>1. LastOf(f).streamSize = w.meta
                BY <1>5, <2>1, <2>2
            <4>2. QED
                BY <1>10, <2>1, <2>3, <4>1 DEF CleanCombined
        <3>2. BytesAt(f, MetaOffset(w), w.meta) = BytesAt(g, MetaOffset(w), w.meta)
            BY <1>1, <1>5, <2>2, <3>1 DEF Fits
        <3>3. MetaOffset(w) + w.meta <= f.size /\ MetaOffset(w) \in Nat
            BY <1>1, <1>2, <1>5, <2>2
        <3>4. o < MetaOffset(w) \/ o >= MetaOffset(w) + w.meta
            BY <1>1, <1>8, <3>2, <3>3
        <3>5. o >= DigestOffset(w)
            BY <1>1, <2>7, <3>4
        <3>6. w.sha /\ O = DigestOffset(w) + SHASize
            BY <1>1, <1>5, <2>1, <2>2, <3>5
        <3>7. LastOf(f).hasSHA /\ LastOf(f).streamSize = w.meta
            BY <1>5, <2>1, <2>2, <3>6
        <3>8. DigestOffset(w) \in DOMAIN f.digests
            BY <1>1, <1>10, <2>3, <3>7 DEF CleanCombined
        <3>9. o < DigestOffset(w) \/ DigestOffset(w) + SHASize <= o
            BY <1>3, <3>8
        <3>10. QED
            BY <1>1, <2>1, <3>5, <3>6, <3>9
    <2>8. QED
        BY <2>5, <2>6, <2>7
<1>11. ASSUME CleanStream2(f), w.layout = "stream2" PROVE FALSE
    <2>1. /\ O \in DOMAIN f.footers /\ o < O /\ LastOf(f) = g.footers[O]
          /\ o >= BodyOffset(w) /\ BaseOf(f) = BodyOffset(w)
        BY <1>9, <1>11 DEF CleanStream2
    <2>2. O = I
        BY <1>6, <1>11
    <2>3. Fits(g.footers[I], f, BodyOffset(w), f.size - FileEOFSize - BodyOffset(w))
        BY <1>11, <2>1, <2>2 DEF CleanStream2
    <2>4. f.size - FileEOFSize - BodyOffset(w) = w.body
        BY <1>1, <1>2, <2>2
    <2>5. BytesAt(f, BodyOffset(w), w.body) = BytesAt(g, BodyOffset(w), w.body)
        BY <1>4, <2>3, <2>4 DEF Fits
    <2>6. BodyOffset(w) + w.body <= f.size /\ BodyOffset(w) \in Nat
        BY <1>1, <1>2, <2>2
    <2>7. o < BodyOffset(w) \/ o >= BodyOffset(w) + w.body
        BY <1>1, <1>8, <2>5, <2>6
    <2>8. QED
        BY <1>1, <2>1, <2>2, <2>7
<1>12. QED
    BY <1>10, <1>11

\* A field of a footer that has another value shows, or it is only that a stream
\* goes unchecked.
LEMMA FooterChangeUnharmed ==
    ASSUME NEW w \in WritingType, NEW g, AsWritten(g, w), w.crc, ~w.lookalike,
           NEW f, IsFile(f), NEW lengths, NEW e \in DOMAIN g.footers,
           FooterChanged(f, g, e, lengths)
    PROVE  /\ CleanCombined(f) => w.layout = "combined" /\ Unharmed(f, g, w)
           /\ CleanStream2(f) /\ w.layout = "stream2" => Unharmed(f, g, w)
<1> DEFINE I == InnerEOF(w)
           O == OuterEOF(w)
<1>1. /\ f.size = g.size /\ f.header = g.header /\ f.altered = g.altered
      /\ DOMAIN f.footers = {I, O} /\ g.size - FileEOFSize = O
      /\ f.footers[e] \in FooterVariants(g.footers[e], lengths)
      /\ \A d \in {I, O} \ {e} : f.footers[d] = g.footers[d]
      /\ f.header.keyLength = w.key
    <2>1. DOMAIN g.footers = {I, O} /\ g.size - FileEOFSize = O /\ g.header.keyLength = w.key
        BY WrittenFields
    <2>2. QED
        BY <2>1 DEF FooterChanged
<1>2. I \in Nat /\ O \in Nat /\ FileEOFSize \in Nat \ {0} /\ SHASize \in Nat \ {0}
    BY WrittenOffsets, SizesAssumption
<1>3. CleanStream2(f) /\ w.layout = "stream2" => Unharmed(f, g, w)
    BY <1>1 DEF Unharmed
<1>4. ASSUME CleanCombined(f) PROVE w.layout = "combined" /\ Unharmed(f, g, w)
    <2>1. LastOf(f).streamSize \in Nat /\ LastOf(f).hasSHA \in BOOLEAN /\ f.size \in Int
        BY <1>4, LastTyped DEF CleanCombined
    <2>2. w.layout = "combined"
        <3> SUFFICES ASSUME w.layout # "combined" PROVE FALSE
            OBVIOUS
        <3>1. I = O
            BY WrittenOffsets
        <3>2. DOMAIN f.footers \subseteq {f.size - FileEOFSize}
            BY <1>1, <3>1
        <3>3. QED
            BY <1>4, <2>1, <3>2, NoInnerFooter
    <2>3. /\ g.footers[O].streamSize = w.meta /\ g.footers[O].hasSHA = w.sha
          /\ O >= I + FileEOFSize + w.meta
          /\ w.sha => O = I + FileEOFSize + w.meta + SHASize
          /\ ~w.sha => O = I + FileEOFSize + w.meta
          /\ w.meta \in Nat /\ w.sha \in BOOLEAN
        BY <2>2, WrittenFields, WrittenOffsets
    <2>4. LastOf(f) = f.footers[O] /\ O # I
        BY <1>1, <1>2, <2>3 DEF LastOf
    <2>5. InnerOf(f) = O - FileEOFSize - (IF LastOf(f).hasSHA THEN SHASize ELSE 0)
                       - LastOf(f).streamSize
        BY <1>1, <1>2, <2>1 DEF InnerOf
    <2>6. InnerOf(f) < O /\ InnerOf(f) \in {I, O}
        BY <1>1, <1>2, <1>4, <2>1, <2>5 DEF CleanCombined
    <2>7. InnerOf(f) = I
        BY <1>2, <2>6
    <2>8. LastOf(f).streamSize = w.meta \/ LastOf(f).hasSHA = w.sha
        <3>1. CASE e # O
            BY <1>1, <2>3, <2>4, <3>1
        <3>2. CASE e = O
            <4>1. LastOf(f) \in FooterVariants(g.footers[O], lengths)
                BY <1>1, <2>4, <3>2
            <4>2. \/ \E n \in lengths : LastOf(f) = [g.footers[O] EXCEPT !.streamSize = n]
                  \/ LastOf(f) = [g.footers[O] EXCEPT !.hasCRC = ~@]
                  \/ LastOf(f) = [g.footers[O] EXCEPT !.hasSHA = ~@]
                  \/ LastOf(f) = [g.footers[O] EXCEPT !.unknown = TRUE]
                  \/ LastOf(f) = [g.footers[O] EXCEPT !.crc = Garbage]
                BY <4>1 DEF FooterVariants
            <4>3. LastOf(f).streamSize = g.footers[O].streamSize
                      \/ LastOf(f).hasSHA = g.footers[O].hasSHA
                <5>1. g.footers[O] = Footer(w.crc, w.sha, BytesAt(g, MetaOffset(w), w.meta), w.meta)
                    BY <2>2 DEF AsWritten
                <5>2. QED
                    BY <4>2, <5>1 DEF Footer
            <4>4. QED
                BY <2>3, <4>3
        <3>3. QED
            BY <3>1, <3>2
    <2>9. LastOf(f).streamSize = w.meta /\ LastOf(f).hasSHA = w.sha
        <3> DEFINE n == LastOf(f).streamSize
                   s == LastOf(f).hasSHA
        <3>1. /\ I = O - FileEOFSize - (IF s THEN SHASize ELSE 0) - n
              /\ n \in Nat /\ s \in BOOLEAN /\ (n = w.meta \/ s = w.sha)
            BY <2>1, <2>5, <2>7, <2>8
        <3> HIDE DEF n, s
        <3>2. n = w.meta /\ s = w.sha
            <4>1. CASE n = w.meta
                BY <1>2, <2>3, <3>1, <4>1
            <4>2. CASE s = w.sha
                BY <1>2, <2>3, <3>1, <4>2
            <4>3. QED
                BY <3>1, <4>1, <4>2
        <3>3. QED
            BY <3>2 DEF n, s
    <2>10. QED
        BY <1>1, <2>2, <2>9 DEF Unharmed
<1>5. QED
    BY <1>3, <1>4

\* A field of the header that has another value shows, or it is only that the key
\* is not compared with what it was.
LEMMA HeaderChangeUnharmed ==
    ASSUME NEW w \in WritingType, NEW g, AsWritten(g, w), w.crc, ~w.lookalike,
           NEW f, IsFile(f), NEW lengths, HeaderChanged(f, g, lengths)
    PROVE  /\ CleanCombined(f) => w.layout = "combined" /\ Unharmed(f, g, w)
           /\ CleanStream2(f) /\ w.layout = "stream2" => Unharmed(f, g, w)
<1>1. /\ f.size = g.size /\ f.altered = g.altered /\ f.footers = g.footers
      /\ f.header \in HeaderVariants(g.header, lengths)
    BY DEF HeaderChanged
<1>2. /\ g.size - FileEOFSize = OuterEOF(w) /\ g.size \in Nat
      /\ DOMAIN g.footers = {InnerEOF(w), OuterEOF(w)}
      /\ w.layout = "combined" => /\ g.footers[OuterEOF(w)].streamSize = w.meta
                                  /\ g.footers[OuterEOF(w)].hasSHA = w.sha
    BY WrittenFields
<1>3. ASSUME CleanHeader(f) PROVE f.header.keyLength = w.key
    <2>1. /\ g.header.keyLength = w.key
          /\ g.header.keyHash = BytesAt(g, FileHeaderSize, w.key)
        BY WrittenFields
    <2>2. \/ /\ \E n \in lengths : f.header = [g.header EXCEPT !.keyLength = n]
          \/ f.header = [g.header EXCEPT !.magic = FALSE]
          \/ f.header = [g.header EXCEPT !.version = FALSE]
          \/ f.header = [g.header EXCEPT !.keyHash = Garbage]
        BY <1>1 DEF HeaderVariants
    <2>3. f.header.keyLength = g.header.keyLength \/ f.header.keyHash = g.header.keyHash
        <3>1. g.header = [magic |-> TRUE, version |-> TRUE, keyLength |-> w.key,
                          keyHash |-> BytesAt(g, FileHeaderSize, w.key)]
            BY DEF AsWritten
        <3>2. QED
            BY <2>2, <3>1
    <2>4. ASSUME f.header.keyHash = g.header.keyHash PROVE f.header.keyLength = w.key
        <3>1. /\ BytesAt(f, FileHeaderSize, f.header.keyLength)
                     = BytesAt(g, FileHeaderSize, w.key)
              /\ FileHeaderSize + f.header.keyLength + FileEOFSize <= f.size
            BY <1>3, <2>1, <2>4 DEF CleanHeader, BaseOf, BaseOffset
        <3>2. f.header.keyLength \in Nat /\ f.size \in Nat /\ w.key \in Nat
            BY <1>3, LastTyped, WrittenOffsets
        <3>3. FileHeaderSize \in Nat /\ FileEOFSize \in Nat
            BY SizesAssumption
        <3>4. FileHeaderSize + w.key <= f.size
            <4>1. OuterEOF(w) >= FileHeaderSize + w.key
                BY <3>3, WrittenOffsets
            <4>2. QED
                BY <1>1, <1>2, <3>2, <3>3, <4>1
        <3>5. FileHeaderSize + f.header.keyLength <= f.size
            BY <3>1, <3>2, <3>3
        <3>6. QED
            BY <1>1, <3>1, <3>2, <3>3, <3>4, <3>5, LengthShows
    <2>5. QED
        BY <2>1, <2>3, <2>4
<1>4. w.layout = "combined" => LastOf(f).streamSize = w.meta /\ LastOf(f).hasSHA = w.sha
    BY <1>1, <1>2 DEF LastOf
<1>5. ASSUME CleanCombined(f) PROVE w.layout = "combined"
    <2> SUFFICES ASSUME w.layout # "combined" PROVE FALSE
        OBVIOUS
    <2>1. InnerEOF(w) = OuterEOF(w)
        BY WrittenOffsets
    <2>2. DOMAIN f.footers \subseteq {f.size - FileEOFSize}
        BY <1>1, <1>2, <2>1
    <2>3. LastOf(f).streamSize \in Nat /\ f.size \in Int
        BY <1>5, LastTyped DEF CleanCombined
    <2>4. QED
        BY <1>5, <2>2, <2>3, NoInnerFooter
<1>6. QED
    BY <1>1, <1>3, <1>4, <1>5 DEF Unharmed, CleanCombined, CleanStream2

\* At most one damage of a file with checksums leaves it unharmed, or it is not
\* read without a warning.
LEMMA CleanUnharmed ==
    ASSUME NEW f \in Files, f.of.crc, ~f.of.lookalike
    PROVE  LET w == f.of
               g == Written(w, f.id)
           IN /\ CleanCombined(f) => w.layout = "combined" /\ Unharmed(f, g, w)
              /\ CleanStream2(f) /\ w.layout = "stream2" => Unharmed(f, g, w)
<1> DEFINE w == f.of
           g == Written(w, f.id)
<1>1. IsFile(f) /\ w \in WritingType /\ (f = g \/ f \in Damages(g, Lengths))
    BY FilesAssumption, DamageAssumption
<1>2. AsWritten(g, w) /\ w.crc /\ ~w.lookalike
    BY <1>1, WrittenFacts
<1>3. f = g \/ OneDamage(f, g, Lengths)
    BY <1>1, DamagesFacts
<1> HIDE DEF w, g
<1>4. \/ f = g
      \/ \E o \in Int : AlteredAt(f, g, o)
      \/ CutAt(f, g)
      \/ \E e \in DOMAIN g.footers : FooterChanged(f, g, e, Lengths)
      \/ HeaderChanged(f, g, Lengths)
    BY <1>3 DEF OneDamage
<1>5. /\ CleanCombined(f) => w.layout = "combined" /\ Unharmed(f, g, w)
      /\ CleanStream2(f) /\ w.layout = "stream2" => Unharmed(f, g, w)
    <2>1. CASE f = g
        BY <1>1, <1>2, <2>1, IntactUnharmed
    <2>2. CASE \E o \in Int : AlteredAt(f, g, o)
        BY <1>1, <1>2, <2>2, AlterationShows
    <2>3. CASE CutAt(f, g)
        BY <1>1, <1>2, <2>3, CutShows
    <2>4. CASE \E e \in DOMAIN g.footers : FooterChanged(f, g, e, Lengths)
        BY <1>1, <1>2, <2>4, FooterChangeUnharmed
    <2>5. CASE HeaderChanged(f, g, Lengths)
        BY <1>1, <1>2, <2>5, HeaderChangeUnharmed
    <2>6. QED
        BY <1>4, <2>1, <2>2, <2>3, <2>4, <2>5
<1>6. QED
    BY <1>5 DEF w, g

-----------------------------------------------------------------------------
(* One damage is noticed, or does not matter.                               *)

\* What stands for a missing digest is not what any read gives.
LEMMA NeverGarbage ==
    ASSUME NEW f, NEW offset, NEW length \in Int, f.size - offset \in Int
    PROVE  BytesAt(f, offset, length) # Garbage
<1>1. Nothing # Garbage /\ Garbage.length = 0
    BY DEF Nothing, Garbage
<1> DEFINE there == IF f.size - offset < length THEN f.size - offset ELSE length
<1>2. there \in Int
    OBVIOUS
<1>3. CASE there <= 0
    BY <1>1, <1>3 DEF BytesAt
<1>4. CASE ~(there <= 0)
    <2>1. BytesAt(f, offset, length).length = there
        BY <1>4 DEF BytesAt
    <2>2. there # 0
        BY <1>2, <1>4
    <2>3. QED
        BY <1>1, <2>1, <2>2
<1>5. QED
    BY <1>3, <1>4

\* What has been found, once the last footer has been.
LEMMA AllFound ==
    ASSUME LayoutInv, Undisturbed, changes = 0, AfterLast
    PROVE  /\ size = file.size /\ size \in Nat /\ file.size \in Nat /\ IsFile(file)
           /\ entry.header = file.header /\ HeaderVerdict(file.header) = "ok"
           /\ Base = BaseOf(file) /\ Base \in Nat /\ file.header.keyLength \in Nat
           /\ last = LastOf(file) /\ size - FileEOFSize \in DOMAIN file.footers
           /\ last.streamSize \in Nat /\ SHALength \in Nat /\ last.hasSHA \in BOOLEAN
           /\ FileHeaderSize \in Nat /\ FileEOFSize \in Nat /\ SHASize \in Nat
<1>1. TypeOK /\ StepsInOrder
    BY DEF LayoutInv
<1>2. /\ pc # "open" /\ AfterHeader
    BY <1>1 DEF AfterLast, AfterHeader, StepsInOrder
<1>3. /\ size = file.size /\ entry.header = file.header /\ HeaderVerdict(entry.header) = "ok"
      /\ IsEOF(size - FileEOFSize) /\ last = file.footers[size - FileEOFSize]
    BY <1>2 DEF Undisturbed, HeaderFound, LastFound
<1>4. entry.header \in HeaderType /\ last \in FooterType
    BY <1>1 DEF TypeOK, EntryType
<1>5. entry.header.keyLength \in Nat /\ last.hasSHA \in BOOLEAN
    BY <1>4 DEF HeaderType, FooterType
<1>6. QED
    BY <1>1, <1>3, <1>5, SizesTyped, BaseTyped DEF BaseOf, Base, LastOf, IsEOF

\* The end of stream 1 is where the lengths of the file say.
LEMMA InnerFound ==
    ASSUME LayoutInv, Undisturbed, changes = 0, AfterLast, DOMAIN streams = {0, 1}
    PROVE  /\ streams[1].eof = InnerOf(file) /\ streams[1].offset = BaseOf(file)
           /\ streams[1].length = InnerOf(file) - BaseOf(file) /\ BaseOf(file) <= InnerOf(file)
           /\ streams[0].offset = InnerOf(file) + FileEOFSize
           /\ streams[0].length = LastOf(file).streamSize
           /\ BaseOf(file) + FileEOFSize <= file.size
           /\ streams[0].offset \in Nat /\ streams[0].length \in Nat
           /\ streams[1].offset \in Nat /\ streams[1].length \in Nat
<1>1. /\ size = file.size /\ file.size \in Nat /\ Base = BaseOf(file) /\ Base \in Nat
      /\ last = LastOf(file) /\ last.streamSize \in Nat /\ last.hasSHA \in BOOLEAN
      /\ FileEOFSize \in Nat /\ SHASize \in Nat
    BY AllFound
<1>2. streams[0].length = last.streamSize
    BY DEF Undisturbed, CombinedFound
<1>3. /\ streams[1].offset = Base /\ streams[1].length >= 0
      /\ streams[1].eof = streams[1].offset + streams[1].length
      /\ streams[0].offset = streams[1].eof + FileEOFSize
      /\ streams[0].eof = streams[0].offset + streams[0].length + SHALength
      /\ streams[0].eof + FileEOFSize = size
    BY DEF LayoutInv, StreamsTile
<1>4. /\ streams[0].offset \in Nat /\ streams[0].length \in Nat /\ streams[0].eof \in Nat
      /\ streams[1].offset \in Nat /\ streams[1].length \in Nat /\ streams[1].eof \in Nat
    BY CombinedTyped DEF LayoutInv, StreamType
<1>5. SHALength = (IF LastOf(file).hasSHA THEN SHASize ELSE 0)
    BY <1>1 DEF SHALength
<1> DEFINE sha == IF LastOf(file).hasSHA THEN SHASize ELSE 0
<1>6. InnerOf(file) = size - 2 * FileEOFSize - sha - last.streamSize
    BY <1>1 DEF InnerOf
<1>7. sha \in Nat /\ SHALength = sha
    BY <1>1, <1>5
<1> HIDE DEF sha
<1>8. streams[1].eof = InnerOf(file)
    BY <1>1, <1>2, <1>3, <1>4, <1>6, <1>7
<1>9. BaseOf(file) + FileEOFSize <= file.size
    BY <1>1, <1>3, <1>4, <1>7
<1>10. streams[1].length = streams[1].eof - Base /\ Base <= streams[1].eof
    BY <1>1, <1>3, <1>4
<1>11. QED
    BY <1>1, <1>2, <1>3, <1>4, <1>8, <1>9, <1>10

\* So stream 2 is what lies between the key and the last footer.
LEMMA Stream2Placed ==
    ASSUME LayoutInv, Undisturbed, changes = 0, AfterLast, DOMAIN streams = {2}
    PROVE  /\ streams[2].offset = BaseOf(file) /\ BaseOf(file) + FileEOFSize <= file.size
           /\ streams[2].length = file.size - FileEOFSize - BaseOf(file)
           /\ streams[2].offset \in Nat /\ streams[2].length \in Nat
<1>1. /\ size = file.size /\ file.size \in Nat /\ Base = BaseOf(file) /\ Base \in Nat
      /\ FileEOFSize \in Nat
    BY AllFound
<1>2. /\ streams[2].offset = Base /\ streams[2].length >= 0
      /\ streams[2].eof = streams[2].offset + streams[2].length
      /\ streams[2].eof + FileEOFSize = size
    BY DEF LayoutInv, StreamsTile
<1>3. streams[2] \in StreamType
    <2>1. PICK S \in StreamSets : streams \in [S -> StreamType]
        BY DEF LayoutInv, TypeOK
    <2>2. QED
        BY <2>1
<1>4. streams[2].offset \in Nat /\ streams[2].length \in Nat /\ streams[2].eof \in Nat
    BY <1>3 DEF StreamType
<1>5. QED
    BY <1>1, <1>2, <1>4

\* A parse without a warning has found a file that is read without one.
LEMMA CleanFound ==
    ASSUME LayoutInv, Undisturbed, changes = 0, outcome = "ok", entry.warnings = {}
    PROVE  /\ \/ DOMAIN streams = {0, 1} /\ CleanCombined(file)
              \/ DOMAIN streams = {2} /\ CleanStream2(file) /\ suffix = "_1"
           /\ entry.key = BytesAt(file, FileHeaderSize, file.header.keyLength)
<1>1. AfterLast /\ AfterKey /\ ~Warned
    BY DEF AfterLast, AfterKey, Warned
<1>2. /\ size = file.size /\ entry.header = file.header /\ HeaderVerdict(file.header) = "ok"
      /\ last = LastOf(file) /\ size - FileEOFSize \in DOMAIN file.footers
      /\ file.size \in Nat /\ file.header.keyLength \in Nat /\ FileHeaderSize \in Nat
    BY <1>1, AllFound
<1>3. /\ entry.key = BytesAt(file, FileHeaderSize, file.header.keyLength)
      /\ entry.key = file.header.keyHash
    BY <1>1, <1>2 DEF Undisturbed, KeyFound
<1>4. file.header.magic /\ file.header.version
    BY <1>2 DEF HeaderVerdict
<1>5. pc = "done" /\ DOMAIN streams # {} /\ DOMAIN streams \in {{}, {0, 1}, {2}}
    BY DEF LayoutInv, StepsInOrder, TypeOK, StreamSets
<1>6. ASSUME BaseOf(file) + FileEOFSize <= file.size PROVE CleanHeader(file)
    BY <1>2, <1>3, <1>4, <1>6 DEF CleanHeader
<1>7. CASE DOMAIN streams = {0, 1}
    <2> DEFINE inner == file.footers[InnerOf(file)]
    <2>1. /\ streams[1].eof = InnerOf(file) /\ streams[1].offset = BaseOf(file)
          /\ streams[1].length = InnerOf(file) - BaseOf(file) /\ BaseOf(file) <= InnerOf(file)
          /\ streams[0].offset = InnerOf(file) + FileEOFSize
          /\ streams[0].length = LastOf(file).streamSize
          /\ BaseOf(file) + FileEOFSize <= file.size
        BY <1>1, <1>7, InnerFound
    <2>2. /\ InnerOf(file) \in DOMAIN file.footers /\ inner.streamSize = 0
          /\ Describes(LastOf(file), 0) /\ Describes(inner, 1)
          /\ CRCChecked(0) /\ CRCChecked(1)
          /\ LastOf(file).hasSHA =>
               StoredDigest(streams[0].offset + streams[0].length) = entry.key
        BY <1>1, <1>2, <1>5, <1>7, <2>1 DEF Undisturbed, CombinedFound, IsEOF
    <2> HIDE DEF inner
    <2>3. Fits(LastOf(file), file, InnerOf(file) + FileEOFSize, LastOf(file).streamSize)
        BY <1>1, <2>1, <2>2 DEF Fits, Describes, CRCChecked
    <2>4. Fits(inner, file, BaseOf(file), InnerOf(file) - BaseOf(file))
        BY <1>1, <2>1, <2>2 DEF Fits, Describes, CRCChecked
    <2> DEFINE o == InnerOf(file) + FileEOFSize + LastOf(file).streamSize
    <2>5. streams[0].offset + streams[0].length = o
        BY <2>1
    <2> HIDE DEF o
    <2>6. LastOf(file).hasSHA => o \in DOMAIN file.digests /\ file.digests[o] = entry.key
        <3>1. entry.key # Garbage
            <4>1. file.size - FileHeaderSize \in Int /\ file.header.keyLength \in Int
                BY <1>2
            <4>2. QED
                BY <1>3, <4>1, NeverGarbage
        <3>2. QED
            BY <2>2, <2>5, <3>1 DEF StoredDigest
    <2>7. LastOf(file).hasSHA =>
              /\ o \in DOMAIN file.digests
              /\ file.digests[o] = BytesAt(file, FileHeaderSize, file.header.keyLength)
        BY <1>3, <2>6
    <2>8. CleanCombined(file)
        BY <1>6, <2>1, <2>2, <2>3, <2>4, <2>7 DEF CleanCombined, inner, o
    <2>9. QED
        BY <1>3, <1>7, <2>8
<1>8. CASE DOMAIN streams = {2}
    <2>1. /\ streams[2].offset = BaseOf(file) /\ BaseOf(file) + FileEOFSize <= file.size
          /\ streams[2].length = file.size - FileEOFSize - BaseOf(file)
        BY <1>1, <1>8, Stream2Placed
    <2>2. /\ LastOf(file).streamSize = 0 /\ Describes(LastOf(file), 2) /\ CRCChecked(2)
          /\ suffix = "_1"
        BY <1>1, <1>2, <1>5, <1>8 DEF Undisturbed, Stream2Found
    <2>3. Fits(LastOf(file), file, BaseOf(file), file.size - FileEOFSize - BaseOf(file))
        BY <1>1, <2>1, <2>2 DEF Fits, Describes, CRCChecked
    <2>4. CleanStream2(file)
        BY <1>6, <2>1, <2>2, <2>3 DEF CleanStream2
    <2>5. QED
        BY <1>3, <1>8, <2>2, <2>4
<1>9. QED
    BY <1>5, <1>7, <1>8

\* Of an unharmed file the streams are where they were written.
LEMMA Placed ==
    ASSUME LayoutInv, Undisturbed, changes = 0, AfterLast,
           NEW w \in WritingType, NEW g, AsWritten(g, w), Unharmed(file, g, w),
           \/ DOMAIN streams = {0, 1} /\ w.layout = "combined"
           \/ DOMAIN streams = {2} /\ w.layout = "stream2"
    PROVE  /\ w.layout = "combined" =>
                  /\ DOMAIN streams = {0, 1}
                  /\ streams[0].offset = MetaOffset(w) /\ streams[0].length = w.meta
                  /\ streams[1].offset = BodyOffset(w) /\ streams[1].length = w.body
                  /\ streams[1].eof = InnerEOF(w)
           /\ w.layout # "combined" =>
                  /\ DOMAIN streams = {2}
                  /\ streams[2].offset = BodyOffset(w) /\ streams[2].length = w.body
           /\ Regions = WrittenRegions(w)
<1> DEFINE I == InnerEOF(w)
           O == OuterEOF(w)
<1>1. /\ w.key \in Nat /\ w.body \in Nat /\ w.meta \in Nat /\ w.sha \in BOOLEAN
      /\ FileHeaderSize \in Nat /\ FileEOFSize \in Nat \ {0} /\ SHASize \in Nat \ {0}
      /\ I = FileHeaderSize + w.key + w.body /\ BodyOffset(w) = FileHeaderSize + w.key
      /\ MetaOffset(w) = I + FileEOFSize
      /\ w.layout # "combined" => O = I
      /\ w.layout = "combined" /\ w.sha => O = I + FileEOFSize + w.meta + SHASize
      /\ w.layout = "combined" /\ ~w.sha => O = I + FileEOFSize + w.meta
    BY WrittenOffsets, SizesAssumption
<1>2. /\ file.size = O + FileEOFSize /\ file.header.keyLength = w.key
      /\ w.layout = "combined" => LastOf(file).streamSize = w.meta /\ LastOf(file).hasSHA = w.sha
    BY DEF Unharmed, AsWritten
<1>3. BaseOf(file) = BodyOffset(w)
    BY <1>1, <1>2 DEF BaseOf, BaseOffset
<1>4. I \in Nat /\ O \in Nat
    BY WrittenOffsets
<1> HIDE DEF I, O
<1>5. CASE DOMAIN streams = {0, 1} /\ w.layout = "combined"
    <2>1. InnerOf(file) = I
        BY <1>1, <1>2, <1>4, <1>5 DEF InnerOf
    <2>2. /\ streams[0].offset = MetaOffset(w) /\ streams[0].length = w.meta
          /\ streams[1].offset = BodyOffset(w) /\ streams[1].eof = I
          /\ streams[1].length = I - BodyOffset(w)
        BY <1>1, <1>2, <1>3, <1>5, <2>1, InnerFound
    <2>3. streams[1].length = w.body
        BY <1>1, <2>2
    <2>4. Regions = {<<0, streams[0].offset, streams[0].length>>,
                     <<1, streams[1].offset, streams[1].length>>}
        BY <1>5 DEF Regions
    <2>5. Regions = WrittenRegions(w)
        BY <1>5, <2>2, <2>3, <2>4 DEF WrittenRegions
    <2>6. QED
        BY <1>5, <2>2, <2>3, <2>5 DEF I
<1>6. CASE DOMAIN streams = {2} /\ w.layout = "stream2"
    <2>1. /\ streams[2].offset = BodyOffset(w)
          /\ streams[2].length = file.size - FileEOFSize - BodyOffset(w)
        BY <1>3, <1>6, Stream2Placed
    <2>2. streams[2].length = w.body
        BY <1>1, <1>2, <1>4, <1>6, <2>1
    <2>3. Regions = {<<2, streams[2].offset, streams[2].length>>}
        BY <1>6 DEF Regions
    <2>4. Regions = WrittenRegions(w)
        BY <1>6, <2>1, <2>2, <2>3 DEF WrittenRegions
    <2>5. QED
        BY <1>6, <2>1, <2>2, <2>4
<1>7. QED
    BY <1>5, <1>6

\* One damage anywhere in a file with checksums gives an error or a warning, or
\* key and streams are still the ones that were written.
THEOREM DamageIsNoticed == Spec => []DamageNoticed
<1>1. LayoutInv /\ Undisturbed => DamageNoticed
    <2> DEFINE w == file.of
               g == Written(w, file.id)
    <2> SUFFICES ASSUME LayoutInv, Undisturbed, outcome = "ok", entry.warnings = {},
                        changes = 0, w.crc, ~w.lookalike, NameFits(w)
                 PROVE  /\ Regions = WrittenRegions(w)
                        /\ entry.key = BytesAt(g, FileHeaderSize, w.key)
                        /\ \A r \in Regions : BytesAt(file, r[2], r[3]) = BytesAt(g, r[2], r[3])
        BY DEF DamageNoticed
    <2>1. file \in Files /\ w \in WritingType
        BY DamageAssumption DEF Undisturbed
    <2>2. AsWritten(g, w) /\ g.id = file.id
        BY <2>1, WrittenFacts
    <2>3. /\ \/ DOMAIN streams = {0, 1} /\ CleanCombined(file)
             \/ DOMAIN streams = {2} /\ CleanStream2(file) /\ suffix = "_1"
          /\ entry.key = BytesAt(file, FileHeaderSize, file.header.keyLength)
        BY CleanFound
    <2>4. /\ CleanCombined(file) => w.layout = "combined" /\ Unharmed(file, g, w)
          /\ CleanStream2(file) /\ w.layout = "stream2" => Unharmed(file, g, w)
        BY <2>1, CleanUnharmed
    <2> HIDE DEF w, g
    <2>5. /\ \/ DOMAIN streams = {0, 1} /\ w.layout = "combined"
             \/ DOMAIN streams = {2} /\ w.layout = "stream2"
          /\ Unharmed(file, g, w)
        BY <2>3, <2>4 DEF NameFits
    <2>6. Regions = WrittenRegions(w)
        <3>1. AfterLast
            BY DEF AfterLast
        <3>2. QED
            BY <2>1, <2>2, <2>5, <3>1, Placed
    <2>7. file.size = g.size /\ file.altered = g.altered /\ file.header.keyLength = w.key
        BY <2>5 DEF Unharmed
    <2>8. ASSUME NEW offset, NEW length
          PROVE  BytesAt(file, offset, length) = BytesAt(g, offset, length)
        BY <2>2, <2>7, SameBytes
    <2>9. QED
        BY <2>3, <2>6, <2>7, <2>8
<1>2. QED
    BY <1>1, LayoutInvariant, FindsWhatIsThere, PTL

-----------------------------------------------------------------------------
(* An intact file is recovered.                                             *)

\* A file that has to be recovered is as it was written, and stays so.
LEMMA RecoverableWritten ==
    ASSUME LayoutInv, Undisturbed, Recoverable
    PROVE  LET w == file.of
           IN /\ changes = 0 /\ file \notin Unstable /\ w \in WritingType /\ AsWritten(file, w)
              /\ w.key <= MaxKeyLength /\ w.meta <= MaxInt32 /\ NameFits(w)
              /\ suffix = "other" /\ w.layout = "stream2" => ~w.lookalike
<1> DEFINE w == file.of
           g == Written(w, file.id)
<1>1. /\ file \notin Unstable /\ file.damage = 0
      /\ w.key <= MaxKeyLength /\ w.meta <= MaxInt32 /\ NameFits(w)
      /\ suffix = "other" /\ w.layout = "stream2" => ~w.lookalike
    BY DEF Recoverable
<1>2. file \in Files /\ changes = 0
    BY <1>1 DEF Undisturbed
<1>3. w \in WritingType /\ (file = g \/ file \in Damages(g, Lengths))
    BY <1>2, DamageAssumption
<1>4. AsWritten(g, w) /\ g.damage = 0
    BY <1>3, WrittenFacts
<1>5. file \in Damages(g, Lengths) => OneDamage(file, g, Lengths)
    BY <1>3, DamagesFacts
<1> HIDE DEF g, w
<1>6. OneDamage(file, g, Lengths) => Spared(file, g)
    BY DEF OneDamage, AlteredAt, CutAt, FooterChanged, HeaderChanged
<1>7. Spared(file, g) => file.damage = 1
    BY <1>4 DEF Spared
<1>8. file = g
    BY <1>1, <1>3, <1>5, <1>6, <1>7
<1>9. QED
    BY <1>1, <1>2, <1>3, <1>4, <1>8 DEF w

\* The header, the key and the footers of what was written, as the parser sees
\* them: nothing about them is unknown or does not fit.
LEMMA WrittenReads ==
    ASSUME NEW w \in WritingType, NEW g, AsWritten(g, w)
    PROVE  /\ g.size \in Nat /\ g.size - FileEOFSize = OuterEOF(w)
           /\ g.header.magic = TRUE /\ g.header.version = TRUE /\ g.header.keyLength = w.key
           /\ g.header.keyHash = BytesAt(g, FileHeaderSize, w.key)
           /\ {InnerEOF(w), OuterEOF(w)} \subseteq DOMAIN g.footers
           /\ DOMAIN g.footers \subseteq {InnerEOF(w), OuterEOF(w), InnerEOF(w) - FileEOFSize}
           /\ ~w.lookalike => DOMAIN g.footers \subseteq {InnerEOF(w), OuterEOF(w)}
           /\ LET i == g.footers[InnerEOF(w)]
              IN /\ i.streamSize = 0 /\ i.hasSHA = FALSE /\ i.unknown = FALSE
                 /\ i.crc = BytesAt(g, BodyOffset(w), w.body)
           /\ w.layout = "combined" =>
                 LET o == g.footers[OuterEOF(w)]
                 IN /\ o.streamSize = w.meta /\ o.hasSHA = w.sha /\ o.unknown = FALSE
                    /\ o.crc = BytesAt(g, MetaOffset(w), w.meta)
           /\ w.layout = "combined" /\ w.sha =>
                 /\ DigestOffset(w) \in DOMAIN g.digests
                 /\ g.digests[DigestOffset(w)] = BytesAt(g, FileHeaderSize, w.key)
           /\ w.layout = "combined" => Unharmed(g, g, w)
           /\ w.layout # "combined" => Unharmed(g, g, w)
<1>1. g.size = OuterEOF(w) + FileEOFSize
    BY DEF AsWritten
<1>2. g.size \in Nat /\ g.size - FileEOFSize = OuterEOF(w)
    BY <1>1, WrittenOffsets, SizesAssumption
<1>3. /\ DOMAIN g.footers = {InnerEOF(w), OuterEOF(w)}
                            \cup (IF w.lookalike THEN {InnerEOF(w) - FileEOFSize} ELSE {})
    BY DEF AsWritten
<1>4. /\ {InnerEOF(w), OuterEOF(w)} \subseteq DOMAIN g.footers
      /\ DOMAIN g.footers \subseteq {InnerEOF(w), OuterEOF(w), InnerEOF(w) - FileEOFSize}
      /\ ~w.lookalike => DOMAIN g.footers \subseteq {InnerEOF(w), OuterEOF(w)}
    BY <1>3
<1>5. g.footers[InnerEOF(w)] = Footer(w.crc, FALSE, BytesAt(g, BodyOffset(w), w.body), 0)
    BY DEF AsWritten
<1>6. w.layout = "combined" =>
          g.footers[OuterEOF(w)] = Footer(w.crc, w.sha, BytesAt(g, MetaOffset(w), w.meta), w.meta)
    BY DEF AsWritten
<1>7. g.header = [magic |-> TRUE, version |-> TRUE, keyLength |-> w.key,
                  keyHash |-> BytesAt(g, FileHeaderSize, w.key)]
    BY DEF AsWritten
<1>8. w.layout = "combined" /\ w.sha =>
         /\ DigestOffset(w) \in DOMAIN g.digests
         /\ g.digests[DigestOffset(w)] = BytesAt(g, FileHeaderSize, w.key)
    BY DEF AsWritten
<1>9. w.layout = "combined" =>
         /\ g.footers[OuterEOF(w)].streamSize = w.meta /\ g.footers[OuterEOF(w)].hasSHA = w.sha
         /\ g.footers[OuterEOF(w)].unknown = FALSE
         /\ g.footers[OuterEOF(w)].crc = BytesAt(g, MetaOffset(w), w.meta)
    BY <1>6 DEF Footer
<1>10. g.header.keyLength = w.key
    BY <1>7
<1>11. w.layout = "combined" => LastOf(g).streamSize = w.meta /\ LastOf(g).hasSHA = w.sha
    BY <1>2, <1>9 DEF LastOf
<1>12. Unharmed(g, g, w)
    BY <1>10, <1>11 DEF Unharmed
<1>13. QED
    BY <1>2, <1>4, <1>5, <1>7, <1>8, <1>9, <1>12 DEF Footer

\* It goes on being recovered if nothing bad happens in a step.
LEMMA RecoveringKept ==
    ASSUME UNCHANGED <<file, suffix>>,
           Recoverable =>
              LET w == file.of
              IN /\ outcome' \in {"none", "ok"} /\ entry'.warnings \subseteq Unlooked
                 /\ pc' = "stream2" => w.layout = "stream2"
                 /\ pc' = "key sha" => w.sha
                 /\ DOMAIN streams' = {0, 1} => w.layout = "combined"
                 /\ DOMAIN streams' = {2} => w.layout = "stream2"
                 /\ DOMAIN streams' = {0, 1} /\ pc' \in {"http", "done"} /\ w.sha =>
                        entry'.keySHA = "verified"
    PROVE  Recovering'
<1>1. Recoverable' = Recoverable
    BY DEF Recoverable, NameFits
<1>2. QED
    BY <1>1 DEF Recovering

\* Nothing has gone wrong before the first read.
LEMMA RecoveringInit == Init => Recovering
<1> SUFFICES ASSUME Init PROVE Recovering
    OBVIOUS
<1>1. /\ outcome = "none" /\ entry.warnings = {} /\ pc = "open" /\ DOMAIN streams = {}
    BY DEF Init, NoStreams, NoEntry
<1>2. DOMAIN streams # {0, 1} /\ DOMAIN streams # {2}
    BY <1>1
<1>3. QED
    BY <1>1, <1>2 DEF Recovering

\* The first steps: the sizes fit, and the header, the key and the last footer are
\* there.
LEMMA RecoveringEarly ==
    LayoutInv /\ Undisturbed /\ Recovering /\ (Open \/ ReadHeader \/ ReadKey \/ ReadLastEOF)
        => Recovering'
<1> SUFFICES ASSUME LayoutInv, Undisturbed, Recovering,
                    Open \/ ReadHeader \/ ReadKey \/ ReadLastEOF
             PROVE  Recovering'
    OBVIOUS
<1> DEFINE w == file.of
<1>1. /\ pc \in {"open", "header", "key", "last"} /\ UNCHANGED <<file, suffix, streams>>
      /\ DOMAIN streams = {} /\ outcome = "none" /\ entry \in EntryType
    BY DEF Open, ReadHeader, ReadKey, ReadLastEOF, LayoutInv, StepsInOrder, TypeOK
<1>2. ASSUME Recoverable
      PROVE  /\ outcome' = "none" /\ entry'.warnings = entry.warnings
             /\ pc' = "stream2" => w.layout = "stream2"
             /\ pc' # "key sha"
    <2>1. /\ changes = 0 /\ w \in WritingType /\ AsWritten(file, w)
          /\ w.key <= MaxKeyLength /\ w.meta <= MaxInt32 /\ NameFits(w)
        BY <1>2, RecoverableWritten
    <2>2. /\ file.size \in Nat /\ file.size - FileEOFSize = OuterEOF(w)
          /\ file.header.magic = TRUE /\ file.header.version = TRUE
          /\ file.header.keyLength = w.key
          /\ file.header.keyHash = BytesAt(file, FileHeaderSize, w.key)
          /\ OuterEOF(w) \in DOMAIN file.footers
        BY <2>1, WrittenReads
    <2>3. /\ w.key \in Nat /\ w.meta \in Nat /\ OuterEOF(w) \in Nat
          /\ FileHeaderSize \in Nat \ {0} /\ FileEOFSize \in Nat \ {0} /\ SHASize \in Nat \ {0}
          /\ FileHeaderSize + w.key <= OuterEOF(w)
        <3>1. OuterEOF(w) >= InnerEOF(w)
            BY <2>1, WrittenOffsets, SizesAssumption
        <3>2. QED
            BY <2>1, <3>1, WrittenOffsets, SizesAssumption
    <2>4. MaxKeyLength \in Nat /\ MaxInt32 \in Nat /\ MaxInt64 \in Nat
          /\ FileHeaderSize + MaxKeyLength <= MaxInt64
        BY LimitsAssumption, WidthsAssumption
    <2> HIDE DEF w
    <2>5. file.size = OuterEOF(w) + FileEOFSize
        BY <2>2, <2>3
    <2>6. CASE Open
        BY <1>1, <2>6 DEF Open, Continue
    <2>7. CASE ReadHeader
        <3>1. size = file.size
            BY <2>1, <2>7 DEF Undisturbed, ReadHeader
        <3>2. Readable(0, FileHeaderSize, size)
            BY <2>3, <2>5, <3>1 DEF Readable, InRange
        <3>3. HeaderVerdict(file.header) = "ok"
            <4>1. /\ ~(file.header.keyLength > MaxKeyLength)
                  /\ ~Overflows(FileHeaderSize, file.header.keyLength)
                  /\ ~(BaseOffset(file.header) > size)
                BY <2>1, <2>2, <2>3, <2>4, <2>5, <3>1 DEF Overflows, BaseOffset
            <4>2. QED
                BY <2>2, <4>1 DEF HeaderVerdict
        <3>4. /\ entry' = [entry EXCEPT !.header = file.header] /\ pc' = "key"
              /\ outcome' = outcome
            BY <2>7, <3>2, <3>3 DEF ReadHeader, Continue
        <3>5. entry'.warnings = entry.warnings
            BY <1>1, <3>4 DEF EntryType
        <3>6. QED
            BY <1>1, <3>4, <3>5
    <2>8. CASE ReadKey
        <3>1. pc = "key" /\ AfterHeader
            BY <2>8 DEF ReadKey, AfterHeader
        <3>2. size = file.size /\ entry.header = file.header
            BY <2>1, <3>1 DEF Undisturbed, HeaderFound
        <3>3. Readable(FileHeaderSize, entry.header.keyLength, size)
            BY <2>2, <2>3, <2>5, <3>2 DEF Readable, InRange
        <3>4. /\ entry' = WithKey(BytesAt(file, FileHeaderSize, entry.header.keyLength))
              /\ pc' = "last" /\ outcome' = outcome
            BY <2>8, <3>3 DEF ReadKey, Continue
        <3>5. BytesAt(file, FileHeaderSize, entry.header.keyLength) = entry.header.keyHash
            BY <2>2, <3>2
        <3>6. entry'.warnings = entry.warnings
            BY <1>1, <3>4, <3>5, WithKeyFound
        <3>7. QED
            BY <1>1, <3>4, <3>6
    <2>9. CASE ReadLastEOF
        <3>1. pc = "last" /\ UNCHANGED <<entry, suffix>>
            BY <2>9 DEF ReadLastEOF
        <3>2. size = file.size
            BY <2>1, <3>1 DEF Undisturbed
        <3>3. Readable(size - FileEOFSize, FileEOFSize, size) /\ IsEOF(size - FileEOFSize)
            BY <2>2, <2>3, <2>5, <3>2 DEF Readable, InRange, IsEOF
        <3>4. last' = file.footers[OuterEOF(w)]
            BY <2>2, <2>9, <3>2, <3>3 DEF ReadLastEOF
        <3>5. ~(last'.streamSize > MaxInt32)
            <4>1. CASE w.layout = "combined"
                <5>1. last'.streamSize = w.meta
                    BY <2>1, <3>4, <4>1, WrittenReads
                <5>2. QED
                    BY <2>1, <2>3, <2>4, <5>1
            <4>2. CASE w.layout # "combined"
                <5>1. OuterEOF(w) = InnerEOF(w)
                    BY <2>1, <4>2, WrittenOffsets
                <5>2. last'.streamSize = 0
                    BY <2>1, <3>4, <5>1, WrittenReads
                <5>3. QED
                    BY <2>4, <5>2
            <4>3. QED
                BY <4>1, <4>2
        <3>6. pc' = FirstLayout /\ outcome' = outcome
            BY <2>9, <3>3, <3>5 DEF ReadLastEOF, Continue
        <3>7. (pc' = "stream2" => w.layout = "stream2") /\ pc' # "key sha"
            BY <2>1, <3>6 DEF FirstLayout, NameFits
        <3>8. QED
            BY <1>1, <3>1, <3>6, <3>7
    <2>10. QED
        BY <2>6, <2>7, <2>8, <2>9
<1>3. DOMAIN streams' # {0, 1} /\ DOMAIN streams' # {2}
    BY <1>1
<1>4. Recoverable => entry.warnings \subseteq Unlooked
    BY DEF Recovering
<1>5. QED
    BY <1>1, <1>2, <1>3, <1>4, RecoveringKept

\* Streams 0 and 1 are found in a combined file, and only there.
LEMMA RecoveringReadCombined ==
    LayoutInv /\ Undisturbed /\ Recovering /\ ReadCombined => Recovering'
<1> SUFFICES ASSUME LayoutInv, Undisturbed, Recovering, ReadCombined PROVE Recovering'
    OBVIOUS
<1> DEFINE w == file.of
<1>1. /\ pc = "combined" /\ AfterLast /\ UNCHANGED <<file, suffix, last>> /\ suffix # "_1"
      /\ DOMAIN streams = {} /\ outcome = "none" /\ entry \in EntryType /\ suffix \in Suffixes
    BY DEF ReadCombined, LayoutInv, StepsInOrder, TypeOK, AfterLast
<1>2. ASSUME Recoverable
      PROVE  /\ outcome' = "none" /\ entry'.warnings \subseteq Unlooked
             /\ pc' = "stream2" => w.layout = "stream2"
             /\ DOMAIN streams' = {0, 1} => w.layout = "combined"
             /\ DOMAIN streams' # {2} /\ pc' \in {"crc 0", "stream2"}
    <2>1. /\ changes = 0 /\ w \in WritingType /\ AsWritten(file, w)
          /\ w.meta <= MaxInt32 /\ NameFits(w)
          /\ suffix = "other" /\ w.layout = "stream2" => ~w.lookalike
        BY <1>2, RecoverableWritten
    <2>2. /\ size = file.size /\ file.size \in Nat /\ file.header.keyLength = w.key
          /\ size - FileEOFSize = OuterEOF(w) /\ last = file.footers[OuterEOF(w)]
          /\ Base = BaseOf(file) /\ Base = BodyOffset(w)
          /\ last.streamSize \in Nat /\ last.hasSHA \in BOOLEAN
        <3>1. /\ size = file.size /\ file.size \in Nat /\ Base = BaseOf(file)
              /\ last = LastOf(file) /\ last.streamSize \in Nat /\ last.hasSHA \in BOOLEAN
            BY <1>1, <2>1, AllFound
        <3>2. file.header.keyLength = w.key /\ file.size - FileEOFSize = OuterEOF(w)
            BY <2>1, WrittenReads
        <3>3. QED
            BY <3>1, <3>2 DEF LastOf, BaseOf, BaseOffset, BodyOffset
    <2>3. /\ w.key \in Nat /\ w.body \in Nat /\ w.meta \in Nat /\ w.sha \in BOOLEAN
          /\ InnerEOF(w) \in Nat /\ OuterEOF(w) \in Nat /\ BodyOffset(w) \in Nat
          /\ InnerEOF(w) = BodyOffset(w) + w.body
          /\ FileHeaderSize \in Nat \ {0} /\ FileEOFSize \in Nat \ {0} /\ SHASize \in Nat \ {0}
          /\ w.layout \in {"combined", "stream2"}
        BY <2>1, WrittenOffsets, SizesAssumption
    <2>4. MaxInt32 \in Nat /\ MaxInt64 \in Nat
          /\ 2 * FileEOFSize + MaxInt32 + SHASize <= MaxInt64
        BY LimitsAssumption, WidthsAssumption
    <2>5. entry.warnings \subseteq Unlooked
        BY <1>2 DEF Recovering
    <2>6. CASE w.layout = "combined"
        <3>1. /\ last.streamSize = w.meta /\ last.hasSHA = w.sha /\ last.unknown = FALSE
              /\ OuterEOF(w) = InnerEOF(w) + FileEOFSize + w.meta + SHALength
              /\ SHALength \in Nat /\ SHALength <= SHASize
            <4>1. /\ last.streamSize = w.meta /\ last.hasSHA = w.sha /\ last.unknown = FALSE
                BY <2>1, <2>2, <2>6, WrittenReads
            <4>2. /\ w.sha => OuterEOF(w) = InnerEOF(w) + FileEOFSize + w.meta + SHASize
                  /\ ~w.sha => OuterEOF(w) = InnerEOF(w) + FileEOFSize + w.meta
                BY <2>1, <2>6, WrittenOffsets
            <4>3. SHALength = IF w.sha THEN SHASize ELSE 0
                BY <4>1 DEF SHALength
            <4> HIDE DEF w
            <4>4. QED
                BY <2>3, <4>1, <4>2, <4>3
        <3>2. /\ file.footers[InnerEOF(w)].streamSize = 0
              /\ file.footers[InnerEOF(w)].unknown = FALSE
              /\ InnerEOF(w) \in DOMAIN file.footers
            BY <2>1, WrittenReads
        <3> HIDE DEF w
        <3>3. size = InnerEOF(w) + 2 * FileEOFSize + w.meta + SHALength
            <4>1. size \in Int /\ size = OuterEOF(w) + FileEOFSize
                BY <2>2, <2>3
            <4>2. QED
                BY <2>3, <3>1, <4>1
        <3>4. FixedLength = 2 * FileEOFSize + w.meta + SHALength /\ FixedLength \in Nat
            BY <2>3, <3>1 DEF FixedLength
        <3>5. FixedLength <= size - Base /\ Stream1EOF = InnerEOF(w)
            BY <2>2, <2>3, <3>1, <3>3, <3>4 DEF Stream1EOF, Stream1Length
        <3>6. CombinedFits
            <4>1. ~Overflows(2 * FileEOFSize, last.streamSize)
                BY <2>1, <2>3, <2>4, <3>1 DEF Overflows
            <4>2. ~Overflows(2 * FileEOFSize + last.streamSize, SHALength)
                BY <2>1, <2>3, <2>4, <3>1 DEF Overflows
            <4>3. QED
                BY <3>5, <4>1, <4>2 DEF CombinedFits
        <3>7. Readable(Stream1EOF, FileEOFSize, size)
            BY <2>2, <2>3, <3>1, <3>3, <3>5 DEF Readable, InRange
        <3>8. CombinedHolds
            BY <3>2, <3>5, <3>6, <3>7 DEF CombinedHolds, IsEOF
        <3>9. /\ streams' = CombinedStreams(file.footers[Stream1EOF])
              /\ entry' = Warn(entry, UnknownFlags(last, 0)
                                          \cup UnknownFlags(file.footers[Stream1EOF], 1))
              /\ pc' = "crc 0" /\ outcome' = outcome
            BY <3>8 DEF ReadCombined, Continue
        <3>10. UnknownFlags(last, 0) = {} /\ UnknownFlags(file.footers[Stream1EOF], 1) = {}
            BY <3>1, <3>2, <3>5 DEF UnknownFlags
        <3>11. entry'.warnings = entry.warnings
            <4>1. entry' = Warn(entry, {}) /\ {} \in SUBSET Warnings
                BY <3>9, <3>10
            <4>2. entry'.warnings = entry.warnings \cup {}
                BY <1>1, <4>1, WarnKeeps
            <4>3. QED
                BY <4>2
        <3>12. DOMAIN streams' = {0, 1}
            <4>1. streams' = CombinedStreams(file.footers[Stream1EOF])
                BY <3>9
            <4>2. QED
                BY <4>1 DEF CombinedStreams
        <3>13. QED
            BY <1>1, <2>5, <2>6, <3>9, <3>11, <3>12, TwoStreams
    <2>7. CASE w.layout # "combined"
        <3>1. OuterEOF(w) = InnerEOF(w) /\ ~w.lookalike /\ suffix = "other"
            BY <1>1, <2>1, <2>3, <2>7, WrittenOffsets, LimitsAssumption DEF NameFits
        <3>2. /\ last.streamSize = 0 /\ last.hasSHA = FALSE
              /\ DOMAIN file.footers \subseteq {InnerEOF(w)}
            <4>1. /\ DOMAIN file.footers \subseteq {InnerEOF(w), OuterEOF(w)}
                  /\ file.footers[InnerEOF(w)].streamSize = 0
                  /\ file.footers[InnerEOF(w)].hasSHA = FALSE
                BY <2>1, <3>1, WrittenReads
            <4>2. QED
                BY <2>2, <3>1, <4>1
        <3> HIDE DEF w
        <3>3. Stream1EOF = InnerEOF(w) - FileEOFSize
            BY <2>2, <2>3, <3>1, <3>2 DEF Stream1EOF, Stream1Length, FixedLength, SHALength
        <3>4. InnerEOF(w) - FileEOFSize # InnerEOF(w)
            BY <2>3
        <3>5. Stream1EOF \notin DOMAIN file.footers
            BY <3>2, <3>3, <3>4
        <3>6. ~CombinedHolds /\ MayFallBack
            BY <3>1, <3>2, <3>5 DEF CombinedHolds, IsEOF, MayFallBack
        <3>7. pc' = "stream2" /\ outcome' = outcome /\ UNCHANGED <<entry, streams>>
            BY <3>6 DEF ReadCombined, Continue
        <3>8. DOMAIN streams' # {0, 1} /\ DOMAIN streams' # {2}
            BY <1>1, <3>7
        <3>9. QED
            BY <1>1, <2>3, <2>5, <2>7, <3>7, <3>8
    <2>8. QED
        BY <2>6, <2>7
<1>3. QED
    BY <1>1, <1>2, RecoveringKept

\* Stream 2 is only tried for a file that was written that way.
LEMMA RecoveringTakeStream2 ==
    LayoutInv /\ Undisturbed /\ Recovering /\ TakeStream2 => Recovering'
<1> SUFFICES ASSUME LayoutInv, Undisturbed, Recovering, TakeStream2 PROVE Recovering'
    OBVIOUS
<1> DEFINE w == file.of
<1>1. /\ pc = "stream2" /\ AfterLast /\ UNCHANGED <<file, suffix, last>>
      /\ DOMAIN streams = {} /\ outcome = "none" /\ entry \in EntryType
    BY DEF TakeStream2, LayoutInv, StepsInOrder, TypeOK, AfterLast
<1>2. ASSUME Recoverable
      PROVE  /\ w.layout = "stream2" /\ outcome' = "none" /\ entry'.warnings \subseteq Unlooked
             /\ DOMAIN streams' = {2} /\ pc' = "crc 2"
    <2>1. changes = 0 /\ w \in WritingType /\ AsWritten(file, w)
        BY <1>2, RecoverableWritten
    <2>2. w.layout = "stream2" /\ entry.warnings \subseteq Unlooked
        BY <1>1, <1>2 DEF Recovering
    <2>3. OuterEOF(w) = InnerEOF(w)
        BY <2>1, <2>2, WrittenOffsets
    <2>4. /\ size = file.size /\ last = LastOf(file) /\ Base = BaseOf(file)
          /\ size \in Nat /\ file.size \in Nat
        BY <1>1, <2>1, AllFound
    <2>5. /\ file.size - FileEOFSize = OuterEOF(w) /\ file.header.keyLength = w.key
          /\ file.footers[InnerEOF(w)].streamSize = 0
          /\ file.footers[InnerEOF(w)].unknown = FALSE
        BY <2>1, WrittenReads
    <2>6. last.streamSize = 0 /\ last.unknown = FALSE
        BY <2>3, <2>4, <2>5 DEF LastOf
    <2>7. Base = BodyOffset(w)
        BY <2>4, <2>5 DEF BaseOf, BaseOffset, BodyOffset
    <2>8. /\ w.key \in Nat /\ w.body \in Nat /\ BodyOffset(w) \in Nat
          /\ InnerEOF(w) = FileHeaderSize + w.key + w.body
          /\ BodyOffset(w) = FileHeaderSize + w.key
          /\ FileHeaderSize \in Nat /\ FileEOFSize \in Nat
        BY <2>1, WrittenOffsets, SizesAssumption
    <2> HIDE DEF w
    <2>9. Stream2Length >= 0
        BY <2>3, <2>4, <2>5, <2>7, <2>8 DEF Stream2Length
    <2>10. Stream2Holds
        BY <2>6, <2>9 DEF Stream2Holds
    <2>11. /\ streams' = [i \in {2} |-> Stream(Base, Stream2Length, size - FileEOFSize, last)]
           /\ entry' = Warn(entry, UnknownFlags(last, 2))
           /\ pc' = "crc 2" /\ outcome' = outcome
        BY <2>10 DEF TakeStream2, Continue
    <2>12. entry'.warnings = entry.warnings
        <3>1. entry' = Warn(entry, {}) /\ {} \in SUBSET Warnings
            BY <2>6, <2>11 DEF UnknownFlags
        <3>2. entry'.warnings = entry.warnings \cup {}
            BY <1>1, <3>1, WarnKeeps
        <3>3. QED
            BY <3>2
    <2>13. DOMAIN streams' = {2}
        BY <2>11
    <2>14. QED
        BY <1>1, <2>2, <2>11, <2>12, <2>13
<1>3. QED
    BY <1>1, <1>2, RecoveringKept, TwoStreams

\* The streams of a file that has to be recovered are where they were written,
\* and their checksums are right.
LEMMA RecoveredPlaces ==
    ASSUME LayoutInv, Undisturbed, Recovering, Recoverable, AfterLast,
           \/ DOMAIN streams = {0, 1}
           \/ DOMAIN streams = {2}
    PROVE  LET w == file.of
           IN /\ Regions = WrittenRegions(w)
              /\ DOMAIN streams = {0, 1} =>
                    /\ w.layout = "combined" /\ last.hasSHA = w.sha
                    /\ streams[0].offset = MetaOffset(w) /\ streams[0].length = w.meta
                    /\ \A i \in {0, 1} : streams[i].expected =
                                             BytesAt(file, streams[i].offset, streams[i].length)
              /\ DOMAIN streams = {2} =>
                    /\ w.layout = "stream2"
                    /\ streams[2].expected = BytesAt(file, streams[2].offset, streams[2].length)
<1> DEFINE w == file.of
<1>1. changes = 0 /\ w \in WritingType /\ AsWritten(file, w)
    BY RecoverableWritten
<1>2. /\ DOMAIN streams = {0, 1} => w.layout = "combined"
      /\ DOMAIN streams = {2} => w.layout = "stream2"
    BY DEF Recovering
<1>3. /\ Unharmed(file, file, w) /\ file.size - FileEOFSize = OuterEOF(w)
      /\ file.footers[InnerEOF(w)].crc = BytesAt(file, BodyOffset(w), w.body)
      /\ w.layout = "combined" =>
            /\ file.footers[OuterEOF(w)].hasSHA = w.sha
            /\ file.footers[OuterEOF(w)].crc = BytesAt(file, MetaOffset(w), w.meta)
    BY <1>1, WrittenReads
<1>4. last = file.footers[OuterEOF(w)]
    BY <1>1, <1>3, AllFound DEF LastOf
<1>5. /\ w.layout = "combined" =>
             /\ DOMAIN streams = {0, 1}
             /\ streams[0].offset = MetaOffset(w) /\ streams[0].length = w.meta
             /\ streams[1].offset = BodyOffset(w) /\ streams[1].length = w.body
             /\ streams[1].eof = InnerEOF(w)
      /\ w.layout # "combined" =>
             /\ DOMAIN streams = {2}
             /\ streams[2].offset = BodyOffset(w) /\ streams[2].length = w.body
      /\ Regions = WrittenRegions(w)
    <2>1. \/ DOMAIN streams = {0, 1} /\ w.layout = "combined"
          \/ DOMAIN streams = {2} /\ w.layout = "stream2"
        BY <1>2
    <2>2. QED
        BY <1>1, <1>3, <2>1, Placed
<1> HIDE DEF w
<1>6. ASSUME DOMAIN streams = {0, 1}
      PROVE  /\ last.hasSHA = w.sha
             /\ streams[0].expected = BytesAt(file, streams[0].offset, streams[0].length)
             /\ streams[1].expected = BytesAt(file, streams[1].offset, streams[1].length)
    <2>1. streams[0].expected = last.crc
        BY <1>1, <1>6 DEF Undisturbed, CombinedFound, Describes
    <2>2. streams[1].expected = file.footers[streams[1].eof].crc
        BY <1>1, <1>6 DEF Undisturbed, CombinedFound, Describes
    <2>3. QED
        BY <1>2, <1>3, <1>4, <1>5, <1>6, <2>1, <2>2
<1>7. ASSUME DOMAIN streams = {2}
      PROVE  streams[2].expected = BytesAt(file, streams[2].offset, streams[2].length)
    <2>1. streams[2].expected = last.crc
        BY <1>1, <1>7 DEF Undisturbed, Stream2Found, Describes
    <2>2. w.layout = "stream2" /\ OuterEOF(w) = InnerEOF(w)
        BY <1>1, <1>2, <1>7, WrittenOffsets
    <2>3. QED
        BY <1>3, <1>4, <1>5, <2>1, <2>2
<1>8. QED
    BY <1>2, <1>5, <1>6, <1>7 DEF w

\* Of a stream whose checksum is right, only that it was skipped can be said.
LEMMA RightValidates ==
    ASSUME TypeOK, NEW i \in DOMAIN streams, Validate(i), file \notin Unstable,
           streams[i].expected = BytesAt(file, streams[i].offset, streams[i].length),
           entry.warnings \subseteq Unlooked
    PROVE  entry'.warnings \subseteq Unlooked
<1>1. i \in {0, 1, 2} /\ entry \in EntryType
    BY DEF TypeOK, StreamSets
<1>2. UNCHANGED entry \/ entry' = Warn(entry, {<<"crc skipped", i>>})
    BY DEF Validate, MarkVerified, NotVerified
<1>3. <<"crc skipped", i>> \in Unlooked /\ <<"crc skipped", i>> \in Warnings
    BY <1>1 DEF Unlooked, Warnings, WarningKinds
<1>4. Warn(entry, {<<"crc skipped", i>>}).warnings = entry.warnings \cup {<<"crc skipped", i>>}
    <2>1. {<<"crc skipped", i>>} \in SUBSET Warnings
        BY <1>3
    <2>2. QED
        BY <1>1, <2>1, WarnKeeps
<1>5. QED
    BY <1>2, <1>3, <1>4

\* Validating a stream finds its checksum right.
LEMMA RecoveringValidate ==
    LayoutInv /\ Undisturbed /\ Recovering /\ (Validate0 \/ Validate1 \/ Validate2) => Recovering'
<1> SUFFICES ASSUME LayoutInv, Undisturbed, Recovering, Validate0 \/ Validate1 \/ Validate2
             PROVE  Recovering'
    OBVIOUS
<1>1. /\ TypeOK /\ AfterLast /\ UNCHANGED <<file, suffix, last>>
      /\ outcome = "none"
    BY DEF Validate0, Validate1, Validate2, LayoutInv, StepsInOrder, AfterLast
<1>2. ASSUME NEW i \in DOMAIN streams, Validate(i),
             DOMAIN streams = {0, 1} \/ DOMAIN streams = {2}, Recoverable
      PROVE  entry'.warnings \subseteq Unlooked /\ DOMAIN streams' = DOMAIN streams
    <2>1. streams[i].expected = BytesAt(file, streams[i].offset, streams[i].length)
        BY <1>1, <1>2, RecoveredPlaces
    <2>2. file \notin Unstable /\ entry.warnings \subseteq Unlooked
        BY <1>2 DEF Recoverable, Recovering
    <2>3. entry'.warnings \subseteq Unlooked
        BY <1>1, <1>2, <2>1, <2>2, RightValidates
    <2>4. DOMAIN streams' = DOMAIN streams
        BY <1>1, <1>2, ValidateKeeps
    <2>5. QED
        BY <2>3, <2>4
<1>3. /\ DOMAIN streams = {0, 1} => (Recoverable => file.of.layout = "combined")
      /\ DOMAIN streams = {2} => (Recoverable => file.of.layout = "stream2")
    BY DEF Recovering
<1>4. CASE Validate0 \/ Validate1
    <2>1. /\ DOMAIN streams = {0, 1} /\ pc' \in {"crc 1", "digest"} /\ outcome' = outcome
          /\ Validate(0) \/ Validate(1)
        BY <1>4 DEF Validate0, Validate1, Continue, LayoutInv, StepsInOrder
    <2>2. Recoverable => entry'.warnings \subseteq Unlooked /\ DOMAIN streams' = {0, 1}
        BY <1>2, <2>1
    <2>3. QED
        BY <1>1, <1>3, <2>1, <2>2, RecoveringKept, TwoStreams
<1>5. CASE Validate2
    <2>1. /\ DOMAIN streams = {2} /\ pc' \in {"fallen back", "done"} /\ outcome' \in {outcome, "ok"}
          /\ Validate(2)
        BY <1>5 DEF Validate2, Continue, Return, LayoutInv, StepsInOrder
    <2>2. Recoverable => entry'.warnings \subseteq Unlooked /\ DOMAIN streams' = {2}
        BY <1>2, <2>1
    <2>3. QED
        BY <1>1, <1>3, <2>1, <2>2, RecoveringKept, TwoStreams
<1>6. QED
    BY <1>4, <1>5

\* That a file was read as stream 2 is no more than that.
LEMMA RecoveringSayFallenBack ==
    LayoutInv /\ Undisturbed /\ Recovering /\ SayFallenBack => Recovering'
<1> SUFFICES ASSUME LayoutInv, Undisturbed, Recovering, SayFallenBack PROVE Recovering'
    OBVIOUS
<1>1. /\ DOMAIN streams = {2} /\ UNCHANGED <<file, suffix, streams>> /\ entry \in EntryType
      /\ entry' = Warn(entry, {<<"read as stream 2", 2>>}) /\ outcome' = "ok" /\ pc' = "done"
    BY DEF SayFallenBack, LayoutInv, StepsInOrder, TypeOK, Return
<1>2. <<"read as stream 2", 2>> \in Unlooked /\ <<"read as stream 2", 2>> \in Warnings
    BY DEF Unlooked, Warnings, WarningKinds
<1>3. entry'.warnings = entry.warnings \cup {<<"read as stream 2", 2>>}
    <2>1. {<<"read as stream 2", 2>>} \in SUBSET Warnings
        BY <1>2
    <2>2. QED
        BY <1>1, <2>1, WarnKeeps
<1>4. Recoverable => entry'.warnings \subseteq Unlooked /\ file.of.layout = "stream2"
    BY <1>1, <1>2, <1>3 DEF Recovering
<1>5. DOMAIN streams' = {2}
    BY <1>1
<1>6. QED
    BY <1>1, <1>4, <1>5, RecoveringKept, TwoStreams

\* The digest of the body is taken, or skipped; a key digest comes next if one
\* was written.
LEMMA RecoveringDigest ==
    LayoutInv /\ Undisturbed /\ Recovering /\ Digest => Recovering'
<1> SUFFICES ASSUME LayoutInv, Undisturbed, Recovering, Digest PROVE Recovering'
    OBVIOUS
<1>1. /\ DOMAIN streams = {0, 1} /\ UNCHANGED <<file, suffix, streams, last>> /\ AfterLast
      /\ entry \in EntryType /\ outcome' = "none"
      /\ pc' = IF last.hasSHA THEN "key sha" ELSE "http"
    BY DEF Digest, LayoutInv, StepsInOrder, TypeOK, AfterLast, Continue
<1>2. ASSUME Recoverable
      PROVE  /\ file.of.layout = "combined" /\ entry'.warnings \subseteq Unlooked
             /\ last.hasSHA = file.of.sha
    <2>1. file.of.layout = "combined" /\ last.hasSHA = file.of.sha
        BY <1>1, <1>2, RecoveredPlaces
    <2>2. file \notin Unstable /\ entry.warnings \subseteq Unlooked
        BY <1>2 DEF Recoverable, Recovering
    <2>3. \/ entry' = Warn(entry, {<<"digest skipped", 1>>})
          \/ \E body : entry' = [entry EXCEPT !.body = body]
        BY <2>2 DEF Digest, ReadFails
    <2>4. CASE entry' = Warn(entry, {<<"digest skipped", 1>>})
        <3>1. /\ <<"digest skipped", 1>> \in Unlooked
              /\ <<"digest skipped", 1>> \in Warnings
            BY DEF Unlooked, Warnings, WarningKinds
        <3>2. entry'.warnings = entry.warnings \cup {<<"digest skipped", 1>>}
            <4>1. {<<"digest skipped", 1>>} \in SUBSET Warnings
                BY <3>1
            <4>2. QED
                BY <1>1, <2>4, <4>1, WarnKeeps
        <3>3. QED
            BY <2>1, <2>2, <3>1, <3>2
    <2>5. CASE \E body : entry' = [entry EXCEPT !.body = body]
        BY <1>1, <2>1, <2>2, <2>5 DEF EntryType
    <2>6. QED
        BY <2>3, <2>4, <2>5
<1>3. DOMAIN streams' = {0, 1}
    BY <1>1
<1>4. QED
    BY <1>1, <1>2, <1>3, RecoveringKept, TwoStreams

\* The key digest is where it was written, and right.
LEMMA RecoveringVerifyKeySHA ==
    LayoutInv /\ Undisturbed /\ Recovering /\ VerifyKeySHA => Recovering'
<1> SUFFICES ASSUME LayoutInv, Undisturbed, Recovering, VerifyKeySHA PROVE Recovering'
    OBVIOUS
<1> DEFINE w == file.of
           offset == streams[0].offset + streams[0].length
<1>1. /\ DOMAIN streams = {0, 1} /\ UNCHANGED <<file, suffix, streams, last>>
      /\ AfterLast /\ AfterKey /\ pc = "key sha"
      /\ entry \in EntryType /\ outcome' = "none" /\ pc' = "http"
    BY DEF VerifyKeySHA, LayoutInv, StepsInOrder, TypeOK, AfterLast, AfterKey, Continue
<1>2. ASSUME Recoverable
      PROVE  /\ w.layout = "combined" /\ entry'.warnings \subseteq Unlooked
             /\ w.sha => entry'.keySHA = "verified"
    <2>1. changes = 0 /\ w \in WritingType /\ AsWritten(file, w) /\ file \notin Unstable
        BY <1>2, RecoverableWritten
    <2>2. /\ w.layout = "combined" /\ last.hasSHA = w.sha
          /\ streams[0].offset = MetaOffset(w) /\ streams[0].length = w.meta
        BY <1>1, <1>2, RecoveredPlaces
    <2>3. entry.warnings \subseteq Unlooked
        BY <1>2 DEF Recovering
    <2>4. w.sha
        BY <1>1, <1>2 DEF Recovering
    <2>5. offset = DigestOffset(w)
        BY <2>2 DEF DigestOffset
    <2>6. /\ DigestOffset(w) \in DOMAIN file.digests
          /\ file.digests[DigestOffset(w)] = BytesAt(file, FileHeaderSize, w.key)
          /\ file.header.keyLength = w.key /\ file.size - FileEOFSize = OuterEOF(w)
          /\ file.size \in Nat
        BY <2>1, <2>2, <2>4, WrittenReads
    <2>7. size = file.size /\ entry.header = file.header
        BY <1>1, <2>1, AllFound
    <2>8. entry.key = BytesAt(file, FileHeaderSize, w.key)
        BY <1>1, <2>1, <2>6, <2>7 DEF Undisturbed, KeyFound
    <2>9. StoredDigest(offset) = entry.key
        BY <2>5, <2>6, <2>8 DEF StoredDigest
    <2>10. /\ offset \in Nat /\ OuterEOF(w) = offset + SHASize
           /\ FileEOFSize \in Nat /\ SHASize \in Nat
        BY <2>1, <2>2, <2>4, <2>5, WrittenOffsets, SizesAssumption
    <2> HIDE DEF w, offset
    <2>11. Readable(offset, SHASize, size)
        BY <2>6, <2>7, <2>10 DEF Readable, InRange
    <2>12. entry' = [entry EXCEPT !.keySHA = "verified"]
        BY <2>1, <2>9, <2>11 DEF VerifyKeySHA, ReadFails, offset
    <2>13. entry'.keySHA = "verified" /\ entry'.warnings = entry.warnings
        BY <1>1, <2>12 DEF EntryType
    <2>14. QED
        BY <2>2, <2>3, <2>13
<1>3. DOMAIN streams' = {0, 1}
    BY <1>1
<1>4. QED
    BY <1>1, <1>2, <1>3, RecoveringKept, TwoStreams

\* Stream 0 may make no sense, but nothing was verified about it before.
LEMMA RecoveringParseHTTP ==
    LayoutInv /\ Undisturbed /\ Recovering /\ ParseHTTP => Recovering'
<1> SUFFICES ASSUME LayoutInv, Undisturbed, Recovering, ParseHTTP PROVE Recovering'
    OBVIOUS
<1>1. /\ DOMAIN streams = {0, 1} /\ UNCHANGED <<file, suffix, streams>> /\ pc = "http"
      /\ entry \in EntryType /\ outcome' = "ok" /\ pc' = "done"
    BY DEF ParseHTTP, LayoutInv, StepsInOrder, TypeOK, Return
<1>2. \/ entry' = [entry EXCEPT !.http = TRUE]
      \/ \E kind \in {"no metadata", "bad metadata"} : entry' = Warn(entry, {<<kind, 0>>})
    BY DEF ParseHTTP
<1>3. ASSUME NEW kind \in {"no metadata", "bad metadata"}, entry' = Warn(entry, {<<kind, 0>>})
      PROVE  /\ entry'.keySHA = entry.keySHA
             /\ entry.warnings \subseteq Unlooked => entry'.warnings \subseteq Unlooked
    <2>1. <<kind, 0>> \in Unlooked /\ <<kind, 0>> \in Warnings
        BY <1>3 DEF Unlooked, Warnings, WarningKinds
    <2>2. entry'.keySHA = entry.keySHA /\ entry'.warnings = entry.warnings \cup {<<kind, 0>>}
        <3>1. {<<kind, 0>>} \in SUBSET Warnings
            BY <2>1
        <3>2. QED
            BY <1>1, <1>3, <3>1, WarnKeeps
    <2>3. QED
        BY <2>1, <2>2
<1>4. ASSUME entry' = [entry EXCEPT !.http = TRUE]
      PROVE  entry'.keySHA = entry.keySHA /\ entry'.warnings = entry.warnings
    BY <1>1, <1>4 DEF EntryType
<1>5. /\ entry'.keySHA = entry.keySHA
      /\ entry.warnings \subseteq Unlooked => entry'.warnings \subseteq Unlooked
    BY <1>2, <1>3, <1>4
<1>6. Recoverable => /\ file.of.layout = "combined" /\ entry'.warnings \subseteq Unlooked
                     /\ file.of.sha => entry'.keySHA = "verified"
    BY <1>1, <1>5 DEF Recovering
<1>7. DOMAIN streams' = {0, 1}
    BY <1>1
<1>8. QED
    BY <1>1, <1>6, <1>7, RecoveringKept, TwoStreams

\* A file that changes is not one that has to be recovered.
LEMMA RecoveringOthers ==
    LayoutInv /\ Undisturbed /\ Recovering /\ (Change \/ UNCHANGED vars) => Recovering'
<1> SUFFICES ASSUME Recovering, Change \/ UNCHANGED vars PROVE Recovering'
    OBVIOUS
<1>1. CASE Change
    <2>1. file' \in Unstable
        BY <1>1 DEF Change
    <2>2. ~Recoverable'
        BY <2>1 DEF Recoverable
    <2>3. QED
        BY <2>2 DEF Recovering
<1>2. CASE UNCHANGED vars
    <2>1. UNCHANGED <<file, suffix, pc, entry, streams, outcome>>
        BY <1>2 DEF vars
    <2>2. QED
        BY <2>1 DEF Recovering, Recoverable, NameFits
<1>3. QED
    BY <1>1, <1>2

\* The parse of a file that has to be recovered meets no error, and warns only of
\* what it did not look at.
THEOREM Recovers == Spec => []Recovering
<1>1. LayoutInv /\ Undisturbed /\ Recovering /\ [Next]_vars => Recovering'
    <2> SUFFICES ASSUME LayoutInv, Undisturbed, Recovering, [Next]_vars PROVE Recovering'
        OBVIOUS
    <2>1. CASE Open \/ ReadHeader \/ ReadKey \/ ReadLastEOF
        BY <2>1, RecoveringEarly
    <2>2. CASE ReadCombined
        BY <2>2, RecoveringReadCombined
    <2>3. CASE TakeStream2
        BY <2>3, RecoveringTakeStream2
    <2>4. CASE Validate0 \/ Validate1 \/ Validate2
        BY <2>4, RecoveringValidate
    <2>5. CASE SayFallenBack
        BY <2>5, RecoveringSayFallenBack
    <2>6. CASE Digest
        BY <2>6, RecoveringDigest
    <2>7. CASE VerifyKeySHA
        BY <2>7, RecoveringVerifyKeySHA
    <2>8. CASE ParseHTTP
        BY <2>8, RecoveringParseHTTP
    <2>9. CASE Change \/ Terminated \/ UNCHANGED vars
        BY <2>9, RecoveringOthers DEF Terminated
    <2>10. QED
        BY <2>1, <2>2, <2>3, <2>4, <2>5, <2>6, <2>7, <2>8, <2>9 DEF Next, Parse
<1>2. QED
    BY <1>1, RecoveringInit, LayoutInvariant, FindsWhatIsThere, PTL DEF Spec

\* An intact file is recovered as it was written: key, streams, and everything
\* that is verified is found to be right.
THEOREM IntactIsRecovered == Spec => []IntactRecovered
<1>1. LayoutInv /\ Undisturbed /\ Recovering => IntactRecovered
    <2> DEFINE w == file.of
    <2> SUFFICES ASSUME LayoutInv, Undisturbed, Recovering, pc = "done", Recoverable
                 PROVE  /\ outcome = "ok" /\ Regions = WrittenRegions(w)
                        /\ entry.key = BytesAt(file, FileHeaderSize, w.key) /\ entry.keyVerified
                        /\ w.layout = "combined" /\ w.sha => entry.keySHA = "verified"
                        /\ entry.warnings \subseteq Unlooked
        BY DEF IntactRecovered, Recoverable
    <2>1. changes = 0 /\ w \in WritingType /\ AsWritten(file, w)
        BY RecoverableWritten
    <2>2. /\ outcome = "ok" /\ entry.warnings \subseteq Unlooked
          /\ DOMAIN streams = {0, 1} /\ w.sha => entry.keySHA = "verified"
          /\ DOMAIN streams = {2} => w.layout = "stream2"
        BY DEF Recovering, LayoutInv, StepsInOrder
    <2>3. AfterLast /\ AfterKey
        BY <2>2 DEF AfterLast, AfterKey
    <2>4. DOMAIN streams = {0, 1} \/ DOMAIN streams = {2}
        BY <2>2 DEF LayoutInv, StepsInOrder, TypeOK, StreamSets
    <2>5. Regions = WrittenRegions(w)
        BY <2>3, <2>4, RecoveredPlaces
    <2>6. /\ file.header.keyLength = w.key
          /\ file.header.keyHash = BytesAt(file, FileHeaderSize, w.key)
        BY <2>1, WrittenReads
    <2>7. entry.header = file.header
        BY <2>1, <2>3, AllFound
    <2>8. entry.key = BytesAt(file, FileHeaderSize, w.key) /\ entry.keyVerified
        BY <2>1, <2>3, <2>6, <2>7 DEF Undisturbed, KeyFound
    <2>9. QED
        BY <2>2, <2>4, <2>5, <2>8
<1>2. QED
    BY <1>1, LayoutInvariant, FindsWhatIsThere, Recovers, PTL
=============================================================================
