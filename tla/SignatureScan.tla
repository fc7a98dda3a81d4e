---------------------------- MODULE SignatureScan ----------------------------
(***************************************************************************)
(* signatures.Find: every image signature in the part of a file that was    *)
(* read, first one pattern after another, then the containers; and          *)
(* signatures.Detect, which Extract asks about the first bytes of a body.   *)
(*                                                                          *)
(* A cell of the data is a byte of a pattern or a four-byte word of a       *)
(* container; a word read as a length claims Claim[cell] cells.  Offsets    *)
(* count from 1.                                                            *)
(***************************************************************************)
EXTENDS Integers, Sequences

CONSTANTS Cells,     \* bytes and words
          Files,     \* what a file may hold
          Window,    \* how much of it scan reads
          HeaderLength, \* how much of a body Extract looks at
          Patterns,  \* the patterns, as <<type, bytes>>, in the order of the search
          Brands,    \* the brands of ftyp: the type of each
          Claim      \* the length a word stands for

ASSUME FilesAssumption == Files \subseteq Seq(Cells) /\ Window \in Nat /\ HeaderLength \in Nat
ASSUME PatternsAssumption ==
    /\ Patterns \in Seq(STRING \X (Seq(Cells) \ {<<>>}))
    /\ Brands \in [DOMAIN Brands -> STRING] /\ DOMAIN Brands \subseteq Cells
    /\ Claim \in [Cells -> Nat]

VARIABLES whole, \* the file
          data,  \* what was read of it
          turn,  \* the pattern looked for
          from,  \* where the search goes on
          out    \* the matches
findVars == <<whole, data, turn, from, out>>

FindInit == /\ whole \in Files
        /\ data = SubSeq(whole, 1, IF Window < Len(whole) THEN Window ELSE Len(whole))
        /\ turn = 1 /\ from = 1
        /\ out = <<>>

-----------------------------------------------------------------------------

\* Whether a pattern stands at a place.
Stands(pattern, at) ==
    /\ at + Len(pattern) - 1 <= Len(data)
    /\ \A i \in 1 .. Len(pattern) : data[at + i - 1] = pattern[i]

\* Variant: the search goes on behind the match.
SearchPatternBehind ==
    /\ turn <= Len(Patterns)
    /\ \E at \in from .. Len(data) :
           /\ Stands(Patterns[turn][2], at)
           /\ \A earlier \in from .. at - 1 : ~Stands(Patterns[turn][2], earlier)
           /\ out' = Append(out, <<Patterns[turn][1], at>>)
           /\ from' = at + Len(Patterns[turn][2])
    /\ UNCHANGED <<whole, data, turn>>

\* The next match of the pattern; the search goes on one byte further.
SearchPattern ==
    /\ turn <= Len(Patterns)
    /\ \E at \in from .. Len(data) :
           /\ Stands(Patterns[turn][2], at)
           /\ \A earlier \in from .. at - 1 : ~Stands(Patterns[turn][2], earlier)
           /\ out' = Append(out, <<Patterns[turn][1], at>>)
           /\ from' = at + 1
    /\ UNCHANGED <<whole, data, turn>>

\* No more: the next pattern, from the beginning.
NextPattern ==
    /\ turn <= Len(Patterns)
    /\ \A at \in from .. Len(data) : ~Stands(Patterns[turn][2], at)
    /\ turn' = turn + 1 /\ from' = 1
    /\ UNCHANGED <<whole, data, out>>

WebPNamed(cells, at) == cells[at] = "RIFF" /\ cells[at + 2] = "WEBP"

\* The image with its first two words: no shorter than its header, and within
\* what there is.
WebP(cells, at, total) ==
    /\ WebPNamed(cells, at)
    /\ Claim[cells[at + 1]] + 2 >= 3 /\ Claim[cells[at + 1]] + 2 <= total - at + 1

Branded(cells, at) == cells[at + 1] = "ftyp" /\ cells[at + 2] \in DOMAIN Brands

\* Variant: the last place a header fits in is left out.
LastContainerShort == Len(data) - 3

\* A container's header takes three words.
LastContainer == Len(data) - 2

\* Whether a container begins at the next place.
SearchContainer ==
    /\ turn = Len(Patterns) + 1
    /\ from <= LastContainer
    /\ out' = out \o (IF WebP(data, from, Len(data)) THEN << <<"webp", from>> >> ELSE <<>>)
                  \o (IF Branded(data, from) THEN << <<Brands[data[from + 2]], from>> >> ELSE <<>>)
    /\ from' = from + 1
    /\ UNCHANGED <<whole, data, turn>>

Finish == /\ turn = Len(Patterns) + 1
          /\ from > LastContainer
          /\ turn' = turn + 1
          /\ UNCHANGED <<whole, data, from, out>>

FindReturned == turn = Len(Patterns) + 2 /\ UNCHANGED findVars

FindNext == SearchPattern \/ NextPattern \/ SearchContainer \/ Finish \/ FindReturned

FindSpec == FindInit /\ [][FindNext]_findVars

-----------------------------------------------------------------------------
(* Detect.                                                                  *)

StandsFirst(pattern, header) == /\ Len(pattern) <= Len(header)
                                /\ SubSeq(header, 1, Len(pattern)) = pattern

NoType == ""

\* The type of the image of total cells that begins with the header, or none: the
\* first pattern that fits decides, and so does the name of WebP, also where it
\* claims a length that cannot be.
DetectSignature(header, total) ==
    IF \E p \in 1 .. Len(Patterns) : StandsFirst(Patterns[p][2], header)
    THEN Patterns[CHOOSE p \in 1 .. Len(Patterns) :
                    /\ StandsFirst(Patterns[p][2], header)
                    /\ \A q \in 1 .. p - 1 : ~StandsFirst(Patterns[q][2], header)][1]
    ELSE IF Len(header) < 3 THEN NoType
    ELSE IF WebPNamed(header, 1) THEN IF WebP(header, 1, total) THEN "webp" ELSE NoType
    ELSE IF Branded(header, 1) THEN Brands[header[3]]
    ELSE NoType

\* The part of the file that is an uncoded body, and what detectImage reads of it.
BodySize(start, stop) == stop - start + 1
HeaderOf(start, stop) ==
    SubSeq(whole, start, IF BodySize(start, stop) < HeaderLength THEN stop
                         ELSE start + HeaderLength - 1)

-----------------------------------------------------------------------------
(* Properties.                                                              *)

Types == {Patterns[p][1] : p \in 1 .. Len(Patterns)} \cup {"webp"} \cup {Brands[b] : b \in DOMAIN Brands}

FindTypeOK ==
    /\ whole \in Seq(Cells) /\ data \in Seq(Cells)
    /\ turn \in 1 .. Len(Patterns) + 2
    /\ from \in 1 .. Len(data) + 1
    /\ out \in Seq(Types \X (1 .. Len(data)))

Finished == turn = Len(Patterns) + 2
Matches == {out[i] : i \in 1 .. Len(out)}

Expected ==
    {m \in Types \X (1 .. Len(data)) :
        \/ \E p \in 1 .. Len(Patterns) : m[1] = Patterns[p][1] /\ Stands(Patterns[p][2], m[2])
        \/ /\ m[2] <= Len(data) - 2
           /\ \/ m[1] = "webp" /\ WebP(data, m[2], Len(data))
              \/ Branded(data, m[2]) /\ m[1] = Brands[data[m[2] + 2]]}

\* Every signature is found, wherever it stands, also where it overlaps another
\* one or ends with the data, and nothing else is.
EverySignature == Finished => Matches = Expected

\* What decides the type of a body lies in the part of the file scan has read: the
\* header, and all that a WebP image claims.
InSight(start, header) ==
    /\ start + Len(header) - 1 <= Len(data)
    /\ Len(header) >= 3 /\ WebPNamed(header, 1) => start + Claim[header[2]] + 1 <= Len(data)

\* Wherever in the file the uncoded body of an entry lies, what Extract takes it for
\* is a signature scan reports at its beginning; only a body that begins beyond the
\* limit of the scan, or a WebP image that goes beyond it, is extracted unseen.
AgreesWithDetect ==
    Finished =>
        \A start \in 1 .. Len(whole) : \A stop \in start .. Len(whole) :
            LET header == HeaderOf(start, stop)
                type == DetectSignature(header, BodySize(start, stop))
            IN type # NoType /\ InSight(start, header) => <<type, start>> \in Matches
==============================================================================
