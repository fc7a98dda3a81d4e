--------------------------- MODULE SimpleCacheFiles ---------------------------
(***************************************************************************)
(* Simple Cache entry files as values: what Chrome writes, as far as the    *)
(* tool relies on it, and what a disk, a crash or another writer can make   *)
(* of it.  Sizes are constants, so that small ones can be checked.          *)
(*                                                                          *)
(*   combined   header | key | stream 1 | EOF 1 | stream 0 | [SHA] | EOF 0  *)
(*   stream2    header | key | stream 2 | EOF 2                             *)
(*                                                                          *)
(* The bytes of a region are not spelled out: they are named by where they  *)
(* were written and by which of them have been altered since, so a checksum *)
(* is the value it was computed from.                                       *)
(***************************************************************************)
EXTENDS Integers, Functions

CONSTANTS FileHeaderSize, FileEOFSize, SHASize

ASSUME SizesAssumption ==
    FileHeaderSize \in Nat \ {0} /\ FileEOFSize \in Nat \ {0} /\ SHASize \in Nat \ {0}

Bytes == [entry : Int, offset : Int, length : Int, altered : SUBSET Int]

Nothing == [entry |-> 0, offset |-> 0, length |-> 0, altered |-> {}]
Garbage == [Nothing EXCEPT !.entry = -1]

FooterType == [hasCRC : BOOLEAN, hasSHA : BOOLEAN, unknown : BOOLEAN, crc : Bytes,
               streamSize : Nat]
HeaderType == [magic : BOOLEAN, version : BOOLEAN, keyLength : Nat, keyHash : Bytes]

\* footers holds the footers by their offsets, digests the key digests.
IsFile(f) == /\ f.size \in Nat /\ f.id \in Int /\ f.altered \in SUBSET Int
             /\ f.header \in HeaderType
             /\ \A o \in DOMAIN f.footers : f.footers[o] \in FooterType
             /\ \A o \in DOMAIN f.digests : f.digests[o] \in Bytes

\* What reading length bytes at offset gives; a read beyond the end is short.
BytesAt(f, offset, length) ==
    LET there == IF f.size - offset < length THEN f.size - offset ELSE length
    IN IF there <= 0 THEN Nothing
       ELSE [entry |-> f.id, offset |-> offset, length |-> there,
             altered |-> {o \in f.altered : offset <= o /\ o < offset + there}]

-----------------------------------------------------------------------------
(* What is written.  w says which layout, how long each part is, whether     *)
(* footers carry a CRC and the key a digest, and whether the body happens to *)
(* end in bytes that look like a footer.                                     *)

BodyOffset(w) == FileHeaderSize + w.key
InnerEOF(w) == BodyOffset(w) + w.body
MetaOffset(w) == InnerEOF(w) + FileEOFSize
DigestOffset(w) == MetaOffset(w) + w.meta
OuterEOF(w) == IF w.layout = "stream2" THEN InnerEOF(w)
               ELSE DigestOffset(w) + (IF w.sha THEN SHASize ELSE 0)

WritingType == [layout : {"combined", "stream2"}, key : Nat, body : Nat, meta : Nat,
                sha : BOOLEAN, crc : BOOLEAN, lookalike : BOOLEAN]

Footer(hasCRC, hasSHA, crc, streamSize) ==
    [hasCRC |-> hasCRC, hasSHA |-> hasSHA, unknown |-> FALSE, crc |-> crc,
     streamSize |-> streamSize]

\* An entry file as it was written; id tells it from other files.
Written(w, id) ==
    LET blank == [id |-> id, of |-> w, damage |-> 0, size |-> OuterEOF(w) + FileEOFSize,
                  altered |-> {}]
        body == BytesAt(blank, BodyOffset(w), w.body)
        meta == BytesAt(blank, MetaOffset(w), w.meta)
        key == BytesAt(blank, FileHeaderSize, w.key)
        lookalikes == IF w.lookalike THEN {InnerEOF(w) - FileEOFSize} ELSE {}
    IN [id |-> id, of |-> w, damage |-> 0, size |-> blank.size, altered |-> {},
        header |-> [magic |-> TRUE, version |-> TRUE, keyLength |-> w.key, keyHash |-> key],
        footers |-> [o \in {InnerEOF(w), OuterEOF(w)} \cup lookalikes |->
                        IF o = InnerEOF(w) THEN Footer(w.crc, FALSE, body, 0)
                        ELSE IF o = OuterEOF(w) THEN Footer(w.crc, w.sha, meta, w.meta)
                        ELSE Footer(FALSE, FALSE, Garbage, 0)],
        digests |-> [o \in IF w.layout = "combined" /\ w.sha THEN {DigestOffset(w)} ELSE {}
                        |-> key]]

-----------------------------------------------------------------------------
(* What can become of it.                                                    *)

Damaged(f) == [f EXCEPT !.damage = @ + 1]

\* One byte after the header is altered; a footer or digest it lies in is gone.
Altered(f, o) ==
    [Damaged(f) EXCEPT
        !.altered = @ \cup {o},
        !.footers = Restrict(@, {e \in DOMAIN @ : o < e \/ e + FileEOFSize <= o}),
        !.digests = Restrict(@, {e \in DOMAIN @ : o < e \/ e + SHASize <= o})]

\* The file is cut off.
Cut(f, size) ==
    [Damaged(f) EXCEPT
        !.size = size,
        !.footers = Restrict(@, {e \in DOMAIN @ : e + FileEOFSize <= size}),
        !.digests = Restrict(@, {e \in DOMAIN @ : e + SHASize <= size})]

\* A field of a footer or of the header has another value.
FooterVariants(g, lengths) ==
    {[g EXCEPT !.streamSize = n] : n \in lengths}
    \cup {[g EXCEPT !.hasCRC = ~@], [g EXCEPT !.hasSHA = ~@], [g EXCEPT !.unknown = TRUE],
          [g EXCEPT !.crc = Garbage]}

HeaderVariants(h, lengths) ==
    {[h EXCEPT !.keyLength = n] : n \in lengths}
    \cup {[h EXCEPT !.magic = FALSE], [h EXCEPT !.version = FALSE], [h EXCEPT !.keyHash = Garbage]}

\* Every file one damage away from f.
Damages(f, lengths) ==
    {Altered(f, o) : o \in FileHeaderSize .. f.size - 1}
    \cup {Cut(f, size) : size \in 0 .. f.size - 1}
    \cup (UNION {{[Damaged(f) EXCEPT !.footers[e] = g] : g \in FooterVariants(f.footers[e], lengths)}
                    : e \in DOMAIN f.footers})
    \cup {[Damaged(f) EXCEPT !.header = h] : h \in HeaderVariants(f.header, lengths)}
=============================================================================
