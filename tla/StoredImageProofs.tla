-------------------------- MODULE StoredImageProofs --------------------------
(***************************************************************************)
(* Proofs about ResponsePickle and StoredImage.                             *)
(*                                                                          *)
(* Of the pickle, for streams of any length and any claims: no read leaves  *)
(* the payload, and an intact pickle's headers are found where they were    *)
(* written.                                                                 *)
(*                                                                          *)
(* Of the entry, for headers and stacks of codings of any length: what the  *)
(* headers declare is undone and nothing else, and no decoder stays open.   *)
(***************************************************************************)
EXTENDS StoredImage, SequenceTheorems, WellFoundedInduction, TLAPS

-----------------------------------------------------------------------------
(* The pickle.                                                              *)

ExtraLength == IF data.extra THEN 4 ELSE 0
OriginalLength == IF data.extra /\ data.original THEN 8 ELSE 0

\* Where the cursor stands before each field.
Place ==
    /\ field = "flags" => cursor = from
    /\ field = "extra" => cursor = from + 4 /\ data.extra
    /\ field = "request" => cursor = from + 4 + ExtraLength
    /\ field = "response" => cursor = from + 12 + ExtraLength
    /\ field = "original" => cursor = from + 20 + ExtraLength /\ data.extra /\ data.original
    /\ field = "length" => cursor = from + 20 + ExtraLength + OriginalLength
    /\ field = "string" => cursor = from + FieldsLength

\* The payload, once it was found, and what has been read of it.
Located ==
    /\ field \notin {"size", "error"} => /\ from = data.len - data.payload /\ from >= 4
                                         /\ from <= cursor /\ cursor <= data.len
    /\ field \notin {"size", "flags", "error"} => KnownVersion
    /\ field = "done" => raw = [first |-> from + FieldsLength, end |-> from + FieldsLength + data.length]
    /\ field = "error" => ~Intact

CursorInv == TypeOK /\ StaysInside /\ Place /\ Located

\* A stream is a record of numbers and flags.
LEMMA Measured ==
    ASSUME TypeOK
    PROVE  /\ data.len \in Nat /\ data.payload \in Nat /\ data.version \in Nat /\ data.length \in Nat
           /\ data.extra \in BOOLEAN /\ data.original \in BOOLEAN
           /\ ExtraLength \in {0, 4} /\ OriginalLength \in {0, 8}
           /\ FieldsLength = 24 + ExtraLength + OriginalLength
<1>1. data \in StreamType
    BY StreamsAssumption DEF TypeOK
<1>2. QED
    BY <1>1 DEF StreamType, ExtraLength, OriginalLength, FieldsLength

LEMMA InitCursor == Init => CursorInv
<1> SUFFICES ASSUME Init PROVE CursorInv
    OBVIOUS
<1>1. data \in Streams /\ field = "size" /\ cursor = 0 /\ from = 0 /\ raw = None /\ last = None
    BY DEF Init
<1>2. None \in [first : Nat, end : Nat] /\ None.first = 0 /\ None.end = 0
    BY DEF None
<1>3. data.len \in Nat
    BY <1>1, StreamsAssumption DEF StreamType
<1>4. TypeOK
    BY <1>1, <1>2 DEF TypeOK
<1>5. StaysInside
    BY <1>1, <1>2, <1>3 DEF StaysInside
<1>6. Place /\ Located
    BY <1>1 DEF Place, Located
<1>7. QED
    BY <1>4, <1>5, <1>6 DEF CursorInv

LEMMA ReadSizeKeeps == ASSUME CursorInv, ReadSize PROVE CursorInv'
<1>1. field = "size" /\ UNCHANGED <<data, raw>>
    BY DEF ReadSize
<1>2. /\ data.len \in Nat /\ data.payload \in Nat /\ FieldsLength >= 24 /\ FieldsLength \in Nat
      /\ data.length \in Nat
    BY Measured DEF CursorInv
<1>3. CASE data.len >= 4 /\ PayloadFits
    <2>1. /\ field' = "flags" /\ cursor' = HeaderSize /\ from' = HeaderSize
          /\ last' = [first |-> 0, end |-> 4]
        BY <1>3 DEF ReadSize
    <2>2. HeaderSize \in Nat /\ HeaderSize >= 4 /\ HeaderSize <= data.len
          /\ HeaderSize + data.payload = data.len
        BY <1>2, <1>3 DEF PayloadFits, HeaderSize
    <2>3. TypeOK'
        BY <1>1, <2>1, <2>2 DEF CursorInv, TypeOK
    <2>4. StaysInside'
        BY <1>1, <1>2, <1>3, <2>1, <2>2 DEF StaysInside
    <2>5. Place' /\ Located'
        BY <1>1, <1>2, <2>1, <2>2 DEF Place, Located, HeaderSize
    <2>6. QED
        BY <2>3, <2>4, <2>5 DEF CursorInv
<1>4. CASE ~(data.len >= 4 /\ PayloadFits)
    <2>1. field' = "error" /\ UNCHANGED <<cursor, from, last>>
        BY <1>4 DEF ReadSize
    <2>2. ~Intact
        BY <1>2, <1>4 DEF Intact, PayloadFits, HeaderSize
    <2>3. TypeOK' /\ StaysInside' /\ Place'
        BY <1>1, <2>1 DEF CursorInv, TypeOK, StaysInside, Place
    <2>4. Located'
        BY <1>1, <2>1, <2>2 DEF Located, Intact, FieldsLength
    <2>5. QED
        BY <2>3, <2>4 DEF CursorInv
<1>5. QED
    BY <1>3, <1>4

\* A field of n bytes: where the cursor goes, and what it means if it cannot.
LEMMA FieldKeeps ==
    ASSUME CursorInv, NEW n \in {4, 8},
           NEW following \in {"extra", "request", "response", "original", "length", "string", "error"},
           Field(n, following), field \notin {"size", "string", "done", "error"},
           Intact => cursor <= data.len - n,
           following = "error" => ~KnownVersion,
           following # "error" => KnownVersion,
           (following # "error" /\ field' = following /\ cursor' = cursor + n /\ UNCHANGED <<data, from>>)
                => Place'
    PROVE  CursorInv'
<1>1. /\ UNCHANGED <<data, from, raw>> /\ data.len \in Nat /\ cursor \in Nat /\ from \in Nat
      /\ from >= 4 /\ from <= cursor /\ cursor <= data.len /\ from = data.len - data.payload
    BY Measured DEF CursorInv, TypeOK, Located, Field
<1>2. CASE InBounds(n)
    <2>1. /\ field' = following /\ cursor' = cursor + n
          /\ last' = [first |-> cursor, end |-> cursor + n] /\ cursor + n <= data.len
        BY <1>1, <1>2 DEF Field, InBounds
    <2>2. TypeOK'
        BY <1>1, <2>1 DEF CursorInv, TypeOK
    <2>3. StaysInside'
        BY <1>1, <2>1 DEF CursorInv, StaysInside
    <2>4. Place'
        BY <1>1, <2>1 DEF Place
    <2>5. Located'
        BY <1>1, <2>1 DEF Located, KnownVersion, Intact, FieldsLength
    <2>6. QED
        BY <2>2, <2>3, <2>4, <2>5 DEF CursorInv
<1>3. CASE ~InBounds(n)
    <2>1. field' = "error" /\ UNCHANGED <<cursor, last>>
        BY <1>3 DEF Field
    <2>2. ~Intact
        BY <1>1, <1>3 DEF InBounds
    <2>3. TypeOK' /\ StaysInside' /\ Place'
        BY <1>1, <2>1 DEF CursorInv, TypeOK, StaysInside, Place
    <2>4. Located'
        BY <1>1, <2>1, <2>2 DEF Located, Intact, FieldsLength
    <2>5. QED
        BY <2>3, <2>4 DEF CursorInv
<1>4. QED
    BY <1>2, <1>3

\* An intact payload is long enough for all of its fields.
LEMMA Room ==
    ASSUME CursorInv, Intact
    PROVE  /\ data.len = data.payload + 4 /\ KnownVersion /\ data.length > 0
           /\ data.payload >= 24 + ExtraLength + OriginalLength + data.length
    BY Measured DEF CursorInv, Intact, KnownVersion

LEMMA ReadFieldKeeps ==
    ASSUME CursorInv,
           ReadFlags \/ ReadExtra \/ ReadRequestTime \/ ReadResponseTime \/ ReadOriginalTime \/ ReadLength
    PROVE  CursorInv'
<1>1. /\ data.len \in Nat /\ cursor \in Nat /\ from \in Nat /\ data.length \in Nat
      /\ data.payload \in Nat /\ ExtraLength \in {0, 4} /\ OriginalLength \in {0, 8}
      /\ FieldsLength = 24 + ExtraLength + OriginalLength
    BY Measured DEF CursorInv, TypeOK
<1>2. CASE ReadFlags
    <2>1. field = "flags" /\ cursor = from /\ from = data.len - data.payload
        BY <1>2 DEF ReadFlags, CursorInv, Place, Located
    <2>2. Intact => cursor <= data.len - 4
        BY <1>1, <2>1, Room
    <2> DEFINE next == IF ~KnownVersion THEN "error" ELSE IF data.extra THEN "extra" ELSE "request"
    <2>3. Field(4, next)
        BY <1>2 DEF ReadFlags
    <2>4. /\ next \in {"extra", "request", "error"}
          /\ next = "error" => ~KnownVersion
          /\ next # "error" => KnownVersion
          /\ next = "extra" => data.extra /\ ExtraLength = 4
          /\ next = "request" => ExtraLength = 0
        BY DEF ExtraLength
    <2> HIDE DEF next
    <2>5. ASSUME next # "error", field' = next, cursor' = cursor + 4, UNCHANGED <<data, from>>
          PROVE  Place'
        BY <1>1, <2>1, <2>4, <2>5 DEF Place, ExtraLength
    <2>6. QED
        BY <2>1, <2>2, <2>3, <2>4, <2>5, FieldKeeps
<1>3. CASE ReadExtra
    <2>1. /\ field = "extra" /\ cursor = from + 4 /\ data.extra /\ from = data.len - data.payload
          /\ KnownVersion /\ Field(4, "request")
        BY <1>3 DEF ReadExtra, CursorInv, Place, Located
    <2>2. Intact => cursor <= data.len - 4
        BY <1>1, <2>1, Room
    <2>3. ASSUME field' = "request", cursor' = cursor + 4, UNCHANGED <<data, from>> PROVE Place'
        <3>1. ExtraLength' = 4
            BY <2>1, <2>3 DEF ExtraLength
        <3>2. cursor' = from' + 4 + 4
            BY <1>1, <2>1, <2>3
        <3>3. QED
            BY <2>3, <3>1, <3>2 DEF Place
    <2>4. QED
        BY <2>1, <2>2, <2>3, FieldKeeps
<1>4. CASE ReadRequestTime
    <2>1. /\ field = "request" /\ cursor = from + 4 + ExtraLength /\ from = data.len - data.payload
          /\ KnownVersion /\ Field(8, "response")
        BY <1>4 DEF ReadRequestTime, CursorInv, Place, Located
    <2>2. Intact => cursor <= data.len - 8
        BY <1>1, <2>1, Room
    <2>3. ASSUME field' = "response", cursor' = cursor + 8, UNCHANGED <<data, from>> PROVE Place'
        BY <1>1, <2>1, <2>3 DEF Place, ExtraLength
    <2>4. QED
        BY <2>1, <2>2, <2>3, FieldKeeps
<1>5. CASE ReadResponseTime
    <2>1. /\ field = "response" /\ cursor = from + 12 + ExtraLength /\ from = data.len - data.payload
          /\ KnownVersion
        BY <1>5 DEF ReadResponseTime, CursorInv, Place, Located
    <2>2. Intact => cursor <= data.len - 8
        BY <1>1, <2>1, Room
    <2> DEFINE next == IF data.extra /\ data.original THEN "original" ELSE "length"
    <2>3. Field(8, next)
        BY <1>5 DEF ReadResponseTime
    <2>4. /\ next \in {"original", "length"}
          /\ next = "original" => data.extra /\ data.original
          /\ next = "length" => OriginalLength = 0
        BY DEF OriginalLength
    <2> HIDE DEF next
    <2>5. ASSUME field' = next, cursor' = cursor + 8, UNCHANGED <<data, from>> PROVE Place'
        BY <1>1, <2>1, <2>4, <2>5 DEF Place, ExtraLength, OriginalLength
    <2>6. QED
        BY <2>1, <2>2, <2>3, <2>4, <2>5, FieldKeeps
<1>6. CASE ReadOriginalTime
    <2>1. /\ field = "original" /\ cursor = from + 20 + ExtraLength /\ data.extra /\ data.original
          /\ from = data.len - data.payload /\ KnownVersion /\ Field(8, "length")
        BY <1>6 DEF ReadOriginalTime, CursorInv, Place, Located
    <2>2. OriginalLength = 8
        BY <2>1 DEF OriginalLength
    <2>3. Intact => cursor <= data.len - 8
        BY <1>1, <2>1, <2>2, Room
    <2>4. ASSUME field' = "length", cursor' = cursor + 8, UNCHANGED <<data, from>> PROVE Place'
        BY <1>1, <2>1, <2>2, <2>4 DEF Place, ExtraLength, OriginalLength
    <2>5. QED
        BY <2>1, <2>3, <2>4, FieldKeeps
<1>7. CASE ReadLength
    <2>1. /\ field = "length" /\ cursor = from + 20 + ExtraLength + OriginalLength
          /\ from = data.len - data.payload /\ KnownVersion /\ Field(4, "string")
        BY <1>7 DEF ReadLength, CursorInv, Place, Located
    <2>2. Intact => cursor <= data.len - 4
        BY <1>1, <2>1, Room
    <2>3. ASSUME field' = "string", cursor' = cursor + 4, UNCHANGED <<data, from>> PROVE Place'
        BY <1>1, <2>1, <2>3 DEF Place, FieldsLength
    <2>4. QED
        BY <2>1, <2>2, <2>3, FieldKeeps
<1>8. QED
    BY <1>2, <1>3, <1>4, <1>5, <1>6, <1>7

LEMMA ReadStringKeeps == ASSUME CursorInv, ReadString PROVE CursorInv'
<1>1. /\ data.len \in Nat /\ cursor \in Nat /\ from \in Nat /\ data.length \in Nat
      /\ data.payload \in Nat /\ FieldsLength = 24 + ExtraLength + OriginalLength
      /\ ExtraLength \in {0, 4} /\ OriginalLength \in {0, 8}
    BY Measured DEF CursorInv, TypeOK
<1>2. /\ field = "string" /\ cursor = from + FieldsLength /\ from = data.len - data.payload
      /\ from >= 4 /\ cursor <= data.len /\ KnownVersion /\ UNCHANGED <<data, cursor, from>>
    BY DEF ReadString, CursorInv, Place, Located
<1>3. CASE data.length <= data.len - cursor
    <2> DEFINE string == [first |-> cursor, end |-> cursor + data.length]
    <2>1. /\ raw' = string /\ last' = string
          /\ field' = IF data.length > 0 /\ data.status = "good" THEN "done" ELSE "error"
        BY <1>3 DEF ReadString
    <2>2. string \in [first : Nat, end : Nat] /\ string.first = cursor /\ string.end = cursor + data.length
        BY <1>1
    <2>3. TypeOK'
        BY <1>1, <1>2, <2>1, <2>2 DEF CursorInv, TypeOK
    <2>4. StaysInside'
        BY <1>1, <1>2, <1>3, <2>1, <2>2 DEF StaysInside
    <2>5. Place'
        BY <2>1 DEF Place
    <2>6. field' = "error" => ~Intact
        BY <1>2, <2>1 DEF Intact
    <2>7. Located'
        BY <1>1, <1>2, <2>1, <2>6 DEF Located, KnownVersion, Intact, FieldsLength
    <2>8. QED
        BY <2>3, <2>4, <2>5, <2>7 DEF CursorInv
<1>4. CASE ~(data.length <= data.len - cursor)
    <2>1. field' = "error" /\ UNCHANGED <<raw, last>>
        BY <1>4 DEF ReadString
    <2>2. ~Intact
        BY <1>1, <1>2, <1>4, Room
    <2>3. TypeOK' /\ StaysInside' /\ Place'
        BY <1>2, <2>1 DEF CursorInv, TypeOK, StaysInside, Place
    <2>4. Located'
        BY <1>2, <2>1, <2>2 DEF Located, Intact, FieldsLength
    <2>5. QED
        BY <2>3, <2>4 DEF CursorInv
<1>5. QED
    BY <1>3, <1>4

LEMMA CursorNext == CursorInv /\ [Next]_vars => CursorInv'
<1>1. ASSUME CursorInv, UNCHANGED vars PROVE CursorInv'
    BY <1>1 DEF vars, CursorInv, TypeOK, StaysInside, Place, Located, KnownVersion, Intact,
       FieldsLength, ExtraLength, OriginalLength
<1>2. QED
    BY <1>1, ReadSizeKeeps, ReadFieldKeeps, ReadStringKeeps DEF Next, Read, Returned

\* The inductive invariant: where the cursor stands before each field.
THEOREM CursorInvariant == Spec => []CursorInv
    BY InitCursor, CursorNext, PTL DEF Spec

\* No byte outside the stream is read, whatever sizes it claims.
THEOREM ReadsInside == Spec => []StaysInside
    BY CursorInvariant, PTL DEF CursorInv

\* The headers of an intact pickle are found where they were written.
THEOREM HeadersFound == Spec => []IntactFound
<1>1. CursorInv => IntactFound
    <2> SUFFICES ASSUME CursorInv, field \in {"done", "error"}, Intact
                 PROVE  /\ field = "done"
                        /\ raw = [first |-> 4 + FieldsLength, end |-> 4 + FieldsLength + data.length]
        BY DEF IntactFound
    <2>1. field = "done" /\ from = data.len - data.payload
          /\ raw = [first |-> from + FieldsLength, end |-> from + FieldsLength + data.length]
        BY DEF CursorInv, Located
    <2>2. from = 4
        BY <2>1, Measured DEF CursorInv, Intact
    <2>3. QED
        BY <2>1, <2>2
<1>2. QED
    BY <1>1, CursorInvariant, PTL

-----------------------------------------------------------------------------
(* What a list of codings declares: ContentCoding defines it by recursion.  *)

\* Induction over the numbers, as a set.
LEMMA SetInduction ==
    ASSUME NEW T \in SUBSET Nat, 0 \in T, \A n \in T : n + 1 \in T
    PROVE  T = Nat
<1> SUFFICES ASSUME T # Nat PROVE FALSE
    OBVIOUS
<1> DEFINE R == OpToRel(<, Nat)
<1> DEFINE U == Nat \ T
<1>1. IsWellFoundedOn(R, Nat)
    BY NatLessThanWellFounded
<1>2. U \subseteq Nat /\ U # {}
    OBVIOUS
<1>3. \A x, y \in Nat : x < y => <<x, y>> \in R
    BY DEF OpToRel
<1> HIDE DEF R, U
<1>4. PICK x \in U : \A y \in U : ~ (<<y, x>> \in R)
    BY <1>1, <1>2, WFMin
<1>5. x \in Nat /\ x # 0 /\ x - 1 \in Nat /\ x - 1 < x
    BY <1>2, <1>4 DEF U
<1>6. x - 1 \notin U
    BY <1>3, <1>4, <1>5
<1>7. QED
    BY <1>4, <1>5, <1>6 DEF U

\* What one element of a list adds to what those before it declare.
Declaring(list, n, codings) ==
    IF list[n] \in {"empty", "identity"} THEN codings ELSE Append(codings, Coding!Undoes(list[n]))

NoCodings == <<>>

\* What DeclaredBy is, for the first m elements.
DeclaresUpTo(f, m, list) ==
    f = [n \in 0 .. m |-> IF n = 0 THEN NoCodings ELSE Declaring(list, n, f[n - 1])]

LEMMA DeclaresEach ==
    ASSUME NEW list, NEW m \in Nat, NEW f, DeclaresUpTo(f, m, list)
    PROVE  f[0] = NoCodings /\ \A n \in 1 .. m : f[n] = Declaring(list, n, f[n - 1])
    BY DEF DeclaresUpTo

\* There is such a function for every m.
LEMMA DeclaresExists == \A list : \A m \in Nat : \E f : DeclaresUpTo(f, m, list)
<1> SUFFICES ASSUME NEW list PROVE \A m \in Nat : \E f : DeclaresUpTo(f, m, list)
    OBVIOUS
<1> DEFINE T == {m \in Nat : \E f : DeclaresUpTo(f, m, list)}
<1>1. 0 \in T
    <2> DEFINE f == [n \in 0 .. 0 |-> NoCodings]
    <2>1. \A n \in 0 .. 0 : n = 0
        OBVIOUS
    <2>2. DeclaresUpTo(f, 0, list)
        BY <2>1 DEF DeclaresUpTo
    <2>3. QED
        BY <2>2
<1>2. ASSUME NEW k \in T PROVE k + 1 \in T
    <2>1. PICK f : DeclaresUpTo(f, k, list)
        OBVIOUS
    <2> DEFINE h == [n \in 0 .. k + 1 |-> IF n = k + 1 THEN Declaring(list, n, f[k]) ELSE f[n]]
    <2>2. f[0] = NoCodings /\ \A n \in 1 .. k : f[n] = Declaring(list, n, f[n - 1])
        BY <2>1, DeclaresEach
    <2>3. \A n \in 0 .. k + 1 : h[n] = IF n = k + 1 THEN Declaring(list, n, f[k]) ELSE f[n]
        OBVIOUS
    <2>4. ASSUME NEW n \in 0 .. k + 1
          PROVE  h[n] = IF n = 0 THEN NoCodings ELSE Declaring(list, n, h[n - 1])
        <3> HIDE DEF h
        <3>1. CASE n = 0
            BY <2>2, <2>3, <3>1
        <3>2. CASE n \in 1 .. k
            BY <2>2, <2>3, <3>2
        <3>3. CASE n = k + 1
            BY <2>3, <3>3
        <3>4. QED
            BY <3>1, <3>2, <3>3
    <2>5. h = [n \in 0 .. k + 1 |-> IF n = 0 THEN NoCodings ELSE Declaring(list, n, h[n - 1])]
        BY <2>4
    <2>6. DeclaresUpTo(h, k + 1, list)
        BY <2>5 DEF DeclaresUpTo
    <2> HIDE DEF h
    <2>7. QED
        BY <2>6
<1> HIDE DEF T
<1>3. T = Nat
    BY <1>1, <1>2, SetInduction DEF T
<1>4. QED
    BY <1>3 DEF T

\* The recursion equation of DeclaredBy.
LEMMA DeclaredByIs ==
    ASSUME NEW list, Len(list) \in Nat
    PROVE  /\ Coding!DeclaredBy(list)[0] = <<>>
           /\ \A n \in 1 .. Len(list) :
                 Coding!DeclaredBy(list)[n] = Declaring(list, n, Coding!DeclaredBy(list)[n - 1])
<1> DEFINE d == Coding!DeclaredBy(list)
<1> DEFINE L == Len(list)
<1>0. L \in Nat
    OBVIOUS
<1>1. d = CHOOSE f : DeclaresUpTo(f, L, list)
    BY DEF Coding!DeclaredBy, DeclaresUpTo, Declaring, NoCodings
<1> HIDE DEF d, L
<1>2. \E f : DeclaresUpTo(f, L, list)
    BY <1>0, DeclaresExists
<1>3. DeclaresUpTo(d, L, list)
    BY <1>1, <1>2
<1>4. d[0] = NoCodings /\ \A n \in 1 .. L : d[n] = Declaring(list, n, d[n - 1])
    BY <1>0, <1>3, DeclaresEach
<1>5. QED
    BY <1>4 DEF d, L, NoCodings

\* The elements of a list that declare something.
Undone == Coding!Codings \cup {"zstd"}

LEMMA UndoesTokens ==
    /\ \A t \in Coding!Tokens : t \in {"empty", "identity"} \/ Coding!Undoes(t) \in Undone
    /\ \A t \in Coding!Codings \cup {"x-gzip"} : Coding!Undoes(t) \in Coding!Codings
    BY DEF Coding!Tokens, Coding!Codings, Coding!Undoes, Undone

\* What the first elements declare is a list of codings, and every element that
\* is not skipped is among them from then on.
LEMMA DeclaredByType ==
    ASSUME NEW list \in Seq(Coding!Tokens)
    PROVE  \A n \in 0 .. Len(list) : Coding!DeclaredBy(list)[n] \in Seq(Undone)
<1> DEFINE d == Coding!DeclaredBy(list)
<1> DEFINE L == Len(list)
<1> DEFINE S == Seq(Undone)
<1> DEFINE T == {n \in Nat : n <= L => d[n] \in S}
<1>1. L \in Nat
    BY LenProperties
<1>2. d[0] = <<>> /\ \A n \in 1 .. L : d[n] = Declaring(list, n, d[n - 1])
    BY <1>1, DeclaredByIs
<1>3. <<>> \in S
    BY EmptySeq
<1>4. ASSUME NEW n \in 1 .. L, NEW s \in S
      PROVE  Declaring(list, n, s) \in S
    <2>1. list[n] \in Coding!Tokens
        BY ElementOfSeq
    <2>2. QED
        BY <2>1, UndoesTokens, AppendProperties DEF Declaring
<1> HIDE DEF L, S, d
<1>5. 0 \in T
    BY <1>2, <1>3
<1>6. ASSUME NEW n \in T PROVE n + 1 \in T
    <2>1. CASE n + 1 <= L
        <3>1. d[n] \in S /\ n + 1 \in 1 .. L
            BY <1>1, <2>1
        <3>2. d[n + 1] = Declaring(list, n + 1, d[n])
            BY <1>2, <3>1
        <3>3. QED
            BY <1>4, <3>1, <3>2
    <2>2. CASE ~ (n + 1 <= L)
        BY <2>2
    <2>3. QED
        BY <2>1, <2>2
<1>7. T = Nat
    <2> HIDE DEF T
    <2>1. T \subseteq Nat
        BY DEF T
    <2>2. QED
        BY <1>5, <1>6, <2>1, SetInduction
<1>8. \A n \in 0 .. L : d[n] \in S
    BY <1>1, <1>7
<1>9. QED
    BY <1>8 DEF d, L, S

\* What an element declares stays declared.
LEMMA DeclaredStays ==
    ASSUME NEW list \in Seq(Coding!Tokens), NEW n \in 1 .. Len(list),
           list[n] \notin {"empty", "identity"}
    PROVE  \E i \in 1 .. Len(Coding!Declared(list)) : Coding!Declared(list)[i] = Coding!Undoes(list[n])
<1> DEFINE d == Coding!DeclaredBy(list)
<1> DEFINE L == Len(list)
<1> DEFINE x == Coding!Undoes(list[n])
<1> DEFINE Has(s) == \E i \in 1 .. Len(s) : s[i] = x
<1> DEFINE T == {k \in Nat : n + k <= L => Has(d[n + k])}
<1>1. L \in Nat /\ n \in 1 .. L
    BY LenProperties
<1>2. \A k \in 1 .. L : d[k] = Declaring(list, k, d[k - 1])
    BY <1>1, DeclaredByIs
<1>3. \A k \in 0 .. L : d[k] \in Seq(Undone)
    BY DeclaredByType
<1>4. \A k \in 1 .. L : list[k] \in {"empty", "identity"} \/ Coding!Undoes(list[k]) \in Undone
    BY ElementOfSeq, UndoesTokens
<1>5. ASSUME NEW s \in Seq(Undone), NEW y \in Undone
      PROVE  /\ Has(s) => Has(Append(s, y))
             /\ y = x => Has(Append(s, y))
    <2> DEFINE a == Append(s, y)
    <2>1. /\ Len(a) = Len(s) + 1 /\ Len(s) \in Nat
          /\ \A i \in 1 .. Len(s) : a[i] = s[i]
          /\ a[Len(s) + 1] = y
        BY AppendProperties, LenProperties
    <2> HIDE DEF a
    <2>2. (1 .. Len(s)) \subseteq 1 .. Len(a) /\ Len(s) + 1 \in 1 .. Len(a)
        BY <2>1
    <2> HIDE DEF x
    <2>3. QED
        BY <2>1, <2>2 DEF a
<1>6. ASSUME NEW k \in 1 .. L, Has(d[k - 1]) \/ k = n
      PROVE  Has(d[k])
    <2>1. d[k] = Declaring(list, k, d[k - 1]) /\ d[k - 1] \in Seq(Undone)
        BY <1>1, <1>2, <1>3
    <2> HIDE DEF Has, d
    <2>2. CASE list[k] \in {"empty", "identity"}
        BY <1>6, <2>1, <2>2 DEF Declaring
    <2>3. CASE list[k] \notin {"empty", "identity"}
        <3>1. d[k] = Append(d[k - 1], Coding!Undoes(list[k])) /\ Coding!Undoes(list[k]) \in Undone
            BY <1>4, <2>1, <2>3 DEF Declaring
        <3>2. QED
            BY <1>5, <1>6, <2>1, <3>1
    <2>4. QED
        BY <2>2, <2>3
<1> HIDE DEF L, d, Has
<1>7. 0 \in T
    BY <1>1, <1>6
<1>8. ASSUME NEW k \in T PROVE k + 1 \in T
    <2>1. CASE n + (k + 1) <= L
        <3>1. Has(d[n + k]) /\ n + (k + 1) \in 1 .. L /\ (n + (k + 1)) - 1 = n + k
            BY <1>1, <2>1
        <3>2. QED
            BY <1>6, <3>1
    <2>2. CASE ~ (n + (k + 1) <= L)
        BY <2>2
    <2>3. QED
        BY <2>1, <2>2
<1>9. T = Nat
    <2>1. T \subseteq Nat
        OBVIOUS
    <2> HIDE DEF T
    <2>2. QED
        BY <1>7, <1>8, <2>1, SetInduction
<1>10. L - n \in Nat /\ n + (L - n) = L
    BY <1>1
<1>11. Has(d[L])
    BY <1>9, <1>10
<1>12. QED
    BY <1>11 DEF Has, d, L, Coding!Declared

-----------------------------------------------------------------------------
(* The decoding.                                                            *)

List == Coding!First(Reported)
Spellings == Coding!Codings \cup {"x-gzip"}

\* What a list of accepted codings undoes.
Undoing(list) == [i \in 1 .. Len(list) |-> Coding!Undoes(list[i])]

LEMMA UndoingType ==
    ASSUME NEW q \in Seq(Spellings)
    PROVE  /\ Undoing(q) \in Seq(Coding!Codings)
           /\ Len(Undoing(q)) = Len(q)
           /\ \A i \in 1 .. Len(q) : Undoing(q)[i] = Coding!Undoes(q[i])
<1>1. Len(q) \in Nat /\ \A i \in 1 .. Len(q) : q[i] \in Spellings
    BY LenProperties, ElementOfSeq
<1>2. \A i \in 1 .. Len(q) : Coding!Undoes(q[i]) \in Coding!Codings
    BY <1>1, UndoesTokens DEF Spellings
<1>3. Undoing(q) \in [1 .. Len(q) -> Coding!Codings]
    BY <1>2 DEF Undoing
<1>4. Undoing(q) \in Seq(Coding!Codings)
    BY <1>1, <1>3, SeqDef
<1>5. DOMAIN Undoing(q) = 1 .. Len(q) /\ DOMAIN Undoing(q) = 1 .. Len(Undoing(q))
    BY <1>3, <1>4, LenProperties
<1>6. Len(Undoing(q)) = Len(q)
    BY <1>1, <1>4, <1>5, LenProperties
<1>7. QED
    BY <1>4, <1>6 DEF Undoing

LEMMA UndoingAppended ==
    ASSUME NEW q \in Seq(Spellings), NEW t \in Spellings
    PROVE  Undoing(Append(q, t)) = Append(Undoing(q), Coding!Undoes(t))
<1> DEFINE a == Append(q, t)
<1> DEFINE u == Append(Undoing(q), Coding!Undoes(t))
<1>1. /\ a \in Seq(Spellings) /\ Len(a) = Len(q) + 1 /\ Len(q) \in Nat
      /\ \A i \in 1 .. Len(q) : a[i] = q[i]
      /\ a[Len(q) + 1] = t
    BY AppendProperties, LenProperties
<1>2. /\ Undoing(q) \in Seq(Coding!Codings) /\ Len(Undoing(q)) = Len(q)
      /\ \A i \in 1 .. Len(q) : Undoing(q)[i] = Coding!Undoes(q[i])
    BY UndoingType
<1>3. Coding!Undoes(t) \in Coding!Codings
    BY UndoesTokens DEF Spellings
<1>4. /\ u \in Seq(Coding!Codings) /\ Len(u) = Len(q) + 1
      /\ \A i \in 1 .. Len(q) : u[i] = Undoing(q)[i]
      /\ u[Len(q) + 1] = Coding!Undoes(t)
    BY <1>2, <1>3, AppendProperties
<1> HIDE DEF a, u
<1>5. /\ Undoing(a) \in Seq(Coding!Codings) /\ Len(Undoing(a)) = Len(a)
      /\ \A i \in 1 .. Len(a) : Undoing(a)[i] = Coding!Undoes(a[i])
    BY <1>1, UndoingType
<1>6. Len(Undoing(a)) = Len(u)
    BY <1>1, <1>4, <1>5
<1>7. ASSUME NEW i \in 1 .. Len(Undoing(a)) PROVE Undoing(a)[i] = u[i]
    <2>1. i \in 1 .. Len(a) /\ (i \in 1 .. Len(q) \/ i = Len(q) + 1)
        BY <1>1, <1>5
    <2>2. QED
        BY <1>1, <1>2, <1>4, <1>5, <2>1
<1>8. Undoing(a) = u
    BY <1>4, <1>5, <1>6, <1>7, SeqEqual
<1>9. QED
    BY <1>8 DEF a, u

\* Looking at one more element.
LEMMA NextElement ==
    ASSUME NEW S, NEW s \in Seq(S), NEW k \in 0 .. Len(s), SubSeq(s, k + 1, Len(s)) # <<>>
    PROVE  /\ k + 1 \in 1 .. Len(s)
           /\ Head(SubSeq(s, k + 1, Len(s))) = s[k + 1]
           /\ Tail(SubSeq(s, k + 1, Len(s))) = SubSeq(s, (k + 1) + 1, Len(s))
           /\ Len(Tail(SubSeq(s, k + 1, Len(s)))) = Len(s) - (k + 1)
<1>1. Len(s) \in Nat /\ \A i \in 1 .. Len(s) : s[i] \in S
    BY LenProperties, ElementOfSeq
<1>2. k # Len(s)
    BY <1>1, SubSeqEmpty
<1>3. k + 1 \in 1 .. Len(s) /\ Len(s) \in k + 1 .. Len(s)
    BY <1>1, <1>2
<1>4. /\ Head(SubSeq(s, k + 1, Len(s))) = s[k + 1]
      /\ Tail(SubSeq(s, k + 1, Len(s))) = SubSeq(s, (k + 1) + 1, Len(s))
    BY <1>3, HeadTailOfSubSeq
<1> DEFINE m == (k + 1) + 1
<1>5. m \in Int /\ \A i \in m .. Len(s) : s[i] \in S
    BY <1>1, <1>3
<1>6. Len(SubSeq(s, m, Len(s))) = IF m <= Len(s) THEN Len(s) - m + 1 ELSE 0
    BY <1>1, <1>5, SubSeqProperties
<1>7. Len(SubSeq(s, m, Len(s))) = Len(s) - (k + 1)
    BY <1>1, <1>3, <1>6
<1>8. QED
    BY <1>3, <1>4, <1>7

\* Undoing the last one of the first k codings of a stack.
LEMMA LastUndone ==
    ASSUME NEW S, NEW s \in Seq(S), NEW k \in 0 .. Len(s)
    PROVE  /\ SubSeq(s, 1, k) \in Seq(S) /\ Len(SubSeq(s, 1, k)) = k
           /\ k # 0 => /\ SubSeq(s, 1, k)[k] = s[k]
                       /\ Coding!Front(SubSeq(s, 1, k)) = SubSeq(s, 1, k - 1)
<1>1. Len(s) \in Nat /\ \A i \in 1 .. Len(s) : s[i] \in S
    BY LenProperties, ElementOfSeq
<1>2. \A j \in 0 .. Len(s) : /\ SubSeq(s, 1, j) \in Seq(S) /\ Len(SubSeq(s, 1, j)) = j
                             /\ \A i \in 1 .. j : SubSeq(s, 1, j)[i] = s[i]
    <2> SUFFICES ASSUME NEW j \in 0 .. Len(s)
                 PROVE  /\ SubSeq(s, 1, j) \in Seq(S) /\ Len(SubSeq(s, 1, j)) = j
                        /\ \A i \in 1 .. j : SubSeq(s, 1, j)[i] = s[i]
        OBVIOUS
    <2>1. j \in Int /\ 1 \in Int /\ \A i \in 1 .. j : s[i] \in S
        BY <1>1
    <2>2. /\ SubSeq(s, 1, j) \in Seq(S)
          /\ Len(SubSeq(s, 1, j)) = IF 1 <= j THEN j - 1 + 1 ELSE 0
          /\ \A i \in 1 .. j - 1 + 1 : SubSeq(s, 1, j)[i] = s[1 + i - 1]
        BY <2>1, SubSeqProperties
    <2>3. QED
        BY <1>1, <2>2
<1> DEFINE p == SubSeq(s, 1, k)
<1>3. p \in Seq(S) /\ Len(p) = k /\ \A i \in 1 .. k : p[i] = s[i]
    BY <1>2
<1>4. ASSUME k # 0 PROVE Coding!Front(p) = SubSeq(s, 1, k - 1)
    <2> DEFINE q == SubSeq(s, 1, k - 1)
    <2>1. k - 1 \in 0 .. Len(s) /\ k \in Nat
        BY <1>1, <1>4
    <2>2. q \in Seq(S) /\ Len(q) = k - 1 /\ \A i \in 1 .. k - 1 : q[i] = s[i]
        BY <1>2, <2>1
    <2> HIDE DEF p, q
    <2>3. Coding!Front(p) = SubSeq(p, 1, k - 1) /\ k - 1 \in 0 .. Len(p)
        BY <1>3, <2>1 DEF Coding!Front
    <2>4. /\ k - 1 \in Int /\ 1 \in Int /\ \A i \in 1 .. k - 1 : p[i] \in S
        BY <1>1, <1>3, <2>1
    <2>5. /\ SubSeq(p, 1, k - 1) \in Seq(S)
          /\ Len(SubSeq(p, 1, k - 1)) = IF 1 <= k - 1 THEN (k - 1) - 1 + 1 ELSE 0
          /\ \A i \in 1 .. (k - 1) - 1 + 1 : SubSeq(p, 1, k - 1)[i] = p[1 + i - 1]
        BY <2>4, SubSeqProperties
    <2>6. Len(SubSeq(p, 1, k - 1)) = k - 1 /\ \A i \in 1 .. k - 1 : SubSeq(p, 1, k - 1)[i] = p[i]
        BY <2>1, <2>5
    <2>7. SubSeq(p, 1, k - 1) = q
        BY <1>3, <2>1, <2>2, <2>5, <2>6, SeqEqual
    <2>8. QED
        BY <2>3, <2>7 DEF q
<1> HIDE DEF p
<1>5. k # 0 => p[k] = s[k]
    BY <1>1, <1>3
<1>6. QED
    BY <1>3, <1>4, <1>5 DEF p

\* What the types give.
LEMMA DecodingTyped ==
    ASSUME Coding!TypeOK
    PROVE  /\ List \in Seq(Coding!Tokens) /\ Len(List) \in Nat
           /\ body.stack \in Seq(Undone) /\ Len(body.stack) \in Nat
           /\ body.cut \in Nat /\ body.cut <= Len(body.stack)
           /\ tokens \in Seq(Coding!Tokens) /\ Len(tokens) \in Nat
           /\ encodings \in Seq(Spellings) /\ Len(encodings) \in Nat
           /\ chained \in 0 .. Len(encodings) /\ chained \in Nat /\ decoders \in Nat
<1>1. Reported \in Seq(Seq(Coding!Tokens)) /\ body \in Coding!BodyType
      /\ tokens \in Seq(Coding!Tokens) /\ encodings \in Seq(Spellings)
      /\ chained \in 0 .. Len(encodings) /\ decoders \in 0 .. Len(body.stack)
    BY DEF Coding!TypeOK, Coding!HeaderType, Spellings
<1>2. List \in Seq(Coding!Tokens)
    <2>1. CASE Reported = <<>>
        BY <2>1, EmptySeq DEF List, Coding!First
    <2>2. CASE Reported # <<>>
        BY <1>1, <2>2, HeadTailProperties DEF List, Coding!First
    <2>3. QED
        BY <2>1, <2>2
<1>3. body.stack \in Seq(Undone) /\ body.cut \in Nat /\ body.cut <= Len(body.stack)
    BY <1>1 DEF Coding!BodyType, Undone
<1>4. Len(List) \in Nat /\ Len(body.stack) \in Nat /\ Len(tokens) \in Nat /\ Len(encodings) \in Nat
    BY <1>1, <1>2, <1>3, LenProperties
<1>5. QED
    BY <1>1, <1>2, <1>3, <1>4

\* Garbage is no stack of codings, and does not begin like one.
LEMMA GarbageIsNone ==
    /\ \A s \in Seq(Undone) : s # Coding!Garbage
    /\ Coding!Garbage # <<>>
<1>1. Coding!Garbage # <<>> /\ Len(Coding!Garbage) = 1 /\ Coding!Garbage[1] = "garbage"
    BY DEF Coding!Garbage
<1>2. "garbage" \notin Undone
    BY DEF Undone, Coding!Codings
<1>3. ASSUME NEW s \in Seq(Undone), Len(s) = 1 PROVE s[1] \in Undone
    BY <1>3, ElementOfSeq
<1>4. QED
    BY <1>1, <1>2, <1>3

LEMMA GarbageBegins == Coding!Garbage[Len(Coding!Garbage)] \notin Undone
<1>1. Coding!Garbage[Len(Coding!Garbage)] = "garbage"
    BY DEF Coding!Garbage
<1>2. QED
    BY <1>1 DEF Undone, Coding!Codings

\* Before anything has been looked at.
LEMMA UntouchedDecoding ==
    ASSUME Coding!Untouched, Reported \in Coding!HeaderType, body \in Coding!BodyType
    PROVE  Coding!DecodingInv
<1>1. /\ step = "headers" /\ tokens = <<>> /\ encodings = <<>> /\ left = <<>>
      /\ chained = 0 /\ decoders = 0 /\ ret = "none" /\ copied = "whole"
    BY DEF Coding!Untouched
<1>2. Len(body.stack) \in Nat
    BY LenProperties DEF Coding!BodyType
<1>3. /\ tokens \in Seq(Coding!Tokens) /\ encodings \in Seq(Coding!Codings \cup {"x-gzip"})
      /\ left \in Seq(Coding!Codings \cup {"zstd"}) /\ Len(encodings) = 0
    BY <1>1, EmptySeq
<1>4. chained \in 0 .. Len(encodings) /\ decoders \in 0 .. Len(body.stack)
    BY <1>1, <1>2, <1>3
<1>5. Coding!TypeOK
    BY <1>1, <1>3, <1>4 DEF Coding!TypeOK
<1>6. Coding!DecodersClosed /\ Coding!ParsedSoFar /\ Coding!ChainedSoFar /\ Coding!OutcomeSoFar
    BY <1>1 DEF Coding!DecodersClosed, Coding!ParsedSoFar, Coding!ChainedSoFar, Coding!OutcomeSoFar, Coding!Untouched,
                  Coding!AlteredOnlyUnderBrotli
<1>7. QED
    BY <1>5, <1>6 DEF Coding!DecodingInv

LEMMA TakeHeaderKeeps == ASSUME Coding!DecodingInv, Coding!TakeHeader PROVE Coding!DecodingInv'
<1>0. /\ Coding!TypeOK /\ Coding!Untouched
      /\ List \in Seq(Coding!Tokens) /\ Len(List) \in Nat
    BY DecodingTyped DEF Coding!DecodingInv, Coding!ParsedSoFar, Coding!TakeHeader
<1>1. /\ step' = "parse" /\ tokens' = List
      /\ Reported' = Reported /\ body' = body /\ encodings' = encodings /\ chained' = chained
      /\ left' = left /\ decoders' = decoders /\ ret' = ret /\ copied' = copied
    BY DEF Coding!TakeHeader, List, Coding!First
<1>2. encodings = <<>> /\ left = <<>> /\ chained = 0 /\ decoders = 0 /\ ret = "none" /\ copied = "whole"
    BY <1>0 DEF Coding!Untouched
<1>3. Coding!TypeOK'
    BY <1>0, <1>1 DEF Coding!TypeOK
<1>4. Coding!ParsedSoFar'
    <2>1. List' = List
        BY <1>1 DEF List
    <2>2. tokens' = SubSeq(List, 0 + 1, Len(List)) /\ Len(List) - Len(tokens') = 0
        BY <1>0, <1>1, SubSeqFull
    <2>3. Coding!DeclaredBy(List)[0] = <<>>
        BY <1>0, DeclaredByIs
    <2>4. Coding!Accepted' = <<>>
        BY <1>1, <1>2 DEF Coding!Accepted
    <2>5. QED
        BY <1>0, <1>1, <2>1, <2>2, <2>3, <2>4 DEF Coding!ParsedSoFar, List
<1>5. Coding!ChainedSoFar'
    BY <1>1, <1>2 DEF Coding!ChainedSoFar
<1>6. Coding!OutcomeSoFar' /\ Coding!DecodersClosed'
    BY <1>1, <1>2, GarbageIsNone DEF Coding!OutcomeSoFar, Coding!DecodersClosed, Coding!AlteredOnlyUnderBrotli
<1>7. QED
    BY <1>3, <1>4, <1>5, <1>6 DEF Coding!DecodingInv

\* How many elements have been looked at.
Seen == Len(List) - Len(tokens)

LEMMA Difference == \A m, n \in Nat : m - (m - n) = n /\ m - 0 = m
    OBVIOUS

LEMMA SeenSoFar ==
    ASSUME Coding!DecodingInv, step # "headers"
    PROVE  /\ Seen \in 0 .. Len(List) /\ tokens = SubSeq(List, Seen + 1, Len(List))
           /\ ret # "unsupported" => Undoing(encodings) = Coding!DeclaredBy(List)[Seen]
    BY DEF Coding!DecodingInv, Coding!ParsedSoFar, Coding!Accepted, Undoing, Seen, List

LEMMA SeenHolds ==
    ASSUME List' = List, step' # "headers", Len(List) \in Nat, NEW k \in 0 .. Len(List),
           tokens' = SubSeq(List, k + 1, Len(List)), Len(tokens') = Len(List) - k,
           ret' # "unsupported" => Undoing(encodings') = Coding!DeclaredBy(List)[k]
    PROVE  Coding!ParsedSoFar'
<1>1. Len(List) - Len(tokens') = k
    OBVIOUS
<1>2. Coding!Accepted' = Undoing(encodings')
    BY DEF Coding!Accepted, Undoing
<1>3. LET seen == Len(List) - Len(tokens')
      IN  /\ seen \in 0 .. Len(List)
          /\ tokens' = SubSeq(List, seen + 1, Len(List))
          /\ ret' # "unsupported" => Coding!Accepted' = Coding!DeclaredBy(List)[seen]
    BY <1>1, <1>2
<1>4. QED
    BY <1>3 DEF Coding!ParsedSoFar, List

\* Nothing changes for the list when it is only undone.
LEMMA SeenKept ==
    ASSUME Coding!DecodingInv, UNCHANGED <<Reported, tokens, encodings>>,
           step # "headers", step' # "headers", ret = "none"
    PROVE  Coding!ParsedSoFar'
<1>1. List' = List /\ tokens' = tokens /\ encodings' = encodings
    BY DEF List
<1>2. /\ Len(List) \in Nat /\ Len(tokens) \in Nat
      /\ List \in Seq(Coding!Tokens) /\ tokens \in Seq(Coding!Tokens)
    BY DecodingTyped DEF Coding!DecodingInv
<1>3. /\ Seen \in 0 .. Len(List) /\ tokens = SubSeq(List, Seen + 1, Len(List))
      /\ Undoing(encodings) = Coding!DeclaredBy(List)[Seen]
    BY SeenSoFar
<1>4. Len(tokens) = Len(List) - Seen
    <2>1. Seen = Len(List) - Len(tokens)
        BY DEF Seen
    <2>2. QED
        BY <1>2, <2>1, Difference
<1>5. QED
    BY <1>1, <1>2, <1>3, <1>4, SeenHolds

\* An element that declares a coding the decoder does not know is none of a
\* truthful header's.
LEMMA UnsupportedUntruthful ==
    ASSUME NEW n \in 1 .. Len(List), Coding!TypeOK, Coding!Truthful(Reported),
           List[n] \notin Coding!Codings \cup {"x-gzip", "empty", "identity"}
    PROVE  FALSE
<1>1. List \in Seq(Coding!Tokens) /\ body.stack \in Seq(Undone)
    BY DecodingTyped
<1>2. List[n] \in Coding!Tokens
    BY <1>1, ElementOfSeq
<1>3. List[n] = "zstd" /\ Coding!Undoes(List[n]) = "zstd"
    BY <1>2 DEF Coding!Tokens, Coding!Undoes
<1>4. PICK i \in 1 .. Len(Coding!Declared(List)) : Coding!Declared(List)[i] = "zstd"
    BY <1>1, <1>3, DeclaredStays
<1>5. /\ Coding!Declared(List) = body.stack
      /\ \A j \in 1 .. Len(body.stack) : body.stack[j] \in Coding!Codings
    BY DEF Coding!Truthful, List
<1>6. "zstd" \in Coding!Codings
    BY <1>4, <1>5
<1>7. QED
    BY <1>6 DEF Coding!Codings

LEMMA ParseTokenKeeps == ASSUME Coding!DecodingInv, Coding!ParseToken PROVE Coding!DecodingInv'
<1>0. /\ Coding!TypeOK /\ List \in Seq(Coding!Tokens) /\ Len(List) \in Nat /\ step = "parse"
      /\ encodings \in Seq(Spellings) /\ Len(encodings) \in Nat
    BY DecodingTyped DEF Coding!DecodingInv, Coding!ParseToken
<1>1. /\ step = "parse" /\ tokens # <<>> /\ tokens' = Tail(tokens)
      /\ Reported' = Reported /\ body' = body /\ chained' = chained
      /\ left' = left /\ decoders' = decoders /\ copied' = copied
    BY DEF Coding!ParseToken
<1>2. /\ Seen \in 0 .. Len(List) /\ tokens = SubSeq(List, Seen + 1, Len(List))
      /\ ret # "unsupported" => Undoing(encodings) = Coding!DeclaredBy(List)[Seen]
    BY <1>1, SeenSoFar
<1>3. chained = 0 /\ decoders = 0 /\ ret = "none" /\ copied = "whole"
    BY <1>1 DEF Coding!DecodingInv, Coding!ChainedSoFar
<1>4. /\ Seen + 1 \in 1 .. Len(List) /\ Head(tokens) = List[Seen + 1]
      /\ tokens' = SubSeq(List, (Seen + 1) + 1, Len(List))
      /\ Len(tokens') = Len(List) - (Seen + 1)
    BY <1>0, <1>1, <1>2, NextElement
<1>a. Seen + 1 \in 0 .. Len(List)
    <2>1. Seen + 1 \in 1 .. Len(List)
        BY <1>4
    <2> HIDE DEF Seen
    <2>2. QED
        BY <2>1
<1>5. tokens' \in Seq(Coding!Tokens) /\ Head(tokens) \in Coding!Tokens
    BY <1>0, <1>1, HeadTailProperties DEF Coding!TypeOK
<1>6. List' = List
    BY <1>1 DEF List
<1>7. Coding!DeclaredBy(List)[Seen + 1] = Declaring(List, Seen + 1, Coding!DeclaredBy(List)[Seen])
    <2>1. (Seen + 1) - 1 = Seen
        BY <1>0, <1>2
    <2>2. QED
        BY <1>0, <1>4, <2>1, DeclaredByIs
<1>8. ASSUME step' = step, ret' = ret, encodings' \in Seq(Spellings),
             Undoing(encodings') = Coding!DeclaredBy(List)[Seen + 1]
      PROVE  Coding!DecodingInv'
    <2>1. Coding!TypeOK'
        <3>1. Len(encodings') \in Nat
            BY <1>8, LenProperties
        <3>2. chained' \in 0 .. Len(encodings')
            BY <1>1, <1>3, <3>1
        <3>3. QED
            BY <1>0, <1>1, <1>5, <1>8, <3>2 DEF Coding!TypeOK, Spellings
    <2>2. Coding!ParsedSoFar'
        <3>1. step' # "headers"
            BY <1>0, <1>8
        <3>2. QED
            BY <1>0, <1>a, <1>4, <1>5, <1>6, <1>8, <3>1, SeenHolds
    <2>3. Coding!ChainedSoFar'
        BY <1>0, <1>1, <1>3, <1>8 DEF Coding!ChainedSoFar
    <2>4. Coding!OutcomeSoFar' /\ Coding!DecodersClosed'
        BY <1>0, <1>1, <1>3, <1>8 DEF Coding!DecodingInv, Coding!OutcomeSoFar, Coding!DecodersClosed,
               Coding!Truthful, Coding!AlteredOnlyUnderBrotli
    <2>5. QED
        BY <2>1, <2>2, <2>3, <2>4 DEF Coding!DecodingInv
<1>9. CASE Head(tokens) \in {"empty", "identity"}
    <2>1. step' = step /\ encodings' = encodings /\ ret' = ret
        BY <1>9, <1>1 DEF Coding!ParseToken, Coding!Codings
    <2>2. Undoing(encodings') = Coding!DeclaredBy(List)[Seen + 1]
        BY <1>2, <1>3, <1>4, <1>7, <1>9, <2>1 DEF Declaring
    <2>3. QED
        BY <1>0, <1>8, <2>1, <2>2
<1>10. CASE Head(tokens) \in Spellings
    <2>1. step' = step /\ encodings' = Append(encodings, Head(tokens)) /\ ret' = ret
        BY <1>10, <1>1 DEF Coding!ParseToken, Coding!Codings, Spellings
    <2>2. Undoing(encodings') = Append(Undoing(encodings), Coding!Undoes(Head(tokens)))
        BY <1>0, <1>10, <2>1, UndoingAppended
    <2>3. List[Seen + 1] \notin {"empty", "identity"}
        BY <1>4, <1>10 DEF Spellings, Coding!Codings
    <2>4. Undoing(encodings') = Coding!DeclaredBy(List)[Seen + 1]
        BY <1>2, <1>3, <1>4, <1>7, <2>2, <2>3 DEF Declaring
    <2>5. encodings' \in Seq(Spellings)
        BY <1>0, <1>10, <2>1, AppendProperties
    <2>6. QED
        BY <1>8, <2>1, <2>4, <2>5
<1>11. CASE Head(tokens) \notin Coding!Codings \cup {"x-gzip", "empty", "identity"}
    <2>1. step' = "done" /\ encodings' = encodings /\ ret' = "unsupported"
        BY <1>11, <1>1 DEF Coding!ParseToken, Coding!Codings, Coding!End
    <2>2. Coding!TypeOK'
        BY <1>0, <1>1, <1>5, <2>1 DEF Coding!TypeOK
    <2>3. Coding!ParsedSoFar'
        <3>1. step' # "headers"
            BY <2>1
        <3>2. QED
            BY <1>0, <1>a, <1>4, <1>5, <1>6, <2>1, <3>1, SeenHolds
    <2>4. Coding!ChainedSoFar' /\ Coding!DecodersClosed'
        BY <1>1, <1>3, <2>1 DEF Coding!ChainedSoFar, Coding!DecodersClosed
    <2>5. ~ Coding!Truthful(Reported)
        BY <1>0, <1>4, <1>11, UnsupportedUntruthful
    <2>6. Coding!OutcomeSoFar'
        BY <1>1, <1>3, <2>1, <2>5 DEF Coding!OutcomeSoFar, Coding!Truthful, Coding!AlteredOnlyUnderBrotli
    <2>7. QED
        BY <2>2, <2>3, <2>4, <2>6 DEF Coding!DecodingInv
<1>12. QED
    BY <1>9, <1>10, <1>11 DEF Spellings

\* At the end of the list.
LEMMA AllSeen ==
    ASSUME Coding!DecodingInv, step # "headers", tokens = <<>>, ret = "none"
    PROVE  Undoing(encodings) = Coding!Declared(List)
<1>1. List \in Seq(Coding!Tokens) /\ Len(List) \in Nat /\ Len(tokens) = 0
    BY DecodingTyped DEF Coding!DecodingInv
<1>2. Seen = Len(List)
    <2>1. Seen = Len(List) - 0
        BY <1>1 DEF Seen
    <2>2. QED
        BY <1>1, <2>1, Difference
<1>3. QED
    BY <1>2, SeenSoFar DEF Coding!Declared

LEMMA ParsedKeeps == ASSUME Coding!DecodingInv, Coding!Parsed PROVE Coding!DecodingInv'
<1>1. /\ step = "parse" /\ tokens = <<>> /\ step' \in {"detect", "chain"}
      /\ step' = "detect" => encodings = <<>>
      /\ left' = body.stack /\ UNCHANGED <<Reported, body, tokens, encodings, chained, decoders, copied, ret>>
    BY DEF Coding!Parsed
<1>2. chained = 0 /\ decoders = 0 /\ ret = "none" /\ copied = "whole"
    BY <1>1 DEF Coding!DecodingInv, Coding!ChainedSoFar
<1>3. /\ Coding!TypeOK /\ body.stack \in Seq(Undone) /\ Len(body.stack) \in Nat
      /\ body.cut \in Nat /\ body.cut <= Len(body.stack)
    BY DecodingTyped DEF Coding!DecodingInv
<1>4. Coding!TypeOK'
    BY <1>1, <1>3 DEF Coding!TypeOK, Undone
<1>5. Coding!ParsedSoFar'
    BY <1>1, <1>2, SeenKept
<1>6. Coding!ChainedSoFar'
    <2>1. left' = SubSeq(body.stack, 1, Len(body.stack) - 0)
        BY <1>1, <1>3, SubSeqFull
    <2>2. step' = "detect" => Len(encodings) = 0
        BY <1>1
    <2>3. \A i \in 0 .. 0 - 1 : FALSE
        OBVIOUS
    <2>4. Coding!DamageMet'
        BY <1>1, <1>3 DEF Coding!DamageMet, Coding!Damaged
    <2>5. QED
        BY <1>1, <1>2, <1>3, <2>1, <2>2, <2>3, <2>4 DEF Coding!ChainedSoFar
<1>7. left' # Coding!Garbage
    BY <1>1, <1>3, GarbageIsNone
<1>8. Coding!OutcomeSoFar' /\ Coding!DecodersClosed'
    BY <1>1, <1>2, <1>7 DEF Coding!OutcomeSoFar, Coding!DecodersClosed, Coding!AlteredOnlyUnderBrotli
<1>9. QED
    BY <1>4, <1>5, <1>6, <1>8 DEF Coding!DecodingInv

\* The chain, as long as no brotli decoder has gone wrong.
LEMMA ChainSoFar ==
    ASSUME Coding!DecodingInv, step \in {"chain", "detect"}, left # Coding!Garbage
    PROVE  /\ chained <= Len(body.stack) /\ decoders <= chained
           /\ left = SubSeq(body.stack, 1, Len(body.stack) - chained)
           /\ Len(body.stack) - chained \in 0 .. Len(body.stack)
           /\ left \in Seq(Undone) /\ Len(left) = Len(body.stack) - chained
           /\ \A i \in 0 .. chained - 1 :
                 Undoing(encodings)[Len(encodings) - i] = body.stack[Len(body.stack) - i]
<1>1. /\ chained <= Len(body.stack) /\ decoders <= chained
      /\ left = SubSeq(body.stack, 1, Len(body.stack) - chained)
      /\ \A i \in 0 .. chained - 1 :
            Undoing(encodings)[Len(encodings) - i] = body.stack[Len(body.stack) - i]
    BY DEF Coding!DecodingInv, Coding!ChainedSoFar, Coding!Accepted, Undoing
<1>2. body.stack \in Seq(Undone) /\ Len(body.stack) \in Nat /\ chained \in Nat
    BY DecodingTyped DEF Coding!DecodingInv
<1>3. Len(body.stack) - chained \in 0 .. Len(body.stack)
    BY <1>1, <1>2
<1>4. left \in Seq(Undone) /\ Len(left) = Len(body.stack) - chained
    BY <1>1, <1>2, <1>3, LastUndone
<1>5. QED
    BY <1>1, <1>3, <1>4

\* One more coding undone: the reader begins with what the next one undoes.
LEMMA OneUndone ==
    ASSUME Coding!DecodingInv, step = "chain", chained < Len(encodings), left # Coding!Garbage,
           Coding!Begins(Coding!Undoes(Coding!NextEncoding))
    PROVE  /\ chained + 1 <= Len(body.stack)
           /\ Coding!Front(left) = SubSeq(body.stack, 1, Len(body.stack) - (chained + 1))
           /\ Coding!Front(left) \in Seq(Undone)
           /\ \A i \in 0 .. chained :
                 Undoing(encodings)[Len(encodings) - i] = body.stack[Len(body.stack) - i]
<1> DEFINE k == Len(body.stack) - chained
<1>1. /\ body.stack \in Seq(Undone) /\ Len(body.stack) \in Nat /\ chained \in Nat
      /\ encodings \in Seq(Spellings) /\ Len(encodings) \in Nat
    BY DecodingTyped DEF Coding!DecodingInv
<1>2. /\ left = SubSeq(body.stack, 1, k) /\ k \in 0 .. Len(body.stack)
      /\ left \in Seq(Undone) /\ Len(left) = k
      /\ \A i \in 0 .. chained - 1 :
            Undoing(encodings)[Len(encodings) - i] = body.stack[Len(body.stack) - i]
    BY ChainSoFar
<1>3. left # <<>> /\ left[Len(left)] = Coding!Undoes(encodings[Len(encodings) - chained])
    BY DEF Coding!Begins, Coding!NextEncoding
<1>4. Len(left) # 0
    BY <1>2, <1>3, EmptySeq
<1>5. k # 0 /\ k - 1 \in 0 .. Len(body.stack) /\ k - 1 = Len(body.stack) - (chained + 1)
    BY <1>1, <1>2, <1>4
<1>6. /\ left[k] = body.stack[k] /\ Coding!Front(left) = SubSeq(body.stack, 1, k - 1)
      /\ SubSeq(body.stack, 1, k - 1) \in Seq(Undone)
    BY <1>1, <1>2, <1>5, LastUndone
<1>7. Len(encodings) - chained \in 1 .. Len(encodings)
    BY <1>1
<1>8. Undoing(encodings)[Len(encodings) - chained] = Coding!Undoes(encodings[Len(encodings) - chained])
    BY <1>1, <1>7, UndoingType
<1>9. Undoing(encodings)[Len(encodings) - chained] = body.stack[k]
    BY <1>2, <1>3, <1>6, <1>8
<1>10. ASSUME NEW i \in 0 .. chained
       PROVE  Undoing(encodings)[Len(encodings) - i] = body.stack[Len(body.stack) - i]
    <2>1. CASE i = chained
        BY <1>9, <2>1
    <2>2. CASE i # chained
        <3>1. i \in 0 .. chained - 1
            BY <1>1, <2>2
        <3>2. QED
            BY <1>2, <3>1
    <2>3. QED
        BY <2>1, <2>2
<1>11. chained + 1 <= Len(body.stack)
    BY <1>1, <1>5
<1>12. QED
    BY <1>5, <1>6, <1>10, <1>11

\* What is truthful can always be undone further.
LEMMA TruthfulBegins ==
    ASSUME Coding!DecodingInv, step \in {"chain", "detect"}, Coding!Truthful(Reported)
    PROVE  /\ left # Coding!Garbage /\ body.cut = 0 /\ body.plain = "image"
           /\ Len(encodings) = Len(body.stack)
           /\ step = "chain" /\ chained < Len(encodings) => Coding!Begins(Coding!Undoes(Coding!NextEncoding))
<1>1. /\ body.stack \in Seq(Undone) /\ Len(body.stack) \in Nat /\ chained \in Nat
      /\ encodings \in Seq(Spellings) /\ Len(encodings) \in Nat
    BY DecodingTyped DEF Coding!DecodingInv
<1>2. left # Coding!Garbage /\ body.cut = 0 /\ body.plain = "image" /\ Coding!Declared(List) = body.stack
    BY DEF Coding!DecodingInv, Coding!OutcomeSoFar, Coding!Truthful, List
<1>3. tokens = <<>> /\ ret = "none"
    BY DEF Coding!DecodingInv, Coding!ChainedSoFar
<1>4. Undoing(encodings) = body.stack
    BY <1>2, <1>3, AllSeen
<1>5. Len(encodings) = Len(body.stack)
    BY <1>1, <1>4, UndoingType
<1>6. ASSUME chained < Len(encodings) PROVE Coding!Begins(Coding!Undoes(Coding!NextEncoding))
    <2> DEFINE k == Len(body.stack) - chained
    <2>1. left = SubSeq(body.stack, 1, k) /\ k \in 0 .. Len(body.stack) /\ Len(left) = k
        BY <1>2, ChainSoFar
    <2>2. k # 0 /\ k \in 1 .. Len(encodings)
        BY <1>1, <1>5, <1>6
    <2>3. left[k] = body.stack[k]
        BY <1>1, <2>1, <2>2, LastUndone
    <2>4. Undoing(encodings)[k] = Coding!Undoes(encodings[k])
        BY <1>1, <2>2, UndoingType
    <2>5. left # <<>>
        BY <2>1, <2>2, EmptySeq
    <2>6. QED
        BY <1>4, <1>5, <2>1, <2>3, <2>4, <2>5 DEF Coding!Begins, Coding!NextEncoding
<1>7. QED
    BY <1>2, <1>5, <1>6

\* A coding undone.
LEMMA UndoneKeeps ==
    ASSUME Coding!DecodingInv, step = "chain", chained < Len(encodings), left # Coding!Garbage,
           Coding!Begins(Coding!Undoes(Coding!NextEncoding)),
           left' = Coding!Front(left), chained' = chained + 1, decoders' \in {decoders, decoders + 1},
           UNCHANGED <<Reported, body, step, tokens, encodings, copied, ret>>
    PROVE  Coding!DecodingInv'
<1>1. /\ chained + 1 <= Len(body.stack)
      /\ Coding!Front(left) = SubSeq(body.stack, 1, Len(body.stack) - (chained + 1))
      /\ Coding!Front(left) \in Seq(Undone)
      /\ \A i \in 0 .. chained :
            Undoing(encodings)[Len(encodings) - i] = body.stack[Len(body.stack) - i]
    BY OneUndone
<1>2. /\ Coding!TypeOK /\ Len(body.stack) \in Nat /\ chained \in Nat /\ decoders \in Nat
      /\ Len(encodings) \in Nat
    BY DecodingTyped DEF Coding!DecodingInv
<1>3. decoders <= chained
    BY ChainSoFar
<1>4. tokens = <<>> /\ ret = "none" /\ copied = "whole"
    BY DEF Coding!DecodingInv, Coding!ChainedSoFar
<1>5. Coding!TypeOK'
    <2>1. chained' \in 0 .. Len(encodings') /\ decoders' \in 0 .. Len(body'.stack)
        BY <1>1, <1>2, <1>3
    <2>2. left' \in Seq(Coding!Codings \cup {"zstd"})
        BY <1>1 DEF Undone
    <2>3. QED
        BY <1>2, <2>1, <2>2 DEF Coding!TypeOK
<1>6. Coding!ParsedSoFar'
    BY <1>4, SeenKept
<1>7. Coding!ChainedSoFar'
    <2>1. Coding!Accepted' = Undoing(encodings)
        BY DEF Coding!Accepted, Undoing
    <2>2. \A i \in 0 .. chained' - 1 :
             Coding!Accepted'[Len(encodings') - i] = body'.stack[Len(body'.stack) - i]
        <3>1. 0 .. chained' - 1 = 0 .. chained
            BY <1>2
        <3>2. encodings' = encodings /\ body' = body
            OBVIOUS
        <3>3. QED
            BY <1>1, <2>1, <3>1, <3>2
    <2>3. chained' <= Len(body'.stack) /\ decoders' <= chained'
          /\ left' = SubSeq(body'.stack, 1, Len(body'.stack) - chained')
        BY <1>1, <1>2, <1>3
    <2>4. QED
        BY <1>4, <2>2, <2>3 DEF Coding!ChainedSoFar
<1>8. left' # Coding!Garbage
    BY <1>1, GarbageIsNone
<1>9. Coding!OutcomeSoFar' /\ Coding!DecodersClosed'
    BY <1>4, <1>8 DEF Coding!OutcomeSoFar, Coding!DecodersClosed, Coding!AlteredOnlyUnderBrotli
<1>10. QED
    BY <1>5, <1>6, <1>7, <1>9 DEF Coding!DecodingInv

\* The call ends in an error of the decoders: what was in there is not truthful.
LEMMA ErrorKeeps ==
    ASSUME Coding!DecodingInv, step = "chain", ~ Coding!Truthful(Reported),
           step' = "done", ret' = "error", decoders' = 0,
           UNCHANGED <<Reported, body, tokens, encodings, chained, left, copied>>
    PROVE  Coding!DecodingInv'
<1>1. Coding!TypeOK /\ Len(body.stack) \in Nat /\ tokens = <<>> /\ ret = "none" /\ copied = "whole"
    BY DecodingTyped DEF Coding!DecodingInv, Coding!ChainedSoFar
<1>2. Coding!TypeOK'
    <2>1. decoders' \in 0 .. Len(body'.stack)
        BY <1>1
    <2>2. QED
        BY <1>1, <2>1 DEF Coding!TypeOK
<1>3. Coding!ParsedSoFar'
    BY <1>1, SeenKept
<1>4. Coding!ChainedSoFar' /\ Coding!OutcomeSoFar' /\ Coding!DecodersClosed'
    BY <1>1 DEF Coding!ChainedSoFar, Coding!OutcomeSoFar, Coding!DecodersClosed, Coding!Truthful,
                Coding!AlteredOnlyUnderBrotli
<1>5. QED
    BY <1>2, <1>3, <1>4 DEF Coding!DecodingInv

LEMMA OpenEagerKeeps == ASSUME Coding!DecodingInv, Coding!OpenEager PROVE Coding!DecodingInv'
<1> DEFINE c == Coding!Undoes(Coding!NextEncoding)
<1>1. /\ step = "chain" /\ chained < Len(encodings) /\ c \in {"gzip", "deflate"}
      /\ UNCHANGED <<Reported, body, tokens, encodings, copied>>
    BY DEF Coding!OpenEager
<1>2. CASE /\ Coding!Begins(c) /\ left' = Coding!Front(left) /\ decoders' = decoders + 1
           /\ chained' = chained + 1 /\ UNCHANGED <<step, ret>>
    <2>1. left # Coding!Garbage
        <3>1. left[Len(left)] = c /\ c \in Undone
            BY <1>1, <1>2 DEF Coding!Begins, Undone, Coding!Codings
        <3>2. left[Len(left)] \in Undone
            BY <3>1
        <3>3. QED
            BY <3>2, GarbageBegins
    <2>2. QED
        BY <1>1, <1>2, <2>1, UndoneKeeps
<1>3. CASE /\ ~ Coding!Begins(c) \/ body.cut > Len(left)
           /\ decoders' = Coding!CloseAll /\ Coding!End("error") /\ UNCHANGED <<left, chained>>
    <2>1. ~ Coding!Truthful(Reported)
        <3> SUFFICES ASSUME Coding!Truthful(Reported) PROVE FALSE
            OBVIOUS
        <3>1. left # Coding!Garbage /\ body.cut = 0 /\ Coding!Begins(c)
            BY <1>1, TruthfulBegins
        <3>2. Len(left) \in Nat
            BY <1>1, <3>1, ChainSoFar
        <3>3. QED
            BY <1>3, <3>1, <3>2
    <2>2. QED
        BY <1>1, <1>3, <2>1, ErrorKeeps DEF Coding!CloseAll, Coding!End
<1>4. QED
    BY <1>2, <1>3 DEF Coding!OpenEager

LEMMA OpenLazyKeeps == ASSUME Coding!DecodingInv, Coding!OpenLazy PROVE Coding!DecodingInv'
<1>1. /\ step = "chain" /\ chained < Len(encodings) /\ Coding!NextEncoding = "br"
      /\ left' = IF Coding!Begins("br") THEN Coding!Front(left) ELSE Coding!Garbage
      /\ chained' = chained + 1
      /\ UNCHANGED <<Reported, body, step, tokens, encodings, decoders, copied, ret>>
    BY DEF Coding!OpenLazy
<1>2. Coding!Undoes(Coding!NextEncoding) = "br"
    BY <1>1 DEF Coding!Undoes
<1>3. CASE Coding!Begins("br")
    <2>1. left # Coding!Garbage
        <3>1. left[Len(left)] = "br" /\ "br" \in Undone
            BY <1>3 DEF Coding!Begins, Undone, Coding!Codings
        <3>2. left[Len(left)] \in Undone
            BY <3>1
        <3>3. QED
            BY <3>2, GarbageBegins
    <2>2. QED
        BY <1>1, <1>2, <1>3, <2>1, UndoneKeeps
<1>4. CASE ~ Coding!Begins("br")
    <2>1. ~ Coding!Truthful(Reported)
        BY <1>1, <1>2, <1>4, TruthfulBegins
    <2>2. left' = Coding!Garbage /\ tokens = <<>> /\ ret = "none" /\ copied = "whole"
        BY <1>1, <1>4 DEF Coding!DecodingInv, Coding!ChainedSoFar
    <2>3. Coding!TypeOK /\ chained \in Nat /\ Len(encodings) \in Nat
        BY DecodingTyped DEF Coding!DecodingInv
    <2>4. chained' \in 0 .. Len(encodings')
        BY <1>1, <2>3
    <2>5. Coding!TypeOK'
        BY <1>1, <2>2, <2>3, <2>4 DEF Coding!TypeOK
    <2>6. Coding!ParsedSoFar'
        BY <1>1, <2>2, SeenKept
    <2>7. Coding!ChainedSoFar'
        BY <1>1, <2>2 DEF Coding!ChainedSoFar
    <2>8. Coding!OutcomeSoFar' /\ Coding!DecodersClosed'
        BY <1>1, <2>1, <2>2 DEF Coding!OutcomeSoFar, Coding!DecodersClosed, Coding!Truthful,
               Coding!AlteredOnlyUnderBrotli
    <2>9. QED
        BY <2>5, <2>6, <2>7, <2>8 DEF Coding!DecodingInv
<1>5. QED
    BY <1>3, <1>4

\* The copy ends without an error: all declared codings are undone, and what was
\* damaged has been altered under brotli or has met an error that nobody read.
LEMMA CopiedKeeps ==
    ASSUME Coding!DecodingInv, step = "chain", chained = Len(encodings), decoders' = 0,
           step' = "detect", ret' = ret, copied' \in {"whole", "altered"},
           left # Coding!Garbage => Coding!DamageMet', Coding!AlteredOnlyUnderBrotli',
           UNCHANGED <<Reported, body, tokens, encodings, chained, left>>
    PROVE  Coding!DecodingInv'
<1>1. Coding!TypeOK /\ Len(body.stack) \in Nat /\ tokens = <<>> /\ ret = "none" /\ chained \in Nat
    BY DecodingTyped DEF Coding!DecodingInv, Coding!ChainedSoFar
<1>2. decoders' \in 0 .. Len(body'.stack)
    BY <1>1
<1>3. Coding!TypeOK'
    BY <1>1, <1>2 DEF Coding!TypeOK
<1>4. Coding!ParsedSoFar'
    BY <1>1, SeenKept
<1>5. Coding!Accepted' = Undoing(encodings) /\ decoders' <= chained'
    BY <1>1 DEF Coding!Accepted, Undoing
<1>6. left' # Coding!Garbage =>
         /\ chained' <= Len(body'.stack)
         /\ left' = SubSeq(body'.stack, 1, Len(body'.stack) - chained')
         /\ \A i \in 0 .. chained' - 1 :
               Coding!Accepted'[Len(encodings') - i] = body'.stack[Len(body'.stack) - i]
    BY <1>5, ChainSoFar
<1>7. Coding!ChainedSoFar'
    BY <1>1, <1>5, <1>6 DEF Coding!ChainedSoFar
<1>8. Coding!OutcomeSoFar' /\ Coding!DecodersClosed'
    BY <1>1 DEF Coding!DecodingInv, Coding!OutcomeSoFar, Coding!DecodersClosed, Coding!Truthful
<1>9. QED
    BY <1>3, <1>4, <1>7, <1>8 DEF Coding!DecodingInv

LEMMA CopyKeeps == ASSUME Coding!DecodingInv, Coding!Copy PROVE Coding!DecodingInv'
<1>1. /\ step = "chain" /\ chained = Len(encodings) /\ decoders' = 0
      /\ UNCHANGED <<Reported, body, tokens, encodings, chained, left>>
    BY DEF Coding!Copy, Coding!CloseAll
<1>2. copied = "whole"
    BY <1>1 DEF Coding!DecodingInv, Coding!ChainedSoFar
<1>3. CASE /\ left = Coding!Garbage \/ ~ Coding!Damaged \/ (Coding!Damaged /\ Coding!ErrorUnread)
           /\ step' = "detect" /\ UNCHANGED <<copied, ret>>
    <2>1. left # Coding!Garbage => Coding!DamageMet'
        BY <1>1, <1>3 DEF Coding!DamageMet, Coding!Damaged, Coding!ErrorUnread
    <2>2. Coding!AlteredOnlyUnderBrotli'
        BY <1>2, <1>3 DEF Coding!AlteredOnlyUnderBrotli
    <2>3. QED
        BY <1>1, <1>2, <1>3, <2>1, <2>2, CopiedKeeps
<1>4. CASE /\ left # Coding!Garbage /\ Coding!Damaged /\ Coding!NoChecksum
           /\ step' = "detect" /\ copied' = "altered" /\ UNCHANGED ret
    <2>1. Coding!DamageMet'
        BY <1>4 DEF Coding!DamageMet
    <2>2. Coding!AlteredOnlyUnderBrotli'
        BY <1>1, <1>4 DEF Coding!AlteredOnlyUnderBrotli, Coding!Damaged, Coding!NoChecksum
    <2>3. QED
        BY <1>1, <1>4, <2>1, <2>2, CopiedKeeps
<1>5. CASE (left = Coding!Garbage \/ Coding!Damaged) /\ Coding!End("error") /\ UNCHANGED copied
    <2>1. ~ Coding!Truthful(Reported)
        <3> SUFFICES ASSUME Coding!Truthful(Reported) PROVE FALSE
            OBVIOUS
        <3>1. left # Coding!Garbage /\ body.cut = 0
            BY <1>1, TruthfulBegins
        <3>2. Len(left) \in Nat
            BY <1>1, <3>1, ChainSoFar
        <3>3. QED
            BY <1>5, <3>1, <3>2 DEF Coding!Damaged
    <2>2. QED
        BY <1>1, <1>5, <2>1, ErrorKeeps DEF Coding!End
<1>6. QED
    BY <1>3, <1>4, <1>5 DEF Coding!Copy

LEMMA DetectKeeps == ASSUME Coding!DecodingInv, Coding!Detect PROVE Coding!DecodingInv'
<1>1. /\ step = "detect" /\ step' = "done"
      /\ \/ left = <<>> /\ body.plain = "image" /\ ret' = "image"
         \/ (left # <<>> \/ body.plain # "image" \/ copied = "altered") /\ ret' = "notimage"
      /\ UNCHANGED <<Reported, body, tokens, encodings, chained, left, decoders, copied>>
    BY DEF Coding!Detect, Coding!End
<1>2. /\ Coding!TypeOK /\ tokens = <<>> /\ ret = "none" /\ decoders = 0
      /\ chained = Len(encodings) /\ (left # Coding!Garbage => Coding!DamageMet)
      /\ Coding!AlteredOnlyUnderBrotli
    BY <1>1 DEF Coding!DecodingInv, Coding!ChainedSoFar, Coding!OutcomeSoFar
<1>3. /\ body.stack \in Seq(Undone) /\ Len(body.stack) \in Nat /\ chained \in Nat
      /\ encodings \in Seq(Spellings) /\ Len(encodings) \in Nat
    BY <1>2, DecodingTyped
<1>4. Undoing(encodings) = Coding!Declared(List)
    BY <1>1, <1>2, AllSeen
<1>5. ASSUME left = <<>>, body.plain = "image"
      PROVE  Coding!UndoneAsDeclared /\ Coding!DamageMet
    <2>2. left # Coding!Garbage /\ Len(left) = 0
        BY <1>5, GarbageIsNone
    <2>3. /\ chained <= Len(body.stack) /\ Len(left) = Len(body.stack) - chained
          /\ \A i \in 0 .. chained - 1 :
                Undoing(encodings)[Len(encodings) - i] = body.stack[Len(body.stack) - i]
        BY <1>1, <2>2, ChainSoFar
    <2>4. Len(body.stack) = Len(encodings)
        BY <1>2, <1>3, <2>2, <2>3
    <2>5. ASSUME NEW j \in 1 .. Len(encodings) PROVE Undoing(encodings)[j] = body.stack[j]
        <3>1. Len(encodings) - j \in 0 .. chained - 1 /\ Len(encodings) - (Len(encodings) - j) = j
            BY <1>2, <1>3
        <3>2. QED
            BY <2>3, <2>4, <3>1
    <2>6. Undoing(encodings) \in Seq(Undone) /\ Len(Undoing(encodings)) = Len(encodings)
        <3>1. Undoing(encodings) \in Seq(Coding!Codings) /\ Coding!Codings \subseteq Undone
            BY <1>3, UndoingType DEF Undone
        <3>2. QED
            BY <1>3, <3>1, UndoingType, SeqMonotonic
    <2>7. Undoing(encodings) = body.stack
        BY <1>3, <2>4, <2>5, <2>6, SeqEqual
    <2>8. QED
        BY <1>2, <1>4, <1>5, <2>2, <2>7 DEF Coding!UndoneAsDeclared, List
<1>6. ASSUME Coding!Truthful(Reported)
      PROVE  left = <<>> /\ body.plain = "image" /\ copied # "altered" /\ left # Coding!Garbage
    <2>1. /\ left # Coding!Garbage /\ body.plain = "image" /\ body.cut = 0
          /\ Len(encodings) = Len(body.stack)
        BY <1>1, <1>6, TruthfulBegins
    <2>2. left \in Seq(Undone) /\ Len(left) = Len(body.stack) - chained
        BY <1>1, <2>1, ChainSoFar
    <2>3. Len(left) = 0
        BY <1>2, <1>3, <2>1, <2>2
    <2>4. left = <<>>
        BY <2>2, <2>3, EmptySeq
    <2>5. copied # "altered"
        BY <1>2, <2>1, <2>3 DEF Coding!AlteredOnlyUnderBrotli, Coding!Damaged
    <2>6. QED
        BY <2>1, <2>4, <2>5
<1>7. Coding!TypeOK'
    BY <1>1, <1>2 DEF Coding!TypeOK
<1>8. Coding!ParsedSoFar'
    BY <1>1, <1>2, SeenKept
<1>9. Coding!ChainedSoFar' /\ Coding!DecodersClosed'
    BY <1>1, <1>2 DEF Coding!ChainedSoFar, Coding!DecodersClosed
<1>10. Coding!OutcomeSoFar'
    <2>1. ret' = "image" => left = <<>> /\ body.plain = "image"
        BY <1>1
    <2>2. ret' = "image" => Coding!UndoneAsDeclared' /\ Coding!DamageMet'
        BY <1>1, <1>5, <2>1 DEF Coding!UndoneAsDeclared, Coding!DamageMet, Coding!Damaged, Coding!ErrorUnread
    <2>3. Coding!Truthful(Reported)' => left' # Coding!Garbage /\ ret' = "image"
        BY <1>1, <1>6 DEF Coding!Truthful
    <2>4. Coding!AlteredOnlyUnderBrotli'
        BY <1>1, <1>2 DEF Coding!AlteredOnlyUnderBrotli, Coding!Damaged, Coding!NoChecksum
    <2>5. QED
        BY <2>2, <2>3, <2>4 DEF Coding!OutcomeSoFar
<1>11. QED
    BY <1>7, <1>8, <1>9, <1>10 DEF Coding!DecodingInv

LEMMA DecodingKept == ASSUME Coding!DecodingInv, UNCHANGED <<Reported, decodingVars>> PROVE Coding!DecodingInv'
    BY DEF decodingVars, Coding!DecodingInv, Coding!TypeOK, Coding!DecodersClosed, Coding!ParsedSoFar,
           Coding!ChainedSoFar, Coding!OutcomeSoFar, Coding!Untouched, Coding!Accepted,
           Coding!UndoneAsDeclared, Coding!Truthful, Coding!DamageMet, Coding!Damaged,
           Coding!NoChecksum, Coding!ErrorUnread, Coding!AlteredOnlyUnderBrotli

LEMMA DecodingNext == Coding!DecodingInv /\ Coding!Next => Coding!DecodingInv'
    BY TakeHeaderKeeps, ParseTokenKeeps, ParsedKeeps, OpenEagerKeeps, OpenLazyKeeps, CopyKeeps,
       DetectKeeps, DecodingKept DEF Coding!Next, Coding!Returned, Coding!vars, decodingVars

-----------------------------------------------------------------------------
(* The entry.                                                               *)

\* Nothing is decoded before the pickle has been read.
PickleFirst == field \notin {"done", "error"} => Coding!Untouched

EntryInv == CursorInv /\ ImageInv /\ PickleFirst

LEMMA ReportedType ==
    ASSUME headers \in Headers
    PROVE  Reported \in Coding!HeaderType
<1>1. headers \in Seq(Seq(Coding!Tokens))
    BY HeadersAssumption DEF Coding!HeaderType
<1>2. <<>> \in Seq(Seq(Coding!Tokens))
    BY EmptySeq
<1>3. QED
    BY <1>1, <1>2 DEF Reported, Coding!HeaderType

LEMMA InitEntry == ImageInit => EntryInv
<1> SUFFICES ASSUME ImageInit PROVE EntryInv
    OBVIOUS
<1>1. Init /\ Coding!Untouched /\ headers \in Headers /\ body \in Coding!BodyType
    BY HeadersAssumption, BodiesAssumption DEF ImageInit
<1>2. CursorInv
    BY <1>1, InitCursor
<1>3. Coding!DecodingInv
    BY <1>1, ReportedType, UntouchedDecoding
<1>4. QED
    BY <1>1, <1>2, <1>3 DEF EntryInv, ImageInv, PickleFirst, CursorInv

\* While the pickle is being read, the decoding stays as it was.
LEMMA ParseMetadataKeeps == ASSUME EntryInv, ParseMetadata PROVE EntryInv'
<1>1. Read /\ UNCHANGED <<headers, decodingVars>>
    BY DEF ParseMetadata
<1>2. CursorInv'
    BY <1>1, CursorNext DEF EntryInv, Next
<1>3. field \notin {"done", "error"}
    BY <1>1 DEF Read, ReadSize, ReadFlags, ReadExtra, ReadRequestTime, ReadResponseTime,
                ReadOriginalTime, ReadLength, ReadString
<1>4. Coding!Untouched /\ headers \in Headers /\ body \in Coding!BodyType
    BY <1>3 DEF EntryInv, PickleFirst, ImageInv, Coding!DecodingInv, Coding!TypeOK
<1>5. Coding!Untouched' /\ headers' \in Headers /\ body' \in Coding!BodyType
    BY <1>1, <1>4 DEF decodingVars, Coding!Untouched
<1>6. Coding!TypeOK'
    <2>1. Reported' = headers' \/ Reported' = <<>>
        BY DEF Reported
    <2>2. headers' \in Coding!HeaderType /\ <<>> \in Coding!HeaderType
        BY <1>5, HeadersAssumption, EmptySeq DEF Coding!HeaderType
    <2>3. Reported' \in Coding!HeaderType
        BY <2>1, <2>2
    <2>4. QED
        BY <1>1, <2>3 DEF EntryInv, ImageInv, Coding!DecodingInv, Coding!TypeOK, decodingVars
<1>7. Coding!DecodingInv'
    <2>1. step' = "headers" /\ ret' = "none"
        BY <1>5 DEF Coding!Untouched
    <2>2. /\ Coding!DecodersClosed' /\ Coding!ParsedSoFar' /\ Coding!ChainedSoFar' /\ Coding!OutcomeSoFar'
        BY <1>5, <2>1 DEF Coding!DecodersClosed, Coding!ParsedSoFar, Coding!ChainedSoFar, Coding!OutcomeSoFar,
                          Coding!Untouched, Coding!AlteredOnlyUnderBrotli
    <2>3. QED
        BY <1>6, <2>2 DEF Coding!DecodingInv
<1>8. QED
    BY <1>2, <1>5, <1>7 DEF EntryInv, ImageInv, PickleFirst, CursorInv

LEMMA ExtractKeeps == ASSUME EntryInv, Extract PROVE EntryInv'
<1>1. field \in {"done", "error"} /\ UNCHANGED <<vars, headers>> /\ Coding!Next
    BY DEF Extract
<1>2. CursorInv'
    BY <1>1, CursorNext DEF EntryInv
<1>3. Coding!DecodingInv'
    BY <1>1, DecodingNext DEF EntryInv, ImageInv
<1>4. field' \in {"done", "error"} /\ headers' \in Headers
    BY <1>1 DEF EntryInv, ImageInv, vars
<1>5. QED
    BY <1>2, <1>3, <1>4 DEF EntryInv, ImageInv, PickleFirst, CursorInv

\* The inductive invariant: the cursor, the decoding, and that it waits.
THEOREM EntryInvariant == ImageSpec => []EntryInv
<1>1. ASSUME EntryInv, UNCHANGED <<vars, headers, decodingVars>> PROVE EntryInv'
    <2>1. CursorInv'
        BY <1>1, CursorNext DEF EntryInv
    <2>2. field' = field /\ headers' = headers
        BY <1>1 DEF vars
    <2>3. Coding!DecodingInv'
        <3>1. Reported' = Reported
            BY <2>2 DEF Reported
        <3>2. QED
            BY <1>1, <3>1, DecodingKept DEF EntryInv, ImageInv
    <2>4. PickleFirst'
        BY <1>1, <2>2 DEF EntryInv, PickleFirst, Coding!Untouched, decodingVars
    <2>5. QED
        BY <1>1, <2>1, <2>2, <2>3, <2>4 DEF EntryInv, ImageInv, CursorInv
<1>2. EntryInv /\ [ImageNext]_<<vars, headers, decodingVars>> => EntryInv'
    BY <1>1, ParseMetadataKeeps, ExtractKeeps DEF ImageNext
<1>3. QED
    BY InitEntry, <1>2, PTL DEF ImageSpec

\* Every entry keeps the types, closes its decoders and undoes codings from the
\* end of what was declared.
THEOREM ImageInvariant == ImageSpec => []ImageInv
    BY EntryInvariant, PTL DEF EntryInv

\* The whole entry reads its pickle as ResponsePickle says, so that what holds of
\* every pickle holds of every entry.
THEOREM ReadsPickle == ImageSpec => Spec
<1>1. ImageInit => Init
    BY DEF ImageInit
<1>2. [ImageNext]_<<vars, headers, decodingVars>> => [Next]_vars
    BY DEF ImageNext, ParseMetadata, Extract, Next
<1>3. QED
    BY <1>1, <1>2, PTL DEF ImageSpec, Spec

\* An image under codings that one header declares comes out of an entry with an
\* intact pickle.
THEOREM ImageComesOut == ImageSpec => []ImageRecovered
<1>1. EntryInv => ImageRecovered
    <2> SUFFICES ASSUME EntryInv, step = "done", Intact, Coding!Truthful(headers) PROVE ret = "image"
        BY DEF ImageRecovered
    <2>1. field \in {"done", "error"}
        BY DEF EntryInv, PickleFirst, Coding!Untouched
    <2>2. field = "done"
        BY <2>1 DEF EntryInv, CursorInv, Located
    <2>3. Coding!Truthful(Reported)
        BY <2>2 DEF Reported
    <2>4. ret \in {"none", "image"} /\ ret # "none"
        BY <2>3 DEF EntryInv, ImageInv, Coding!DecodingInv, Coding!OutcomeSoFar, Coding!TypeOK
    <2>5. QED
        BY <2>4
<1>2. QED
    BY <1>1, EntryInvariant, PTL

\* Nothing comes out as an image but what was read from the pickle, undone, and
\* altered only where no checksum covers the damage.
THEOREM NothingElseComesOut == ImageSpec => []NothingGuessed
<1>1. EntryInv => NothingGuessed
    <2> SUFFICES ASSUME EntryInv, ret = "image" 
                 PROVE  /\ Coding!UndoneAsDeclared /\ Coding!AlteredOnlyUnderBrotli /\ Coding!DamageMet
                        /\ field = "error" => body.stack = <<>>
        BY DEF NothingGuessed
    <2>1. Coding!UndoneAsDeclared /\ Coding!AlteredOnlyUnderBrotli /\ Coding!DamageMet
        BY DEF EntryInv, ImageInv, Coding!DecodingInv, Coding!OutcomeSoFar
    <2>2. ASSUME field = "error" PROVE body.stack = <<>>
        <3>1. Coding!First(Reported) = <<>>
            BY <2>2 DEF Reported, Coding!First
        <3>2. Coding!Declared(<<>>) = body.stack
            BY <2>1, <3>1 DEF Coding!UndoneAsDeclared
        <3>3. Coding!Declared(<<>>) = <<>>
            BY EmptySeq, DeclaredByIs DEF Coding!Declared
        <3>4. QED
            BY <3>2, <3>3
    <2>3. QED
        BY <2>1, <2>2
<1>2. QED
    BY <1>1, EntryInvariant, PTL
=============================================================================
