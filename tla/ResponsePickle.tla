--------------------------- MODULE ResponsePickle ---------------------------
(***************************************************************************)
(* parseResponseMetadata: the cursor that goes through Chromium's pickled   *)
(* HttpResponseInfo to the raw headers, over stream 0 as it is on the disk. *)
(*                                                                          *)
(* Stream 0 is what the cursor can learn from it: its length, the payload   *)
(* size in its first word, the version and the two flags that insert        *)
(* fields, the length of the header string as found where the cursor looks  *)
(* for it, and what the status line is worth.                               *)
(***************************************************************************)
EXTENDS Integers

CONSTANT Streams  \* what stream 0 may be

StatusLines == {"good", "missing", "malformed", "outofrange"}
StreamType == [len : Nat, payload : Nat, version : Nat, extra : BOOLEAN, original : BOOLEAN,
               length : Nat, status : StatusLines]

ASSUME StreamsAssumption == Streams \subseteq StreamType

VARIABLES data,    \* stream 0
          field,   \* the field to be read next
          cursor,
          from,    \* where the payload begins
          raw,     \* the header string: where it begins and ends
          last     \* history: where the last read began and ended
vars == <<data, field, cursor, from, raw, last>>

None == [first |-> 0, end |-> 0]

Init == /\ data \in Streams
        /\ field = "size"
        /\ cursor = 0 /\ from = 0
        /\ raw = None /\ last = None

-----------------------------------------------------------------------------

HeaderSize == data.len - data.payload

\* The header is at least the word that was read, and a number of words.
PayloadFits == HeaderSize >= 4 /\ HeaderSize % 4 = 0

\* The first word, and the place of the payload.
ReadSize ==
    /\ field = "size"
    /\ IF data.len >= 4 /\ PayloadFits
       THEN /\ field' = "flags"
            /\ cursor' = HeaderSize /\ from' = HeaderSize
            /\ last' = [first |-> 0, end |-> 4]
       ELSE field' = "error" /\ UNCHANGED <<cursor, from, last>>
    /\ UNCHANGED <<data, raw>>

\* Variant: the bound is that of a word, whatever is read.
InBoundsWord(n) == cursor <= data.len - 4

\* readU32 and readI64: the field must end within the stream.
InBounds(n) == cursor <= data.len - n

\* The next field, of n bytes, if there are as many.
Field(n, following) ==
    /\ IF InBounds(n)
       THEN /\ field' = following
            /\ cursor' = cursor + n
            /\ last' = [first |-> cursor, end |-> cursor + n]
       ELSE field' = "error" /\ UNCHANGED <<cursor, last>>
    /\ UNCHANGED <<data, from, raw>>

KnownVersion == data.version \in 1 .. 3

ReadFlags == field = "flags" /\ Field(4, IF ~KnownVersion THEN "error"
                                         ELSE IF data.extra THEN "extra" ELSE "request")
ReadExtra == field = "extra" /\ Field(4, "request")
ReadRequestTime == field = "request" /\ Field(8, "response")

\* The flag of a third time is in the extra flags, which are 0 unless read.
ReadResponseTime ==
    field = "response" /\ Field(8, IF data.extra /\ data.original THEN "original" ELSE "length")
ReadOriginalTime == field = "original" /\ Field(8, "length")
ReadLength == field = "length" /\ Field(4, "string")

\* The header string, and its status line: nothing is reported unless it is good.
ReadString ==
    /\ field = "string"
    /\ IF data.length <= data.len - cursor
       THEN /\ raw' = [first |-> cursor, end |-> cursor + data.length]
            /\ last' = [first |-> cursor, end |-> cursor + data.length]
            /\ field' = IF data.length > 0 /\ data.status = "good" THEN "done" ELSE "error"
       ELSE field' = "error" /\ UNCHANGED <<raw, last>>
    /\ UNCHANGED <<data, cursor, from>>

Returned == field \in {"done", "error"} /\ UNCHANGED vars

Read == ReadSize \/ ReadFlags \/ ReadExtra \/ ReadRequestTime \/ ReadResponseTime
        \/ ReadOriginalTime \/ ReadLength \/ ReadString
Next == Read \/ Returned

Spec == Init /\ [][Next]_vars

-----------------------------------------------------------------------------
(* Properties.                                                              *)

TypeOK ==
    /\ data \in Streams
    /\ field \in {"size", "flags", "extra", "request", "response", "original", "length",
                  "string", "done", "error"}
    /\ cursor \in Nat /\ from \in Nat
    /\ raw \in [first : Nat, end : Nat] /\ last \in [first : Nat, end : Nat]

\* Whatever sizes stream 0 claims, no byte outside it is read, and none of the
\* pickle's own header is taken for a field.
StaysInside ==
    /\ last.end <= data.len
    /\ last.first <= last.end
    /\ field \notin {"size", "error"} => last.first = 0 \/ last.first >= from
    /\ from # 0 => from >= 4 /\ from + data.payload = data.len

\* How Chromium lays the fields out, and the test's buildResponsePickle.
FieldsLength == 4 + (IF data.extra THEN 4 ELSE 0) + 16
                + (IF data.extra /\ data.original THEN 8 ELSE 0) + 4
Intact == /\ data.len = data.payload + 4
          /\ data.payload >= FieldsLength + data.length
          /\ data.version \in 1 .. 3 /\ data.status = "good" /\ data.length > 0

\* The headers of an intact pickle are found, exactly where they were written,
\* whichever of the optional fields come before them and whatever comes after.
IntactFound ==
    field \in {"done", "error"} /\ Intact =>
        /\ field = "done"
        /\ raw = [first |-> 4 + FieldsLength, end |-> 4 + FieldsLength + data.length]
==============================================================================
