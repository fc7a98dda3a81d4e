---------------------------- MODULE ContentCoding ----------------------------
(***************************************************************************)
(* From the Content-Encoding header to the decoded body: parseHTTPStream,   *)
(* parseEncodings, decoderChain and the rest of decodeRaw, for one body.    *)
(*                                                                          *)
(* A body is the stack of codings the server applied to something, the      *)
(* first one applied first; `cut` is the coding whose data are damaged      *)
(* behind their beginning (0: none), so that they no longer are the encoding *)
(* of what was encoded.  gzip and deflate (zlib) data end in a checksum of   *)
(* what they decode to, br data do not.  Spelling, spaces and the size limit *)
(* (module Extract) are left out.  How the header comes out of the entry is *)
(* ResponsePickle; StoredImage joins the two.                               *)
(***************************************************************************)
EXTENDS Integers, Sequences, SequencesExt

Codings == {"gzip", "deflate", "br"}
Tokens == Codings \cup {"x-gzip", "identity", "empty", "zstd"}

\* Content-Encoding headers, each a list of tokens, and bodies.
HeaderType == Seq(Seq(Tokens))
BodyType == {b \in [stack : Seq(Codings \cup {"zstd"}), plain : {"image", "other"}, cut : Nat] :
               b.cut <= Len(b.stack)}

VARIABLES lines,     \* the headers
          body,      \* stack, plain and cut of the raw body
          step,      \* where the call stands
          tokens,    \* of entry.ContentEncoding, those still to be looked at
          encodings, \* what parseEncodings has accepted
          chained,   \* how many of those the chain undoes
          left,      \* the stack that the reader built so far yields
          decoders,  \* the decoders to be closed
          copied,    \* what was decoded: "whole" but for damage nobody noticed
          ret        \* what becomes of the body
vars == <<lines, body, step, tokens, encodings, chained, left, decoders, copied, ret>>

\* Nothing has been looked at yet.
Untouched == /\ step = "headers"
             /\ tokens = <<>> /\ encodings = <<>> /\ left = <<>>
             /\ chained = 0 /\ decoders = 0
             /\ copied = "whole" /\ ret = "none"

-----------------------------------------------------------------------------

\* Only the first of the headers is kept.
TakeHeader ==
    /\ step = "headers"
    /\ tokens' = IF lines = <<>> THEN <<>> ELSE Head(lines)
    /\ step' = "parse"
    /\ UNCHANGED <<lines, body, encodings, chained, left, decoders, copied, ret>>

End(result) == step' = "done" /\ ret' = result

\* One element of the list: empty ones and identity count for nothing.
ParseToken ==
    /\ step = "parse" /\ tokens # <<>>
    /\ tokens' = Tail(tokens)
    /\ \/ /\ Head(tokens) \in {"empty", "identity"}
          /\ UNCHANGED <<step, encodings, ret>>
       \/ /\ Head(tokens) \in Codings \cup {"x-gzip"}
          /\ encodings' = Append(encodings, Head(tokens))
          /\ UNCHANGED <<step, ret>>
       \/ /\ Head(tokens) \notin Codings \cup {"x-gzip", "empty", "identity"}
          /\ End("unsupported") /\ UNCHANGED encodings
    /\ UNCHANGED <<lines, body, chained, left, decoders, copied>>

\* The list ends; without codings the raw body is looked at as it is.
Parsed ==
    /\ step = "parse" /\ tokens = <<>>
    /\ step' = IF encodings = <<>> THEN "detect" ELSE "chain"
    /\ left' = body.stack
    /\ UNCHANGED <<lines, body, tokens, encodings, chained, decoders, copied, ret>>

Undoes(encoding) == IF encoding = "x-gzip" THEN "gzip" ELSE encoding

\* Variant: the codings are undone in the order they were applied.
NextEncodingFirst == encodings[chained + 1]

\* The chain is built from the end of the list.
NextEncoding == encodings[Len(encodings) - chained]

\* What a brotli decoder makes of data that are none.
Garbage == <<"garbage">>

\* Whether the reader built so far begins with data of a coding.
Begins(coding) == left # <<>> /\ left[Len(left)] = coding

\* Variant: a decoder that cannot begin leaves the others open.
CloseAllNone == decoders

\* closeAll
CloseAll == 0

\* gzip.NewReader and zlib.NewReader read the header, through the decoders that
\* are there already: any damage of those may show here.
OpenEager ==
    /\ step = "chain" /\ chained < Len(encodings)
    /\ Undoes(NextEncoding) \in {"gzip", "deflate"}
    /\ \/ /\ Begins(Undoes(NextEncoding))
          /\ left' = Front(left)
          /\ decoders' = decoders + 1
          /\ chained' = chained + 1
          /\ UNCHANGED <<step, ret>>
       \/ /\ ~Begins(Undoes(NextEncoding)) \/ body.cut > Len(left)
          /\ decoders' = CloseAll
          /\ End("error") /\ UNCHANGED <<left, chained>>
    /\ UNCHANGED <<lines, body, tokens, encodings, copied>>

\* brotli.NewReader reads nothing yet, and has nothing to close.
OpenLazy ==
    /\ step = "chain" /\ chained < Len(encodings)
    /\ NextEncoding = "br"
    /\ left' = IF Begins("br") THEN Front(left) ELSE Garbage
    /\ chained' = chained + 1
    /\ UNCHANGED <<lines, body, step, tokens, encodings, decoders, copied, ret>>

\* Whether the damage is among what the chain undoes, and so passes its decoders.
Damaged == body.cut > Len(left)

\* No decoder from the damaged coding inwards has a checksum to notice it by.
NoChecksum == \A i \in Len(left) + 1 .. body.cut : body.stack[i] = "br"

\* The damage would be an error, but a zlib reader further in has had its own, sound
\* data before and ends without reading on to it.
ErrorUnread == \E i \in Len(left) + 1 .. body.cut - 1 : body.stack[i] = "deflate"

\* Variant: what the copy returns is not looked at.
CopyUnchecked ==
    /\ step = "chain" /\ chained = Len(encodings)
    /\ decoders' = CloseAll
    /\ step' = "detect" /\ UNCHANGED <<copied, ret>>
    /\ UNCHANGED <<lines, body, tokens, encodings, chained, left>>

\* io.Copy through the chain, and closeAll.  Damage is an error, at the latest where
\* a checksum fails; under brotli alone it may also change what is decoded and be
\* none, and what brotli makes of garbage may be an error or not.
Copy ==
    /\ step = "chain" /\ chained = Len(encodings)
    /\ decoders' = CloseAll
    /\ \/ /\ left = Garbage \/ ~Damaged \/ (Damaged /\ ErrorUnread)
          /\ step' = "detect" /\ UNCHANGED <<copied, ret>>
       \/ /\ left # Garbage /\ Damaged /\ NoChecksum
          /\ step' = "detect" /\ copied' = "altered" /\ UNCHANGED ret
       \/ /\ left = Garbage \/ Damaged
          /\ End("error") /\ UNCHANGED copied
    /\ UNCHANGED <<lines, body, tokens, encodings, chained, left>>

\* detectImage looks at the first 64 bytes: only those of an image begin like one,
\* and an image that was altered may still do.
Detect == /\ step = "detect"
          /\ \/ left = <<>> /\ body.plain = "image" /\ End("image")
             \/ /\ left # <<>> \/ body.plain # "image" \/ copied = "altered"
                /\ End("notimage")
          /\ UNCHANGED <<lines, body, tokens, encodings, chained, left, decoders, copied>>

Returned == step = "done" /\ UNCHANGED vars

Next == TakeHeader \/ ParseToken \/ Parsed \/ OpenEager \/ OpenLazy \/ Copy \/ Detect \/ Returned

-----------------------------------------------------------------------------
(* Properties.                                                              *)

TypeOK ==
    /\ lines \in HeaderType
    /\ body \in BodyType
    /\ step \in {"headers", "parse", "chain", "detect", "done"}
    /\ tokens \in Seq(Tokens)
    /\ encodings \in Seq(Codings \cup {"x-gzip"})
    /\ left \in Seq(Codings \cup {"zstd"}) \cup {Garbage}
    /\ chained \in 0 .. Len(encodings)
    /\ decoders \in 0 .. Len(body.stack)
    /\ copied \in {"whole", "altered"}
    /\ ret \in {"none", "unsupported", "error", "notimage", "image"}
    /\ step = "done" => ret # "none"

\* The codings that the first n elements of a list declare.
DeclaredBy(list) ==
    LET of[n \in 0 .. Len(list)] ==
            IF n = 0 THEN <<>>
            ELSE IF list[n] \in {"empty", "identity"} THEN of[n - 1]
            ELSE Append(of[n - 1], Undoes(list[n]))
    IN of
Declared(list) == DeclaredBy(list)[Len(list)]
First(hs) == IF hs = <<>> THEN <<>> ELSE Head(hs)

\* An image under codings that can be undone, and that one header declares.
Truthful(hs) ==
    /\ body.plain = "image" /\ body.cut = 0
    /\ Len(hs) <= 1 /\ Declared(First(hs)) = body.stack
    /\ \A i \in 1 .. Len(body.stack) : body.stack[i] \in Codings

\* Exactly the codings that were reported have been undone, in their order.
UndoneAsDeclared == body.plain = "image" /\ left = <<>> /\ Declared(First(lines)) = body.stack

\* What was decoded is what had been encoded, unless the damage lies under brotli
\* and nothing further in has a checksum.
AlteredOnlyUnderBrotli == copied = "altered" => Damaged /\ NoChecksum

\* Damage that was undone and did not alter anything met an error that was not read.
DamageMet == Damaged /\ copied = "whole" => ErrorUnread

\* No decoder is left open, whichever way the call ends.
DecodersClosed == step = "done" => decoders = 0

-----------------------------------------------------------------------------
(* The inductive invariant behind them.                                      *)

Accepted == [i \in 1 .. Len(encodings) |-> Undoes(encodings[i])]

\* What was accepted is what the elements looked at so far declare.
ParsedSoFar ==
    /\ step = "headers" => Untouched
    /\ step # "headers" =>
          LET list == First(lines)
              seen == Len(list) - Len(tokens)
          IN /\ seen \in 0 .. Len(list)
             /\ tokens = SubSeq(list, seen + 1, Len(list))
             /\ ret # "unsupported" => Accepted = DeclaredBy(list)[seen]

\* The reader built so far yields the body with the accepted codings undone, last
\* one first, or a brotli decoder has gone wrong.
ChainedSoFar ==
    /\ step = "parse" => chained = 0 /\ decoders = 0
    /\ step \in {"chain", "detect"} => tokens = <<>>
    /\ step \in {"chain", "detect"} /\ left # Garbage =>
          /\ chained <= Len(body.stack) /\ decoders <= chained
          /\ left = SubSeq(body.stack, 1, Len(body.stack) - chained)
          /\ \A i \in 0 .. chained - 1 :
                Accepted[Len(encodings) - i] = body.stack[Len(body.stack) - i]
    /\ step = "detect" => chained = Len(encodings) /\ decoders = 0
    /\ step = "detect" /\ left # Garbage => DamageMet
    /\ step \notin {"detect", "done"} => copied = "whole"
    /\ step # "done" => ret = "none"

\* What can be undone meets no error, and what comes out was declared.
OutcomeSoFar ==
    /\ step # "headers" /\ Truthful(lines) => left # Garbage /\ ret \in {"none", "image"}
    /\ ret = "image" => UndoneAsDeclared /\ DamageMet
    /\ AlteredOnlyUnderBrotli

DecodingInv == TypeOK /\ DecodersClosed /\ ParsedSoFar /\ ChainedSoFar /\ OutcomeSoFar
==============================================================================
