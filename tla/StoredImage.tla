----------------------------- MODULE StoredImage -----------------------------
(***************************************************************************)
(* One cache entry on its way to an image: the pickle in stream 0 is read   *)
(* for its headers (ResponsePickle), and what it reports decides how the    *)
(* body in stream 1 is decoded (ContentCoding).  A pickle that cannot be    *)
(* read is a warning, no error: the body is then taken for unencoded.       *)
(***************************************************************************)
EXTENDS ResponsePickle, Sequences

CONSTANTS Headers,    \* the Content-Encoding headers in the pickle
          Bodies,     \* the bodies
          MainStream, MainHeaders, MainBodies
                      \* bound: a stream other than this one comes with these only

VARIABLES headers,    \* the headers as the server sent them
          body, step, tokens, encodings, chained, left, decoders, copied, ret
decodingVars == <<body, step, tokens, encodings, chained, left, decoders, copied, ret>>

\* What entry.ContentEncoding is made of.
Reported == IF field = "done" THEN headers ELSE <<>>

Coding == INSTANCE ContentCoding WITH lines <- Reported

ASSUME HeadersAssumption == Headers \subseteq Coding!HeaderType /\ MainHeaders \subseteq Headers
ASSUME MainAssumption == MainStream \in Streams
ASSUME BodiesAssumption == Bodies \subseteq Coding!BodyType /\ MainBodies \subseteq Bodies

ImageInit == /\ Init
             /\ headers \in IF data = MainStream THEN Headers ELSE MainHeaders
             /\ body \in IF data = MainStream THEN Bodies ELSE MainBodies
             /\ Coding!Untouched

\* ParseFileReader is over before Extract looks at what it reported.
ParseMetadata == Read /\ UNCHANGED <<headers, decodingVars>>
Extract == field \in {"done", "error"} /\ UNCHANGED <<vars, headers>> /\ Coding!Next

ImageNext == ParseMetadata \/ Extract

ImageSpec == ImageInit /\ [][ImageNext]_<<vars, headers, decodingVars>>

-----------------------------------------------------------------------------
(* Properties.                                                              *)

\* Both halves keep their types, and no decoder is left open, whichever way the
\* call ends.
ImageInv == TypeOK /\ Coding!DecodingInv /\ headers \in Headers

\* An image whose server declares in one header what it applied is recovered
\* from an entry with an intact pickle, however deep the stack, however it is
\* spelled and whatever optional fields stand before the headers.
ImageRecovered == step = "done" /\ Intact /\ Coding!Truthful(headers) => ret = "image"

\* An image comes out only if exactly the codings that were read from the pickle
\* were undone, in their order: never out of a body still encoded, nor past a
\* coding that is not supported, and from an unreadable pickle only if nothing
\* was encoded.  It is what the server encoded, unless the data were damaged under
\* brotli, with nothing but brotli further in; damage that any checksum covers is
\* an error, but for one behind the end of sound zlib data.
NothingGuessed ==
    ret = "image" => /\ Coding!UndoneAsDeclared
                     /\ Coding!AlteredOnlyUnderBrotli /\ Coding!DamageMet
                     /\ field = "error" => body.stack = <<>>
==============================================================================
