---------------------------- MODULE MCStoredImage ----------------------------
(***************************************************************************)
(* Instances of StoredImage: every stream with a gzipped image or a plain   *)
(* one, and an intact stream with every header and body.                    *)
(***************************************************************************)
EXTENDS StoredImage

CONSTANT MaxLen

MCMainStream == [len |-> MaxLen, payload |-> MaxLen - 4, version |-> 3, extra |-> TRUE,
                 original |-> TRUE, length |-> 4, status |-> "good"]

\* Every length and payload size around those of an intact pickle with up to four
\* bytes of headers; one intact pickle with every status line.
MCStreams ==
    [len : 0 .. MaxLen, payload : 0 .. MaxLen + 1, version : {0, 1, 4}, extra : BOOLEAN,
     original : BOOLEAN, length : {0, 1, 4, MaxLen}, status : {"good"}]
    \cup [len : {MaxLen}, payload : {MaxLen - 4}, version : {3}, extra : BOOLEAN,
          original : BOOLEAN, length : {4}, status : StatusLines]

\* Up to three elements in one line, or one element in each of two lines.
Lists == UNION {[1 .. n -> Coding!Tokens] : n \in 0 .. 3}
MCHeaders == {<<>>} \cup {<<l>> : l \in Lists}
             \cup [1 .. 2 -> {<<"gzip">>, <<"br">>, <<"identity">>}]

\* Up to three codings of an image, damaged under any of them or nowhere, or of
\* something else.
Body(stack, plain, cut) == [stack |-> stack, plain |-> plain, cut |-> cut]
Stacks == UNION {[1 .. n -> Coding!Codings] : n \in 0 .. 3} \cup {<<"zstd">>, <<"gzip", "zstd">>}
MCBodies == UNION {{Body(s, "image", c) : c \in 0 .. Len(s)} : s \in Stacks}
            \cup {Body(s, "other", 0) : s \in Stacks}

MCMainHeaders == {<< <<"x-gzip">> >>}
MCMainBodies == {Body(<<>>, "image", 0), Body(<<"gzip">>, "image", 0)}
==============================================================================
