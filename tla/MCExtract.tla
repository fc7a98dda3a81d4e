------------------------------ MODULE MCExtract ------------------------------
(***************************************************************************)
(* Small instances of Extract for TLC: an image of the size of the limit and *)
(* two encodings of it, images one and two bytes larger and their encodings,*)
(* a page that is no image, and a body that does not decode.                *)
(***************************************************************************)
EXTENDS Extract, TLC

Bytes == {"png", "png.gz", "png.br", "big", "big.gz", "huge.gz",
          "huge", "html", "html.gz", "bad.gz", "prefix", ""}

\* Those of SameImage, and what PlantedDir holds.
FewBytes == {"png", "png.gz", "png.br", "html", "prefix", ""}

SizeOf == [c \in Contents |-> CASE c = "" -> 0
                             [] c = "png" -> 2
                             [] c = "big" -> 3
                             [] c = "huge" -> 4
                             [] c = "prefix" -> 1
                             [] OTHER -> 1]

TypeOf == [c \in Contents |-> IF c \in {"png", "big", "huge", "prefix"} THEN "png" ELSE "none"]

DecodingOf == [c \in Contents |-> CASE c \in {"png.gz", "png.br"} -> "png"
                                 [] c = "big.gz" -> "big"
                                 [] c = "huge.gz" -> "huge"
                                 [] c = "html.gz" -> "html"
                                 [] OTHER -> "corrupt"]

Body(coding, raw) == [coding |-> coding, raw |-> raw]

EveryBody == {Body("identity", "png"), Body("identity", "html"), Body("identity", "big"),
              Body("coded", "png.gz"), Body("coded", "big.gz"),
              Body("coded", "huge.gz"), Body("coded", "html.gz"),
              Body("coded", "bad.gz"), Body("unsupported", "png")}

\* The bodies that lead to the same image, by three ways.
SameImage == {Body("identity", "png"), Body("coded", "png.gz"), Body("coded", "png.br")}

\* An output directory that is new, and one in which the name of the image and
\* that of a raw body are taken by other content.
NewDir == << >>
PlantedDir == (ImageName("png", "png") :> [content |-> "html", durable |-> TRUE])
              @@ (RawName("png.br") :> [content |-> "png", durable |-> TRUE])

NoFaults == {}
LateFaults == {"link", "remove"}
AnyFault == {"create", "write", "sync", "open", "link", "remove"}

Symmetry == Permutations(Procs)
=============================================================================
