------------------------------ MODULE MCInspect ------------------------------
(***************************************************************************)
(* Instances of Inspect with a limit of 30 bytes and keys of up to 12, and  *)
(* of SignatureScan with a pattern that may overlap itself, a second        *)
(* pattern, WebP headers that claim one or two words, and one brand.        *)
(*                                                                          *)
(* Of the search inspect ends with, Inspect knows no more than where the    *)
(* first signature ends; so the two are instances side by side, and a       *)
(* behaviour is a call of inspect or a search, as `searching` says.         *)
(***************************************************************************)
EXTENDS Inspect, SignatureScan

VARIABLE searching

Text(n) == [size |-> n, magic |-> FALSE, known |-> FALSE, key |-> 0, urls |-> {},
            window |-> FALSE, reddit |-> 0, type |-> 0, image |-> 0]
Entry(n, k) == [Text(n) EXCEPT !.magic = TRUE, !.known = TRUE, !.key = k, !.urls = {k} \ {0}]

\* Empty, too short for a magic, ordinary; addresses and images before, at and
\* beyond the limit; entries cut in the magic, the header and the key, with an
\* empty key, the longest, one too long, one without a URL and a version nobody
\* knows; a body that makes a URL with the key when read by a longer one's length.
MCVersions ==
    {Text(n) : n \in {0, 7, 8, 40}}
    \cup {[Text(40) EXCEPT !.reddit = e] : e \in {20, 30, 31}}
    \cup {[Text(40) EXCEPT !.type = 12, !.image = 31], [Text(40) EXCEPT !.image = 3, !.window = TRUE],
          [Text(40) EXCEPT !.window = TRUE]}
    \cup {Entry(8, 0), Entry(23, 5), Entry(24, 0), Entry(35, 12), Entry(36, 12), Entry(40, 13),
          [Entry(40, 5) EXCEPT !.known = FALSE], [Entry(40, 5) EXCEPT !.urls = {}],
          [Entry(40, 5) EXCEPT !.urls = {12}], [Entry(40, 10) EXCEPT !.reddit = 34, !.window = TRUE]}

MCPaths == {{}, {"cache-entry-filename"}, {"unrelated-application-data"},
            {"cache-entry-filename", "unrelated-application-data"},
            {"cache-data-directory", "chrome-path", "service-worker-cache"}}

MCCells == {"ff", "d8", "png", "RIFF", "one", "two", "WEBP", "ftyp", "avif"}
\* All that scan reads to the end, and those WebP images that are one cell longer.
MCFiles == UNION {[1 .. n -> MCCells] : n \in 0 .. Window}
           \cup {f \in [1 .. Window + 1 -> MCCells] :
                    \E at \in 1 .. Window - 1 : WebPNamed(f, at)}
MCPatterns == << <<"jpeg", <<"ff", "d8", "ff">> >>, <<"png", <<"png">> >> >>
MCBrands == [b \in {"avif"} |-> "avif"]
MCClaim == [c \in MCCells |-> IF c = "one" THEN 1 ELSE IF c = "two" THEN 2 ELSE 9]

\* No search, and no call of inspect.
NoSearch == whole = <<>> /\ data = <<>> /\ turn = Len(Patterns) + 2 /\ from = 1 /\ out = <<>>
NoCall == /\ file = Text(0) /\ info = file /\ path = {}
          /\ step = "done" /\ signals = {} /\ errors = {} /\ result = Nothing
          /\ reach = 0 /\ seen = {} /\ broken = {}

MCInit == \/ searching = FALSE /\ Init /\ NoSearch
          \/ searching = TRUE /\ FindInit /\ NoCall

MCNext == /\ UNCHANGED searching
          /\ \/ ~searching /\ Next /\ UNCHANGED findVars
             \/ searching /\ FindNext /\ UNCHANGED vars

MCSpec == MCInit /\ [][MCNext]_<<searching, vars, findVars>>
==============================================================================
