---------------------------- MODULE MCChromecarve ----------------------------
(***************************************************************************)
(* Instances of Chromecarve: 256-value integers, the factors 1 and 64, every *)
(* file of up to MaxLines lines, and every class of error ParseFile and     *)
(* Extract return, two of them joined.                                      *)
(***************************************************************************)
EXTENDS Chromecarve

CONSTANT MaxLines

Plain == [cmd |-> "scan", parse |-> "ok", digits |-> 0, factor |-> 1, roots |-> 1,
          output |-> TRUE, input |-> FALSE, paths |-> 0, workers |-> 0, interval |-> 5,
          after |-> Unset, before |-> Unset]

\* As written, and as stored: 0, 7, 8, 127, -128 (2 * 64), 0 (4 * 64), 64 (5 * 64),
\* and three that do not parse.
Sizes == {<<0, 1>>, <<7, 1>>, <<8, 1>>, <<127, 1>>, <<2, 64>>, <<4, 64>>, <<5, 64>>,
          <<128, 1>>, <<-1, 1>>, <<-1, 64>>}

Sized(a, s) == [a EXCEPT !.digits = s[1], !.factor = s[2]]

ScanArgs ==
    {Sized([Plain EXCEPT !.roots = r, !.output = o, !.workers = w, !.interval = i,
                         !.after = t[1], !.before = t[2]], s) :
        r \in {0, 1}, o \in BOOLEAN, w \in {-1, 0, 2}, i \in {-1, 0},
        t \in ({Unset, 1, 2} \X {Unset, 1}) \cup {<<Malformed, Unset>>, <<Unset, Malformed>>},
        s \in Sizes}

\* inspect has no size, and no output.
OtherArgs ==
    {Sized([Plain EXCEPT !.cmd = "extract", !.output = o, !.input = i, !.paths = p], s) :
        o \in BOOLEAN, i \in BOOLEAN, p \in 0 .. 2, s \in {<<0, 1>>, <<7, 1>>, <<2, 64>>, <<5, 64>>, <<-1, 1>>}}
    \cup {[Plain EXCEPT !.cmd = "inspect", !.input = i, !.paths = p] : i \in BOOLEAN, p \in 0 .. 2}
    \cup {[Plain EXCEPT !.cmd = c] : c \in {"help", "planned", "unknown", "none"}}
    \cup {[Plain EXCEPT !.cmd = c, !.parse = p] :
            c \in {"scan", "inspect", "extract"}, p \in {"help", "bad"}}

MCArgs == ScanArgs \cup OtherArgs

Came(errs, entry) == [errs |-> errs, entry |-> entry, ok |-> errs = {}]

\* A path that cannot be opened has no entry, nor has a file cut in its header;
\* any other error comes with what was parsed.
MCOutcomes ==
    {Came({}, TRUE), Came({"io"}, FALSE), Came({"truncated"}, FALSE),
     Came({"corrupt", "truncated"}, TRUE), Came({"notcache"}, TRUE)}

MCInputs ==
    [batch : {TRUE}, lines : UNION {[1 .. n -> LineKinds] : n \in 0 .. MaxLines},
     end : {"eof", "error"}]
    \cup [batch : {FALSE}, lines : {<<>>}, end : {"eof"}]
==============================================================================
