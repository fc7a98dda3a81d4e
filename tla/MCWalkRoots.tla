----------------------------- MODULE MCWalkRoots -----------------------------
(***************************************************************************)
(* A tree with everything that makes walking hard.  Below home: a directory *)
(* a, a hidden directory with a file, a link out of the tree and a link     *)
(* into the hidden directory; in a, a file, a device and a link back to     *)
(* home; outside, a directory with an excluded file, a link to a, a link to *)
(* a file and a broken one.                                                 *)
(***************************************************************************)
EXTENDS WalkRoots

MCKind ==
    [n \in Nodes |->
        IF n \in {"home", "a", ".h", "ext"} THEN "dir"
        ELSE IF n \in {"f", "g", "e"} THEN "file"
        ELSE IF n = "dev" THEN "special" ELSE "link"]

MCParent ==
    [n \in Nodes |->
        IF n \in {"home", "ext"} THEN Nowhere
        ELSE IF n \in {"f", "loop", "dev"} THEN "a"
        ELSE IF n = "g" THEN ".h"
        ELSE IF n \in {"e", "back", "tofile", "broken"} THEN "ext" ELSE "home"]

MCTarget ==
    [n \in Nodes |->
        CASE n = "loop" -> "home"  [] n = "out"  -> "ext" [] n = "back" -> "a"
          [] n = "into" -> ".h"    [] n = "tofile" -> "f"
          [] OTHER -> Nowhere]

MCInside ==
    {<<n, d>> \in Nodes \X Nodes :
        \/ n = d
        \/ MCParent[n] = d
        \/ MCParent[n] # Nowhere /\ MCParent[MCParent[n]] = d}

Absolute(n) == [at |-> n, relative |-> FALSE]
Relative(n) == [at |-> n, relative |-> TRUE]

MCConfigs ==
    [roots : {<<Relative("home")>>, <<Absolute("a"), Absolute("home")>>,
              <<Absolute("out"), Relative("ext")>>, <<Relative("back"), Absolute("broken")>>,
              <<Relative("into"), Absolute(".h")>>, <<Absolute("a"), Relative("ext")>>},
     follow : BOOLEAN]
==============================================================================
