---------------------------- MODULE ArtifactStore ----------------------------
(***************************************************************************)
(* What the output directory of `chromecarve extract` promises: a store of  *)
(* artifacts named after their content.  An artifact is put once, under a   *)
(* name its content matches, and is never changed; a result promises only   *)
(* artifacts that are there.  A power failure may lose artifacts, because   *)
(* the directory itself is never synced, but not damage them.               *)
(***************************************************************************)
EXTENDS Functions

CONSTANTS Initial,    \* the stores extraction may start from
          Artifacts,  \* pairs of a name and the content it is the right one for
          MayLose     \* power failures happen

VARIABLES store,     \* what each name present holds
          promised   \* names some result has pointed at

vars == <<store, promised>>

Init == store \in Initial /\ promised = {}

Put(n, c) == /\ n \notin DOMAIN store
             /\ store' = [m \in DOMAIN store \cup {n} |-> IF m = n THEN c ELSE store[m]]
             /\ UNCHANGED promised

Promise(S) == /\ \A n \in S : n \in DOMAIN store /\ <<n, store[n]>> \in Artifacts
              /\ promised' = promised \cup S
              /\ UNCHANGED store

Lose(S) == /\ MayLose
           /\ store' = Restrict(store, S)
           /\ UNCHANGED promised

Next == \/ \E a \in Artifacts : Put(a[1], a[2])
        \/ \E m, n \in DOMAIN store : Promise({m, n})
        \/ \E S \in SUBSET DOMAIN store : Lose(S)

Spec == Init /\ [][Next]_vars
=============================================================================
