------------------------------ MODULE WalkRoots ------------------------------
(***************************************************************************)
(* scanner.walk: which files a scan offers to the workers.  Roots wait in   *)
(* pending; each is walked by filepath.WalkDir unless its canonical path    *)
(* was walked before; a followed link to a directory is one more root.      *)
(*                                                                          *)
(* A node is an absolute path without links on its way, so canonical paths  *)
(* are nodes.  A root as given, or as a link resolves to, is a spelling: a  *)
(* node, written relative to the working directory or not.  WalkDir hands   *)
(* a directory to the callback before its entries; the order is otherwise   *)
(* left open (the code's is lexical).                                       *)
(***************************************************************************)
EXTENDS Naturals, Sequences

CONSTANTS Nodes,         \* the paths on the disk
          Kind,          \* "dir", "file", "link" or "special"
          Parent,        \* the directory a node is in
          Target,        \* what a link resolves to in the end, or Nowhere
          AbsoluteLinks, \* links that are written as an absolute path
          Inside,        \* <<n, d>>: n is d or somewhere below it
          Hidden,        \* names starting with a dot, unless --include-hidden
          Excluded,      \* nodes that match an --exclude pattern
          Configs,       \* the roots and --follow-symlinks of an invocation
          Faults,        \* what may fail: "denied", "other", "abs", "cancel"
          Nowhere        \* the end of a broken link, or no root

Spelling == [at : Nodes, relative : BOOLEAN]
NoRoot == [at |-> Nowhere, relative |-> FALSE]

ASSUME NodesAssumption ==
    /\ Nowhere \notin Nodes
    /\ Kind \in [Nodes -> {"dir", "file", "link", "special"}]
    /\ Parent \in [Nodes -> Nodes \cup {Nowhere}]
    /\ Target \in [Nodes -> Nodes \cup {Nowhere}]
    /\ Hidden \subseteq Nodes /\ Excluded \subseteq Nodes
ASSUME LinksAssumption == \A n \in Nodes : Target[n] # Nowhere => Kind[Target[n]] # "link"
ASSUME InsideAssumption ==
    /\ \A n \in Nodes : <<n, n>> \in Inside
    /\ \A n, d \in Nodes : <<n, d>> \in Inside /\ <<d, n>> \in Inside => n = d
    /\ \A n, d \in Nodes : (Parent[n] \in Nodes /\ <<Parent[n], d>> \in Inside)
                           <=> (<<n, d>> \in Inside /\ n # d)
ASSUME ConfigsAssumption ==
    \A c \in Configs : c.roots \in Seq(Spelling) /\ c.follow \in BOOLEAN

VARIABLES cfg,        \* the Config, which never changes
          pending,    \* roots still to walk
          seenRoots,  \* canonical paths of the roots walked so far
          root,       \* the root WalkDir is in
          todo,       \* nodes WalkDir will hand to the callback
          sent,       \* what went to the paths channel, and from which root
          met,        \* history: <<root, node>> of the callback's calls
          faulted,    \* history: <<root, node>> of the errors counted
          ret         \* what walk returned
vars == <<cfg, pending, seenRoots, root, todo, sent, met, faulted, ret>>

Init == /\ cfg \in Configs
        /\ pending = cfg.roots
        /\ seenRoots = {}
        /\ root = NoRoot
        /\ todo = {}
        /\ sent = <<>>
        /\ met = {}
        /\ faulted = {}
        /\ ret = "walking"

-----------------------------------------------------------------------------

\* filepath.EvalSymlinks: a relative path stays relative through relative links;
\* it fails on a broken link.
EvalSymlinks(s) ==
    IF Kind[s.at] # "link" THEN s
    ELSE [at |-> Target[s.at], relative |-> s.relative /\ s.at \notin AbsoluteLinks]

\* The path WalkDir is called with: an error of EvalSymlinks leaves the root alone.
Resolved(s) == IF cfg.follow /\ EvalSymlinks(s).at # Nowhere THEN EvalSymlinks(s) ELSE s

\* The entries of a directory.
Children(d) == {n \in Nodes : Parent[n] = d}

\* coveredByRoot(resolved, canonical): filepath.Rel fails on a relative path, as
\* canonical is absolute, and then nothing is covered.
CoveredByRoot(s, canonical) == ~s.relative /\ <<s.at, canonical>> \in Inside

\* seenRoots is keyed by absolute paths.
SeenRoot(s) == ~s.relative /\ s.at \in seenRoots

\* Variant: a hidden directory is dropped, but not what is below it.
SkippedShallow(r, n) == (n # r /\ n \in Hidden /\ Kind[n] # "dir") \/ n \in Excluded

\* The callback drops the node, with everything below it: the name of the root
\* itself may be hidden, but not excluded.
Skipped(r, n) == (n # r /\ n \in Hidden) \/ n \in Excluded

\* A regular file, or a followed link to one.
IsFile(n) == \/ Kind[n] = "file"
             \/ cfg.follow /\ Kind[n] = "link" /\ Target[n] # Nowhere /\ Kind[Target[n]] = "file"

\* A followed link to a directory.
IsDirLink(n) == /\ cfg.follow /\ Kind[n] = "link"
                /\ Target[n] # Nowhere /\ Kind[Target[n]] = "dir"

Walking == ret = "walking"
InRoot == Walking /\ root # NoRoot

-----------------------------------------------------------------------------

\* Variant: roots are not remembered.
NextRootForgetful ==
    /\ Walking /\ root = NoRoot /\ pending # <<>>
    /\ pending' = Tail(pending)
    /\ LET r == Resolved(Head(pending))
       IN /\ root' = r
          /\ todo' = {r.at}
          /\ UNCHANGED seenRoots
    /\ UNCHANGED <<cfg, sent, met, faulted, ret>>

\* Variant: a root that was walked stays at the head.
NextRootStuck ==
    /\ Walking /\ root = NoRoot /\ pending # <<>>
    /\ LET r == Resolved(Head(pending))
       IN IF r.at \in seenRoots
          THEN UNCHANGED <<pending, seenRoots, root, todo>>
          ELSE /\ pending' = Tail(pending)
               /\ seenRoots' = seenRoots \cup {r.at}
               /\ root' = r
               /\ todo' = {r.at}
    /\ UNCHANGED <<cfg, sent, met, faulted, ret>>

\* The head of the loop: the next root, unless its canonical path was walked.
NextRoot ==
    /\ Walking /\ root = NoRoot /\ pending # <<>>
    /\ pending' = Tail(pending)
    /\ LET r == Resolved(Head(pending))
       IN IF r.at \in seenRoots
          THEN UNCHANGED <<seenRoots, root, todo>>
          ELSE /\ seenRoots' = seenRoots \cup {r.at}
               /\ root' = r
               /\ todo' = {r.at}
    /\ UNCHANGED <<cfg, sent, met, faulted, ret>>

\* filepath.Abs fails (the working directory is gone): only for a relative root.
AbsFails ==
    /\ Walking /\ root = NoRoot /\ pending # <<>>
    /\ "abs" \in Faults /\ Resolved(Head(pending)).relative
    /\ ret' = "unresolved"
    /\ UNCHANGED <<cfg, pending, seenRoots, root, todo, sent, met, faulted>>

\* The callback is called for n.
Meet(n) == /\ InRoot /\ n \in todo
           /\ met' = met \cup {<<root.at, n>>}

\* A hidden or excluded node, and what is below it; a link not followed, broken,
\* or to something special; a device, socket or pipe.
PassOver(n) ==
    /\ Meet(n)
    /\ Skipped(root.at, n) \/ (Kind[n] # "dir" /\ ~IsFile(n) /\ ~IsDirLink(n))
    /\ todo' = todo \ {n}
    /\ UNCHANGED <<cfg, pending, seenRoots, root, sent, faulted, ret>>

\* A directory: the callback returns nil, and WalkDir reads it.
Enter(n) ==
    /\ Meet(n)
    /\ Kind[n] = "dir" /\ ~Skipped(root.at, n)
    /\ todo' = (todo \ {n}) \cup Children(n)
    /\ UNCHANGED <<cfg, pending, seenRoots, root, sent, faulted, ret>>

\* The directory cannot be read: the callback is called again, with the error,
\* counts it and says SkipDir when access is denied; after any other error
\* WalkDir goes on with the entries it could read.
EnterFails(n) ==
    /\ Meet(n)
    /\ Kind[n] = "dir" /\ ~Skipped(root.at, n)
    /\ \E read \in SUBSET Children(n) :
          /\ \/ "denied" \in Faults /\ read = {}
             \/ "other" \in Faults
          /\ todo' = (todo \ {n}) \cup read
    /\ faulted' = faulted \cup {<<root.at, n>>}
    /\ UNCHANGED <<cfg, pending, seenRoots, root, sent, ret>>

\* WalkDir cannot stat the root: the callback counts the error, entry is nil.
RootFails ==
    /\ InRoot /\ todo = {root.at} /\ Faults \cap {"denied", "other"} # {}
    /\ Meet(root.at)
    /\ todo' = {}
    /\ faulted' = faulted \cup {<<root.at, root.at>>}
    /\ UNCHANGED <<cfg, pending, seenRoots, root, sent, ret>>

\* Variant: a link out of the current root is not followed either.
FollowInside(n) ==
    /\ Meet(n)
    /\ IsDirLink(n) /\ ~Skipped(root.at, n)
    /\ LET s == EvalSymlinks([at |-> n, relative |-> root.relative])
       IN pending' = IF CoveredByRoot(s, root.at) /\ ~SeenRoot(s)
                     THEN Append(pending, s) ELSE pending
    /\ todo' = todo \ {n}
    /\ UNCHANGED <<cfg, seenRoots, root, sent, faulted, ret>>

\* A link to a directory is a root for later, unless the current root covers it.
Follow(n) ==
    /\ Meet(n)
    /\ IsDirLink(n) /\ ~Skipped(root.at, n)
    /\ LET s == EvalSymlinks([at |-> n, relative |-> root.relative])
       IN pending' = IF ~CoveredByRoot(s, root.at) /\ ~SeenRoot(s)
                     THEN Append(pending, s) ELSE pending
    /\ todo' = todo \ {n}
    /\ UNCHANGED <<cfg, seenRoots, root, sent, faulted, ret>>

\* case paths <- path.
Offer(n) ==
    /\ Meet(n)
    /\ IsFile(n) /\ ~Skipped(root.at, n)
    /\ sent' = Append(sent, <<root.at, n>>)
    /\ todo' = todo \ {n}
    /\ UNCHANGED <<cfg, pending, seenRoots, root, faulted, ret>>

\* WalkDir returns nil.
RootDone ==
    /\ InRoot /\ todo = {}
    /\ root' = NoRoot
    /\ UNCHANGED <<cfg, pending, seenRoots, todo, sent, met, faulted, ret>>

\* The context is done: at a root, in the callback or in its select.
Interrupted ==
    /\ Walking /\ "cancel" \in Faults
    /\ ret' = "context"
    /\ UNCHANGED <<cfg, pending, seenRoots, root, todo, sent, met, faulted>>

\* No root is pending.
Finish ==
    /\ Walking /\ root = NoRoot /\ pending = <<>>
    /\ ret' = "nil"
    /\ UNCHANGED <<cfg, pending, seenRoots, root, todo, sent, met, faulted>>

Terminated == ~Walking /\ UNCHANGED vars

Visit(n) == PassOver(n) \/ Enter(n) \/ EnterFails(n) \/ Follow(n) \/ Offer(n)
Walk == NextRoot \/ AbsFails \/ RootFails \/ RootDone \/ Finish
        \/ \E n \in Nodes : Visit(n)
Next == Walk \/ Interrupted \/ Terminated

Spec == Init /\ [][Next]_vars /\ WF_vars(Walk)

-----------------------------------------------------------------------------
(* Properties.                                                              *)

TypeOK ==
    /\ cfg \in Configs
    /\ pending \in Seq(Spelling)
    /\ seenRoots \subseteq Nodes
    /\ root \in Spelling \cup {NoRoot}
    /\ todo \subseteq Nodes
    /\ sent \in Seq(Nodes \X Nodes)
    /\ met \subseteq Nodes \X Nodes
    /\ faulted \subseteq Nodes \X Nodes
    /\ ret \in {"walking", "nil", "context", "unresolved"}

\* When walk returns nil it has been everywhere: the roots asked for were walked;
\* what is in a directory the walk met, and could read, was met in the same root;
\* so was every link that leads out of its root, as a root of its own; and every
\* file met was sent to the workers.  Neither the memory of roots nor the test
\* for covered links loses anything of it.
WentEverywhere ==
    ret = "nil" =>
        /\ \A i \in 1 .. Len(cfg.roots) : Resolved(cfg.roots[i]).at \in seenRoots
        /\ \A r \in seenRoots : <<r, r>> \in met
        /\ \A r, n \in Nodes : <<r, n>> \in met /\ ~Skipped(r, n) /\ <<r, n>> \notin faulted =>
              /\ Kind[n] = "dir" => \A c \in Children(n) : <<r, c>> \in met
              /\ IsDirLink(n) /\ <<Target[n], r>> \notin Inside => Target[n] \in seenRoots
              /\ IsFile(n) => \E i \in 1 .. Len(sent) : sent[i] = <<r, n>>

\* However links loop and roots repeat, no file is sent twice from one root.
\* (It may be sent from two: roots may overlap, and a link may lead to a
\* directory above the current root.)
SentOncePerRoot == \A i, j \in 1 .. Len(sent) : sent[i] = sent[j] => i = j

\* On the way from the root down to the node nothing is excluded, and nothing but
\* the root itself is hidden.
Open(r, n) == \A d \in Hidden \cup Excluded :
                 <<n, d>> \in Inside /\ <<d, r>> \in Inside => d = r /\ d \notin Excluded

AskedFor(r) == \E k \in 1 .. Len(cfg.roots) : Resolved(cfg.roots[k]).at = r

\* Links are to be followed, and one that was met in the root q leads to r.
LeadsTo(q, r) == /\ cfg.follow
                 /\ \E l \in Nodes : /\ Kind[l] = "link" /\ Target[l] = r
                                     /\ <<q, l>> \in met /\ Open(q, l)

\* What is sent lies in a root that was walked, and nothing on the way down to it
\* was hidden or excluded; and no root was walked but those asked for and those that
\* followed links open, one after another, beginning with those asked for.  (A place
\* that is hidden or excluded below one root may so be walked as another.)
StaysInRoots ==
    /\ \A i \in 1 .. Len(sent) :
          /\ sent[i][1] \in seenRoots /\ <<sent[i][2], sent[i][1]>> \in Inside
          /\ Open(sent[i][1], sent[i][2])
    /\ \A S \in SUBSET seenRoots :
          S # {} => \E r \in S : AskedFor(r) \/ \E q \in seenRoots \ S : LeadsTo(q, r)

\* walk returns, on any tangle of links: each canonical path is walked once.
WalkReturns == <>(ret # "walking")
==============================================================================
