-------------------------- MODULE WalkRootsProofs --------------------------
(***************************************************************************)
(* Proofs about WalkRoots, for any tree, any links, any roots and any       *)
(* failures: a walk that returns nil has been everywhere, sends no file     *)
(* twice from one root, and sends nothing from below what was hidden or     *)
(* excluded, nor from a root it was neither given nor led to.               *)
(***************************************************************************)
EXTENDS WalkRoots, SequenceTheorems, TLAPS

USE NodesAssumption

\* What is known of the root being walked, and of the end of the walk.
RootKnown ==
    /\ root # NoRoot => root.at \in seenRoots
    /\ root = NoRoot => todo = {}
    /\ ret = "nil" => root = NoRoot /\ pending = <<>>

Typed == TypeOK /\ RootKnown

\* The nodes below one root are met at most once, each after its directory.
MetInOrder ==
    /\ \A n \in todo : /\ <<root.at, n>> \notin met
                       /\ <<n, root.at>> \in Inside
                       /\ n = root.at \/ <<root.at, Parent[n]>> \in met
    /\ \A r, n \in Nodes : <<r, n>> \in met =>
          /\ r \in seenRoots
          /\ <<n, r>> \in Inside
          /\ n = r \/ <<r, Parent[n]>> \in met

\* Only what was met is sent, once from each root.
SentOnce == /\ \A i \in 1 .. Len(sent) : sent[i] \in met
            /\ SentOncePerRoot

\* A root asked for was walked or waits.
RootsWait ==
    \A i \in 1 .. Len(cfg.roots) : \/ Resolved(cfg.roots[i]).at \in seenRoots
                                   \/ \E k \in 1 .. Len(pending) : pending[k] = cfg.roots[i]

\* Nothing above the node is hidden or excluded.
OpenAbove(r, n) ==
    \A d \in Hidden \cup Excluded :
        <<n, d>> \in Inside /\ n # d /\ <<d, r>> \in Inside => d = r /\ d \notin Excluded

\* What was met, or is to do, is below nothing hidden or excluded; what was sent is
\* nothing of the kind itself.
OpenSoFar ==
    /\ \A n \in todo : OpenAbove(root.at, n)
    /\ \A r, n \in Nodes : <<r, n>> \in met => OpenAbove(r, n)
    /\ \A i \in 1 .. Len(sent) : Open(sent[i][1], sent[i][2])

\* A root that waits was asked for, or a link leads to it.
Caused(s) == \/ \E j \in 1 .. Len(cfg.roots) : s = cfg.roots[j]
             \/ \E q \in seenRoots : LeadsTo(q, s.at)
PendingCaused == \A k \in 1 .. Len(pending) : Caused(pending[k])

\* And the roots walked were led to by one another, beginning with those asked for.
RootsCaused ==
    \A S \in SUBSET seenRoots :
        S # {} => \E r \in S : AskedFor(r) \/ \E q \in seenRoots \ S : LeadsTo(q, r)

\* The node was met, and the callback neither skipped it nor counted an error.
Handled(r, n) == <<r, n>> \in met /\ ~Skipped(r, n) /\ <<r, n>> \notin faulted

\* A directory that a link met leads to is covered, was walked or waits.
LinksWait ==
    \A r, n \in Nodes : Handled(r, n) /\ IsDirLink(n) /\ <<Target[n], r>> \notin Inside =>
        Target[n] \in seenRoots \/ \E k \in 1 .. Len(pending) : pending[k].at = Target[n]

\* What a directory contains was met or is still to do, and so is every root.
EntriesWait ==
    /\ \A r \in seenRoots : <<r, r>> \in met \/ (r = root.at /\ r \in todo)
    /\ \A r, n \in Nodes : Handled(r, n) /\ Kind[n] = "dir" =>
          \A c \in Children(n) : <<r, c>> \in met \/ (r = root.at /\ c \in todo)

Sent(r, n) == \E i \in 1 .. Len(sent) : sent[i] = <<r, n>>
FilesSent == \A r, n \in Nodes : Handled(r, n) /\ IsFile(n) => Sent(r, n)

WalkInv == /\ Typed /\ MetInOrder /\ SentOnce /\ RootsWait
           /\ OpenSoFar /\ PendingCaused /\ RootsCaused /\ LinksWait /\ EntriesWait /\ FilesSent

-----------------------------------------------------------------------------
(* Lemmas.                                                                  *)

\* A root that is being walked is a spelling.
LEMMA RootIsSpelling ==
    ASSUME Typed, root # NoRoot
    PROVE  root \in Spelling /\ root.at \in Nodes /\ root.relative \in BOOLEAN
    BY DEF Typed, TypeOK, Spelling

\* Resolving keeps a spelling a spelling; what is not a link resolves to itself.
LEMMA ResolvedSpelling ==
    ASSUME TypeOK, NEW s \in Spelling
    PROVE  /\ Resolved(s) \in Spelling /\ Resolved(s).at \in Nodes
           /\ Kind[s.at] # "link" => Resolved(s).at = s.at
           /\ ~cfg.follow => Resolved(s) = s
<1>1. s.at \in Nodes /\ s.relative \in BOOLEAN
    BY DEF Spelling
<1>2. CASE Kind[s.at] # "link"
    BY <1>1, <1>2 DEF Resolved, EvalSymlinks
<1>3. CASE Kind[s.at] = "link"
    <2>1. EvalSymlinks(s).at = Target[s.at]
          /\ EvalSymlinks(s).relative \in BOOLEAN
          /\ EvalSymlinks(s) = [at |-> Target[s.at],
                                relative |-> s.relative /\ s.at \notin AbsoluteLinks]
        BY <1>1, <1>3 DEF EvalSymlinks
    <2>2. CASE cfg.follow /\ Target[s.at] # Nowhere
        <3>1. Resolved(s) = EvalSymlinks(s) /\ Target[s.at] \in Nodes
            BY <1>1, <2>1, <2>2 DEF Resolved
        <3>2. QED
            BY <1>3, <2>1, <2>2, <3>1 DEF Spelling
    <2>3. CASE ~(cfg.follow /\ Target[s.at] # Nowhere)
        BY <1>1, <2>1, <2>3 DEF Resolved
    <2>4. QED
        BY <2>2, <2>3
<1>4. QED
    BY <1>2, <1>3

\* The spelling a followed link resolves to.
LEMMA LinkSpelling ==
    ASSUME NEW n \in Nodes, NEW rel \in BOOLEAN, IsDirLink(n)
    PROVE  LET s == EvalSymlinks([at |-> n, relative |-> rel])
           IN s \in Spelling /\ s.at = Target[n]
    BY DEF EvalSymlinks, Spelling, IsDirLink

\* Taking the first of the pending roots leaves the others.
LEMMA TailKeeps ==
    ASSUME NEW S, NEW q \in Seq(S), q # <<>>
    PROVE  /\ Head(q) \in S /\ Head(q) = q[1] /\ 1 \in 1 .. Len(q) /\ Tail(q) \in Seq(S)
           /\ \A k \in 1 .. Len(q) : k = 1 \/ \E j \in 1 .. Len(Tail(q)) : Tail(q)[j] = q[k]
           /\ \A j \in 1 .. Len(Tail(q)) : \E k \in 1 .. Len(q) : Tail(q)[j] = q[k]
<1>1. Head(q) \in S /\ Tail(q) \in Seq(S) /\ Len(Tail(q)) = Len(q) - 1
    BY HeadTailProperties
<1>2. \A i \in 1 .. Len(Tail(q)) : Tail(q)[i] = q[i + 1]
    BY HeadTailProperties
<1>3. Len(q) \in Nat \ {0} /\ Head(q) = q[1]
    BY EmptySeq, LenProperties
<1>4. ASSUME NEW k \in 1 .. Len(q), k # 1
      PROVE  \E j \in 1 .. Len(Tail(q)) : Tail(q)[j] = q[k]
    <2>1. k - 1 \in 1 .. Len(Tail(q)) /\ (k - 1) + 1 = k
        BY <1>1, <1>3, <1>4
    <2>2. QED
        BY <1>2, <2>1
<1>5. ASSUME NEW j \in 1 .. Len(Tail(q))
      PROVE  \E k \in 1 .. Len(q) : Tail(q)[j] = q[k]
    <2>1. j + 1 \in 1 .. Len(q)
        BY <1>1, <1>3
    <2>2. QED
        BY <1>2, <2>1
<1>6. QED
    BY <1>1, <1>3, <1>4, <1>5

\* Sending appends.
LEMMA AppendKeeps ==
    ASSUME NEW S, NEW q \in Seq(S), NEW x \in S
    PROVE  /\ Append(q, x) \in Seq(S)
           /\ Len(q) \in Nat /\ Len(Append(q, x)) = Len(q) + 1
           /\ \A i \in 1 .. Len(q) : Append(q, x)[i] = q[i] /\ i \in 1 .. Len(Append(q, x))
           /\ Append(q, x)[Len(q) + 1] = x /\ Len(q) + 1 \in 1 .. Len(Append(q, x))
           /\ \A i \in 1 .. Len(Append(q, x)) : i \in 1 .. Len(q) \/ i = Len(q) + 1
    BY AppendProperties, LenProperties

-----------------------------------------------------------------------------
(* The types, and what is known of the root.                                *)

LEMMA InitTyped == Init => Typed
    BY ConfigsAssumption DEF Init, Typed, TypeOK, RootKnown, NoRoot

LEMMA NextRootTyped == ASSUME Typed, NextRoot PROVE Typed'
<1>1. /\ Resolved(Head(pending)) \in Spelling /\ Resolved(Head(pending)).at \in Nodes
      /\ Tail(pending) \in Seq(Spelling)
    BY TailKeeps, ResolvedSpelling DEF Typed, TypeOK, NextRoot
<1>2. Resolved(Head(pending)) # NoRoot
    BY <1>1 DEF NoRoot
<1>3. QED
    BY <1>1, <1>2 DEF NextRoot, Walking, Typed, TypeOK, RootKnown

LEMMA VisitTyped == ASSUME Typed, NEW n \in Nodes, Visit(n) PROVE Typed'
<1>1. root # NoRoot /\ root.at \in Nodes /\ root.relative \in BOOLEAN /\ ret = "walking"
    BY RootIsSpelling DEF Visit, PassOver, Enter, EnterFails, Follow, Offer, Meet, InRoot, Walking
<1>2. met' \subseteq Nodes \X Nodes
    BY <1>1 DEF Typed, TypeOK, Visit, PassOver, Enter, EnterFails, Follow, Offer, Meet
<1> USE DEF Typed, TypeOK, RootKnown
<1>3. CASE PassOver(n)
    BY <1>1, <1>2, <1>3 DEF PassOver
<1>4. CASE Enter(n)
    BY <1>1, <1>2, <1>4 DEF Enter, Children
<1>5. CASE EnterFails(n)
    <2>1. todo' \subseteq Nodes /\ faulted' \subseteq Nodes \X Nodes
        BY <1>1, <1>5 DEF EnterFails, Children
    <2>2. QED
        BY <1>1, <1>2, <1>5, <2>1 DEF EnterFails
<1>6. CASE Follow(n)
    <2>1. pending' \in Seq(Spelling)
        BY <1>1, <1>6, LinkSpelling, AppendKeeps DEF Follow
    <2>2. QED
        BY <1>1, <1>2, <1>6, <2>1 DEF Follow
<1>7. CASE Offer(n)
    <2>1. sent' \in Seq(Nodes \X Nodes)
        BY <1>1, <1>7, AppendKeeps DEF Offer
    <2>2. QED
        BY <1>1, <1>2, <1>7, <2>1 DEF Offer
<1>8. QED
    BY <1>3, <1>4, <1>5, <1>6, <1>7 DEF Visit

LEMMA NextTyped == Typed /\ [Next]_vars => Typed'
<1> SUFFICES ASSUME Typed, [Next]_vars PROVE Typed'
    OBVIOUS
<1>1. CASE NextRoot
    BY <1>1, NextRootTyped
<1>2. CASE RootFails
    BY <1>2, RootIsSpelling DEF RootFails, Meet, InRoot, Walking, Typed, TypeOK, RootKnown
<1>3. CASE AbsFails \/ RootDone \/ Interrupted \/ Finish
    BY <1>3 DEF AbsFails, RootDone, Interrupted, Finish, Walking, InRoot, Typed, TypeOK, RootKnown
<1>4. ASSUME NEW n \in Nodes, Visit(n) PROVE Typed'
    BY <1>4, VisitTyped
<1>5. CASE UNCHANGED vars
    BY <1>5 DEF vars, Typed, TypeOK, RootKnown
<1>6. QED
    BY <1>1, <1>2, <1>3, <1>4, <1>5 DEF Next, Walk, Terminated

\* The values of every variable are of the types the module gives them.
THEOREM TypeCorrect == Spec => []TypeOK
<1>1. Spec => []Typed
    BY InitTyped, NextTyped, PTL DEF Spec
<1>2. Typed => TypeOK
    BY DEF Typed
<1>3. QED
    BY <1>1, <1>2, PTL
-----------------------------------------------------------------------------
(* Each node is met once from each root.                                    *)

LEMMA InitMet == Init => MetInOrder /\ SentOnce
    BY DEF Init, MetInOrder, SentOnce, SentOncePerRoot

\* A visit to n adds one pair to met, of a node that was still to do.
LEMMA VisitFacts ==
    ASSUME Typed, NEW n \in Nodes, Visit(n)
    PROVE  /\ root # NoRoot /\ root.at \in seenRoots /\ root.at \in Nodes
           /\ n \in todo /\ met' = met \cup {<<root.at, n>>}
           /\ todo' \subseteq (todo \ {n}) \cup Children(n)
           /\ Kind[n] # "dir" => todo' = todo \ {n}
           /\ UNCHANGED <<cfg, root, seenRoots, ret>>
<1>1. root # NoRoot /\ n \in todo /\ met' = met \cup {<<root.at, n>>}
    BY DEF Visit, PassOver, Enter, EnterFails, Follow, Offer, Meet, InRoot
<1>2. /\ todo' \subseteq (todo \ {n}) \cup Children(n)
      /\ Kind[n] # "dir" => todo' = todo \ {n}
      /\ UNCHANGED <<cfg, root, seenRoots, ret>>
    BY DEF Visit, PassOver, Enter, EnterFails, Follow, Offer
<1>3. QED
    BY <1>1, <1>2, RootIsSpelling DEF Typed, RootKnown

LEMMA VisitMet == ASSUME Typed, MetInOrder, NEW n \in Nodes, Visit(n) PROVE MetInOrder'
<1> DEFINE r == root.at
<1>1. /\ r \in seenRoots /\ r \in Nodes /\ n \in todo /\ met' = met \cup {<<r, n>>}
      /\ todo' \subseteq (todo \ {n}) \cup Children(n) /\ root' = root /\ seenRoots' = seenRoots
    BY VisitFacts
<1>2. <<r, n>> \notin met /\ <<n, r>> \in Inside /\ (n = r \/ <<r, Parent[n]>> \in met)
    BY <1>1 DEF MetInOrder
<1>3. ASSUME NEW c \in Children(n)
      PROVE  /\ <<r, c>> \notin met' /\ <<c, r>> \in Inside /\ <<r, Parent[c]>> \in met'
    <2>1. c \in Nodes /\ Parent[c] = n
        BY DEF Children
    <2>2. <<c, r>> \in Inside /\ c # r
        BY <1>1, <1>2, <2>1, InsideAssumption
    <2>3. c # n
        BY <2>1, InsideAssumption
    <2>4. <<r, c>> \notin met
        BY <1>1, <1>2, <2>1, <2>2 DEF MetInOrder
    <2>5. QED
        BY <1>1, <2>1, <2>2, <2>3, <2>4
<1>4. ASSUME NEW m \in todo \ {n}
      PROVE  <<r, m>> \notin met' /\ <<m, r>> \in Inside /\ (m = r \/ <<r, Parent[m]>> \in met')
    BY <1>1, <1>4 DEF MetInOrder
<1>5. ASSUME NEW s \in Nodes, NEW m \in Nodes, <<s, m>> \in met'
      PROVE  s \in seenRoots' /\ <<m, s>> \in Inside /\ (m = s \/ <<s, Parent[m]>> \in met')
    <2>1. CASE <<s, m>> \in met
        BY <1>1, <2>1 DEF MetInOrder
    <2>2. CASE s = r /\ m = n
        BY <1>1, <1>2, <2>2
    <2>3. QED
        BY <1>1, <1>5, <2>1, <2>2
<1>6. \A m \in todo' : /\ <<r, m>> \notin met' /\ <<m, r>> \in Inside
                       /\ m = r \/ <<r, Parent[m]>> \in met'
    BY <1>1, <1>3, <1>4
<1>7. QED
    BY <1>1, <1>5, <1>6 DEF MetInOrder

LEMMA NextRootMet == ASSUME Typed, MetInOrder, NextRoot PROVE MetInOrder'
<1> DEFINE h == Resolved(Head(pending))
<1>1. h.at \in Nodes /\ todo = {}
    BY TailKeeps, ResolvedSpelling DEF Typed, TypeOK, RootKnown, NextRoot
<1>2. CASE h.at \in seenRoots
    BY <1>2 DEF NextRoot, MetInOrder
<1>3. CASE h.at \notin seenRoots
    <2>1. /\ seenRoots' = seenRoots \cup {h.at} /\ root' = h /\ todo' = {h.at} /\ met' = met
        BY <1>3 DEF NextRoot
    <2>2. <<h.at, h.at>> \notin met /\ <<h.at, h.at>> \in Inside
        BY <1>1, <1>3, InsideAssumption DEF MetInOrder
    <2> HIDE DEF h
    <2>3. QED
        BY <2>1, <2>2 DEF MetInOrder
<1>4. QED
    BY <1>2, <1>3

LEMMA NextMet ==
    ASSUME Typed, MetInOrder, SentOnce, [Next]_vars
    PROVE  MetInOrder' /\ SentOnce'
<1>1. CASE NextRoot
    BY <1>1, NextRootMet DEF NextRoot, SentOnce, SentOncePerRoot
<1>2. CASE RootFails
    <2>1. /\ todo = {root.at} /\ todo' = {} /\ met' = met \cup {<<root.at, root.at>>}
          /\ root.at \in Nodes /\ root.at \in seenRoots /\ seenRoots' = seenRoots /\ sent' = sent
        BY <1>2, RootIsSpelling DEF RootFails, Meet, InRoot, Typed, RootKnown
    <2>2. MetInOrder'
        BY <2>1, InsideAssumption DEF MetInOrder
    <2>3. QED
        BY <2>1, <2>2 DEF SentOnce, SentOncePerRoot
<1>3. ASSUME NEW n \in Nodes, Visit(n) PROVE MetInOrder' /\ SentOnce'
    <2>1. MetInOrder'
        BY <1>3, VisitMet
    <2>2. CASE Offer(n)
        <3>1. /\ sent' = Append(sent, <<root.at, n>>) /\ sent \in Seq(Nodes \X Nodes)
              /\ <<root.at, n>> \in Nodes \X Nodes /\ <<root.at, n>> \notin met
              /\ met' = met \cup {<<root.at, n>>}
            BY <1>3, <2>2, VisitFacts DEF Offer, Typed, TypeOK, MetInOrder
        <3> DEFINE x == <<root.at, n>>
        <3>8. \A i \in 1 .. Len(sent) : sent[i] \in met
            BY DEF SentOnce
        <3>2. \A i \in 1 .. Len(sent) : sent[i] # x /\ sent[i] \in met
            <4> HIDE DEF x
            <4>1. x \notin met
                BY <3>1 DEF x
            <4>2. QED
                BY <3>8, <4>1
        <3>3. /\ x \in Nodes \X Nodes /\ sent' = Append(sent, x) /\ x \in met' /\ met \subseteq met'
              /\ \A i \in 1 .. Len(sent) : sent[i] # x
            BY <3>1, <3>2
        <3> HIDE DEF x
        <3>4. /\ \A i \in 1 .. Len(sent) : sent'[i] = sent[i]
              /\ sent'[Len(sent) + 1] = x
              /\ \A i \in 1 .. Len(sent') : i \in 1 .. Len(sent) \/ i = Len(sent) + 1
            BY <3>1, <3>3, AppendKeeps
        <3>5. \A i \in 1 .. Len(sent') : sent'[i] \in met'
            BY <3>2, <3>3, <3>4
        <3>6. \A i, j \in 1 .. Len(sent') : sent'[i] = sent'[j] => i = j
            BY <3>3, <3>4 DEF SentOnce, SentOncePerRoot
        <3>7. QED
            BY <2>1, <3>5, <3>6 DEF SentOnce, SentOncePerRoot
    <2>3. CASE ~Offer(n)
        <3>1. sent' = sent /\ met \subseteq met'
            BY <1>3, <2>3, VisitFacts DEF Visit, PassOver, Enter, EnterFails, Follow
        <3>2. QED
            BY <2>1, <3>1 DEF SentOnce, SentOncePerRoot
    <2>4. QED
        BY <2>2, <2>3
<1>4. CASE RootDone
    BY <1>4 DEF RootDone, MetInOrder, SentOnce, SentOncePerRoot
<1>5. CASE AbsFails \/ Interrupted \/ Finish \/ UNCHANGED vars
    BY <1>5 DEF AbsFails, Interrupted, Finish, vars, MetInOrder, SentOnce, SentOncePerRoot
<1>6. QED
    BY <1>1, <1>2, <1>3, <1>4, <1>5 DEF Next, Walk, Terminated

\* However links loop and roots repeat, no file is sent twice from one root.
THEOREM NoRepeats == Spec => []SentOncePerRoot
<1> DEFINE I == Typed /\ MetInOrder /\ SentOnce
<1>1. Init => I
    BY InitTyped, InitMet
<1>2. I /\ [Next]_vars => I'
    BY NextTyped, NextMet
<1>3. I => SentOncePerRoot
    BY DEF SentOnce
<1>4. QED
    BY <1>1, <1>2, <1>3, PTL DEF Spec
-----------------------------------------------------------------------------
(* Nothing is lost between being met and being walked or sent.              *)

\* The configuration is one of those there are, for good.
LEMMA ConfigKnown == ASSUME Typed PROVE cfg.roots \in Seq(Spelling) /\ cfg.follow \in BOOLEAN
    BY ConfigsAssumption DEF Typed, TypeOK

\* What a step does to the roots: it takes the first and walks it, or has it walked
\* already; it adds the directory a link leads to; or it leaves them alone.
RootTaken == /\ pending # <<>> /\ pending' = Tail(pending)
             /\ seenRoots' = seenRoots \cup {Resolved(Head(pending)).at}
RootAdded(n) == /\ n \in Nodes /\ IsDirLink(n) /\ seenRoots' = seenRoots
                /\ \E s \in Spelling : s.at = Target[n] /\ pending' = Append(pending, s)

LEMMA RootSteps ==
    ASSUME Typed, [Next]_vars
    PROVE  /\ cfg' = cfg
           /\ \/ RootTaken
              \/ \E n \in Nodes : RootAdded(n)
              \/ pending' = pending /\ seenRoots' = seenRoots
<1>1. CASE NextRoot
    BY <1>1 DEF NextRoot, RootTaken
<1>2. ASSUME NEW n \in Nodes, Follow(n)
      PROVE  cfg' = cfg /\ (RootAdded(n) \/ (pending' = pending /\ seenRoots' = seenRoots))
    <2>1. root # NoRoot /\ IsDirLink(n)
        BY <1>2 DEF Follow, Meet, InRoot
    <2> DEFINE s == EvalSymlinks([at |-> n, relative |-> root.relative])
    <2>2. s \in Spelling /\ s.at = Target[n]
        BY <2>1, RootIsSpelling, LinkSpelling
    <2>3. /\ pending' = Append(pending, s) \/ pending' = pending
          /\ seenRoots' = seenRoots /\ cfg' = cfg
        BY <1>2 DEF Follow
    <2> HIDE DEF s
    <2>4. QED
        BY <2>1, <2>2, <2>3 DEF RootAdded
<1>3. ASSUME NEW n \in Nodes, PassOver(n) \/ Enter(n) \/ EnterFails(n) \/ Offer(n)
      PROVE  cfg' = cfg /\ pending' = pending /\ seenRoots' = seenRoots
    BY <1>3 DEF PassOver, Enter, EnterFails, Offer
<1>4. CASE AbsFails \/ RootFails \/ RootDone \/ Interrupted \/ Finish \/ UNCHANGED vars
    BY <1>4 DEF AbsFails, RootFails, RootDone, Interrupted, Finish, vars
<1>5. QED
    BY <1>1, <1>2, <1>3, <1>4 DEF Next, Walk, Terminated, Visit

\* A pending root is walked, or still pending after a step.
LEMMA StillWaits ==
    ASSUME Typed, [Next]_vars, NEW k \in 1 .. Len(pending)
    PROVE  \/ Resolved(pending[k]).at \in seenRoots'
           \/ \E j \in 1 .. Len(pending') : pending'[j] = pending[k]
<1>1. pending \in Seq(Spelling)
    BY DEF Typed, TypeOK
<1>2. CASE RootTaken
    BY <1>1, <1>2, TailKeeps DEF RootTaken
<1>3. ASSUME NEW s \in Spelling, pending' = Append(pending, s)
      PROVE  \E j \in 1 .. Len(pending') : pending'[j] = pending[k]
    BY <1>1, <1>3, AppendKeeps
<1>4. QED
    BY <1>2, <1>3, RootSteps DEF RootAdded

LEMMA InitRoots == Init => RootsWait
    BY DEF Init, RootsWait

LEMMA NextRoots ==
    ASSUME Typed, RootsWait, [Next]_vars
    PROVE  RootsWait'
<1>1. cfg' = cfg /\ seenRoots \subseteq seenRoots'
    BY RootSteps DEF RootTaken, RootAdded
<1>2. pending \in Seq(Spelling) /\ TypeOK
    BY DEF Typed, TypeOK
<1> SUFFICES ASSUME NEW i \in 1 .. Len(cfg.roots)
             PROVE  \/ Resolved(cfg.roots[i]).at \in seenRoots'
                    \/ \E k \in 1 .. Len(pending') : pending'[k] = cfg.roots[i]
    BY <1>1 DEF RootsWait, Resolved, EvalSymlinks
<1>3. CASE Resolved(cfg.roots[i]).at \in seenRoots
    BY <1>1, <1>3
<1>4. CASE \E k \in 1 .. Len(pending) : pending[k] = cfg.roots[i]
    BY <1>4, StillWaits
<1>5. QED
    BY <1>3, <1>4 DEF RootsWait

-----------------------------------------------------------------------------
(* Nothing is sent, and no root is walked, that was not asked for.           *)

\* A node that is not skipped, below nothing hidden or excluded.
LEMMA OpenNode ==
    ASSUME NEW r \in Nodes, NEW n \in Nodes, OpenAbove(r, n), ~Skipped(r, n)
    PROVE  Open(r, n)
    BY DEF OpenAbove, Open, Skipped

\* What is below such a node is below nothing hidden or excluded.
LEMMA OpenChild ==
    ASSUME NEW r \in Nodes, NEW n \in Nodes, NEW c \in Children(n), Open(r, n)
    PROVE  OpenAbove(r, c)
<1> SUFFICES ASSUME NEW d \in Hidden \cup Excluded,
                    <<c, d>> \in Inside, c # d, <<d, r>> \in Inside
             PROVE  d = r /\ d \notin Excluded
    BY DEF OpenAbove
<1>1. c \in Nodes /\ Parent[c] = n /\ d \in Nodes
    BY DEF Children
<1>2. <<n, d>> \in Inside
    BY <1>1, InsideAssumption
<1>3. QED
    BY <1>2 DEF Open

\* Nothing is above the root.
LEMMA OpenRoot == \A r \in Nodes : OpenAbove(r, r)
    BY InsideAssumption DEF OpenAbove

LEMMA VisitOpen ==
    ASSUME Typed, OpenSoFar, NEW n \in Nodes, Visit(n)
    PROVE  OpenSoFar'
<1>1. /\ root.at \in Nodes /\ n \in todo /\ met' = met \cup {<<root.at, n>>}
      /\ todo' \subseteq (todo \ {n}) \cup Children(n)
      /\ Kind[n] # "dir" => todo' = todo \ {n}
      /\ root' = root /\ sent \in Seq(Nodes \X Nodes)
    BY VisitFacts DEF Typed, TypeOK
<1>2. OpenAbove(root.at, n)
    BY <1>1 DEF OpenSoFar
<1>3. \A m \in todo' : OpenAbove(root.at, m)
    <2>1. CASE PassOver(n) \/ Kind[n] # "dir"
        <3>1. todo' = todo \ {n}
            BY <1>1, <2>1 DEF PassOver
        <3>2. QED
            BY <3>1 DEF OpenSoFar
    <2>2. CASE ~PassOver(n) /\ Kind[n] = "dir"
        <3>1. ~Skipped(root.at, n)
            BY <2>2 DEF Visit, Enter, EnterFails, Follow, Offer
        <3>2. \A c \in Children(n) : OpenAbove(root.at, c)
            BY <1>1, <1>2, <3>1, OpenNode, OpenChild
        <3>3. QED
            BY <1>1, <3>2 DEF OpenSoFar
    <2>3. QED
        BY <2>1, <2>2
<1>4. \A q, m \in Nodes : <<q, m>> \in met' => OpenAbove(q, m)
    BY <1>1, <1>2 DEF OpenSoFar
<1>5. \A i \in 1 .. Len(sent') : Open(sent'[i][1], sent'[i][2])
    <2>1. CASE Offer(n)
        <3> DEFINE x == <<root.at, n>>
        <3>1. x \in Nodes \X Nodes /\ x[1] = root.at /\ x[2] = n /\ sent' = Append(sent, x)
            BY <1>1, <2>1 DEF Offer
        <3>2. Open(root.at, n)
            BY <1>1, <1>2, <2>1, OpenNode DEF Offer
        <3> HIDE DEF x
        <3>3. /\ \A i \in 1 .. Len(sent) : sent'[i] = sent[i]
              /\ sent'[Len(sent) + 1] = x
              /\ \A i \in 1 .. Len(sent') : i \in 1 .. Len(sent) \/ i = Len(sent) + 1
            BY <1>1, <3>1, AppendKeeps
        <3>4. \A i \in 1 .. Len(sent) : Open(sent[i][1], sent[i][2])
            BY DEF OpenSoFar
        <3>5. Open(x[1], x[2])
            BY <3>1, <3>2
        <3>6. QED
            BY <3>3, <3>4, <3>5
    <2>2. CASE ~Offer(n)
        <3>1. sent' = sent
            BY <2>2 DEF Visit, PassOver, Enter, EnterFails, Follow
        <3>2. QED
            BY <3>1 DEF OpenSoFar
    <2>3. QED
        BY <2>1, <2>2
<1>6. QED
    BY <1>1, <1>3, <1>4, <1>5 DEF OpenSoFar, OpenAbove, Open

LEMMA NextOpen == ASSUME Typed, OpenSoFar, [Next]_vars PROVE OpenSoFar'
<1>1. CASE NextRoot
    <2> DEFINE h == Resolved(Head(pending))
    <2>1. h.at \in Nodes /\ todo = {} /\ met' = met /\ sent' = sent
        BY <1>1, TailKeeps, ResolvedSpelling DEF Typed, TypeOK, RootKnown, NextRoot
    <2>2. \A n \in todo' : OpenAbove(root'.at, n)
        <3>1. CASE todo' = todo
            BY <2>1, <3>1
        <3>2. CASE root' = h /\ todo' = {h.at}
            <4> HIDE DEF h
            <4>1. QED
                BY <2>1, <3>2, OpenRoot
        <3>3. QED
            BY <1>1, <3>1, <3>2 DEF NextRoot
    <2> HIDE DEF h
    <2>3. QED
        BY <2>1, <2>2 DEF OpenSoFar, OpenAbove, Open
<1>2. CASE RootFails
    <2>1. /\ todo' = {} /\ met' = met \cup {<<root.at, root.at>>} /\ root.at \in Nodes
          /\ sent' = sent
        BY <1>2, RootIsSpelling DEF RootFails, Meet, InRoot
    <2>2. \A r, n \in Nodes : <<r, n>> \in met' => OpenAbove(r, n)
        BY <2>1, OpenRoot DEF OpenSoFar
    <2>3. QED
        BY <2>1, <2>2 DEF OpenSoFar, OpenAbove, Open
<1>3. ASSUME NEW n \in Nodes, Visit(n) PROVE OpenSoFar'
    BY <1>3, VisitOpen
<1>4. CASE RootDone
    BY <1>4 DEF RootDone, OpenSoFar, OpenAbove, Open
<1>5. CASE AbsFails \/ Interrupted \/ Finish \/ UNCHANGED vars
    BY <1>5 DEF AbsFails, Interrupted, Finish, vars, OpenSoFar, OpenAbove, Open
<1>6. QED
    BY <1>1, <1>2, <1>3, <1>4, <1>5 DEF Next, Walk, Terminated

\* A cause stays one.
LEMMA CauseStays ==
    ASSUME Typed, [Next]_vars
    PROVE  /\ \A q, r : LeadsTo(q, r) => LeadsTo(q, r)'
           /\ \A r : AskedFor(r) => AskedFor(r)'
           /\ \A s : Caused(s) => Caused(s)'
<1>1. cfg' = cfg /\ seenRoots \subseteq seenRoots'
    BY RootSteps DEF RootTaken, RootAdded
<1>2. met \subseteq met'
    BY DEF Next, Walk, Terminated, Visit, NextRoot, AbsFails, RootFails, RootDone, Interrupted,
           Finish, PassOver, Enter, EnterFails, Follow, Offer, Meet, vars
<1>3. \A q, r : LeadsTo(q, r) => LeadsTo(q, r)'
    BY <1>1, <1>2 DEF LeadsTo, Open
<1>4. \A r : AskedFor(r) => AskedFor(r)'
    BY <1>1 DEF AskedFor, Resolved, EvalSymlinks
<1>5. QED
    BY <1>1, <1>3, <1>4 DEF Caused

LEMMA NextPending ==
    ASSUME Typed, OpenSoFar, PendingCaused, [Next]_vars
    PROVE  PendingCaused'
<1>1. pending \in Seq(Spelling)
    BY DEF Typed, TypeOK
<1>2. ASSUME NEW s \in Spelling, Caused(s)', pending' = Append(pending, s) PROVE PendingCaused'
    <2>1. /\ \A k \in 1 .. Len(pending) : pending'[k] = pending[k]
          /\ pending'[Len(pending) + 1] = s
          /\ \A k \in 1 .. Len(pending') : k \in 1 .. Len(pending) \/ k = Len(pending) + 1
        BY <1>1, <1>2, AppendKeeps
    <2>2. ASSUME NEW j \in 1 .. Len(pending'), NEW x, x = pending'[j]
          PROVE  Caused(x)'
        <3>1. CASE j \in 1 .. Len(pending)
            <4>1. x = pending[j] /\ Caused(pending[j])
                BY <2>1, <2>2, <3>1 DEF PendingCaused
            <4>2. Caused(x)
                BY <4>1
            <4>3. QED
                BY <4>2, CauseStays
        <3>2. CASE j = Len(pending) + 1
            <4>1. x = s
                BY <2>1, <2>2, <3>2
            <4>2. QED
                BY <4>1, <1>2
        <3>3. QED
            BY <2>1, <2>2, <3>1, <3>2
    <2>3. QED
        BY <2>2 DEF PendingCaused
<1>3. CASE NextRoot
    <2>1. \A j \in 1 .. Len(pending') : \E k \in 1 .. Len(pending) : pending'[j] = pending[k]
        BY <1>1, <1>3, TailKeeps DEF NextRoot
    <2>2. QED
        BY <2>1, CauseStays DEF PendingCaused, Caused
<1>4. ASSUME NEW n \in Nodes, Follow(n) PROVE PendingCaused'
    <2> DEFINE e == EvalSymlinks([at |-> n, relative |-> root.relative])
    <2>1. /\ root.at \in seenRoots /\ root.at \in Nodes /\ root # NoRoot /\ n \in todo
          /\ met' = met \cup {<<root.at, n>>} /\ UNCHANGED <<cfg, root, seenRoots>>
        BY <1>4, VisitFacts DEF Visit
    <2>2. IsDirLink(n) /\ ~Skipped(root.at, n)
        BY <1>4 DEF Follow
    <2>3. e \in Spelling /\ e.at = Target[n]
        BY <2>1, <2>2, RootIsSpelling, LinkSpelling
    <2>4. pending' = Append(pending, e) \/ pending' = pending
        BY <1>4 DEF Follow
    <2> HIDE DEF e
    <2>0. PICK s \in Spelling : s = e
        BY <2>3
    <2>5. Open(root.at, n)
        BY <2>1, <2>2, OpenNode DEF OpenSoFar
    <2>6. PICK q \in Nodes : q = root.at
        BY <2>1
    <2>10. cfg.follow /\ Kind[n] = "link" /\ Target[n] = s.at /\ <<q, n>> \in met' /\ Open(q, n)
        BY <2>0, <2>1, <2>2, <2>3, <2>5, <2>6 DEF IsDirLink
    <2>11. LeadsTo(q, s.at)'
        BY <2>1, <2>10 DEF LeadsTo, Open
    <2>7. Caused(s)'
        BY <2>1, <2>6, <2>11 DEF Caused
    <2>8. CASE pending' = pending
        BY <2>8, CauseStays DEF PendingCaused, Caused
    <2>12. CASE pending' = Append(pending, e)
        BY <1>2, <2>0, <2>7, <2>12
    <2>9. QED
        BY <2>4, <2>8, <2>12
<1>5. CASE pending' = pending
    BY <1>5, CauseStays DEF PendingCaused, Caused
<1>6. QED
    BY <1>3, <1>4, <1>5 DEF Next, Walk, Terminated, Visit, AbsFails, RootFails, RootDone,
       Interrupted, Finish, PassOver, Enter, EnterFails, Offer, vars

\* The root walked next was asked for, or led to by one walked before.
LEMMA NextRootsCaused ==
    ASSUME Typed, PendingCaused, RootsCaused, [Next]_vars
    PROVE  RootsCaused'
<1> DEFINE h == Resolved(Head(pending)).at
<1>1. pending \in Seq(Spelling) /\ TypeOK
    BY DEF Typed, TypeOK
<1>2. seenRoots' = seenRoots \/ (pending # <<>> /\ seenRoots' = seenRoots \cup {h})
    BY RootSteps DEF RootTaken, RootAdded
<1>3. ASSUME pending # <<>>
      PROVE  AskedFor(h) \/ \E q \in seenRoots : LeadsTo(q, h)
    <2>1. Head(pending) \in Spelling /\ Caused(Head(pending))
        BY <1>1, <1>3, TailKeeps DEF PendingCaused
    <2>2. CASE \E j \in 1 .. Len(cfg.roots) : Head(pending) = cfg.roots[j]
        BY <2>2 DEF AskedFor
    <2>3. ASSUME NEW q \in seenRoots, LeadsTo(q, Head(pending).at)
          PROVE  LeadsTo(q, h)
        <3>1. PICK l \in Nodes : Target[l] = Head(pending).at
            BY <2>3 DEF LeadsTo
        <3>2. Head(pending).at \in Nodes
            BY <2>1 DEF Spelling
        <3>3. Kind[Head(pending).at] # "link"
            BY <3>1, <3>2, LinksAssumption
        <3>4. h = Head(pending).at
            BY <1>1, <2>1, <3>3, ResolvedSpelling
        <3>5. QED
            BY <2>3, <3>4
    <2>4. QED
        BY <2>1, <2>2, <2>3 DEF Caused
<1> HIDE DEF h
<1>4. SUFFICES ASSUME NEW S \in SUBSET seenRoots', S # {}
               PROVE  \E r \in S : AskedFor(r)' \/ \E q \in seenRoots' \ S : LeadsTo(q, r)'
    BY DEF RootsCaused
<1>5. SUFFICES \E r \in S : AskedFor(r) \/ \E q \in seenRoots' \ S : LeadsTo(q, r)
    BY CauseStays
<1>6. CASE S \subseteq seenRoots
    <2>1. seenRoots \ S \subseteq seenRoots' \ S
        BY <1>2
    <2>2. \E r \in S : AskedFor(r) \/ \E q \in seenRoots \ S : LeadsTo(q, r)
        BY <1>4, <1>6 DEF RootsCaused
    <2>3. QED
        BY <2>1, <2>2
<1>7. CASE ~(S \subseteq seenRoots)
    <2>1. pending # <<>> /\ seenRoots' = seenRoots \cup {h} /\ h \notin seenRoots /\ h \in S
        BY <1>2, <1>7
    <2>2. CASE S = {h}
        BY <1>3, <2>1, <2>2
    <2>3. CASE S # {h}
        <3> DEFINE T == S \ {h}
        <3>1. T \in SUBSET seenRoots /\ T # {} /\ seenRoots \ T \subseteq seenRoots' \ S
            BY <2>1, <2>3
        <3>2. \E r \in T : AskedFor(r) \/ \E q \in seenRoots \ T : LeadsTo(q, r)
            BY <3>1 DEF RootsCaused
        <3>3. QED
            BY <3>1, <3>2
    <2>4. QED
        BY <2>2, <2>3
<1>8. QED
    BY <1>6, <1>7

LEMMA InitOpen == Init => OpenSoFar /\ PendingCaused /\ RootsCaused
    BY DEF Init, OpenSoFar, PendingCaused, RootsCaused, Caused

\* What is sent lies below nothing hidden or excluded, in a root that was asked for
\* or that followed links lead to from one that was.
THEOREM RootsRespected == Spec => []StaysInRoots
<1> DEFINE I == Typed /\ MetInOrder /\ SentOnce /\ OpenSoFar /\ PendingCaused /\ RootsCaused
<1>1. Init => I
    BY InitTyped, InitMet, InitOpen
<1>2. I /\ [Next]_vars => I'
    BY NextTyped, NextMet, NextOpen, NextPending, NextRootsCaused
<1>3. I => StaysInRoots
    <2> SUFFICES ASSUME I PROVE StaysInRoots
        OBVIOUS
    <2>1. ASSUME NEW i \in 1 .. Len(sent)
          PROVE  /\ sent[i][1] \in seenRoots /\ <<sent[i][2], sent[i][1]>> \in Inside
                 /\ Open(sent[i][1], sent[i][2])
        <3>1. PICK r, n \in Nodes : sent[i] = <<r, n>>
            BY DEF Typed, TypeOK
        <3>2. sent[i] \in met
            BY DEF SentOnce
        <3>3. r \in seenRoots /\ <<n, r>> \in Inside
            BY <3>1, <3>2 DEF MetInOrder
        <3>4. QED
            BY <3>1, <3>3 DEF OpenSoFar
    <2>2. QED
        BY <2>1 DEF StaysInRoots, RootsCaused
<1>4. QED
    BY <1>1, <1>2, <1>3, PTL DEF Spec

-----------------------------------------------------------------------------
(* What was met is handled.                                                  *)

\* A node is handled in the step that met it, by one of the cases of the callback.
LEMMA HandledStep ==
    ASSUME Typed, [Next]_vars, NEW r \in Nodes, NEW n \in Nodes, Handled(r, n)'
    PROVE  \/ Handled(r, n)
           \/ /\ r = root.at /\ root # NoRoot /\ ~Skipped(r, n)
              /\ PassOver(n) \/ Enter(n) \/ Follow(n) \/ Offer(n)
<1>1. ASSUME NEW m \in Nodes, PassOver(m) \/ Enter(m) \/ Follow(m) \/ Offer(m)
      PROVE  met' = met \cup {<<root.at, m>>} /\ faulted' = faulted /\ root # NoRoot
    BY <1>1 DEF PassOver, Enter, Follow, Offer, Meet, InRoot
<1>2. ASSUME NEW m \in Nodes, EnterFails(m)
      PROVE  met' = met \cup {<<root.at, m>>} /\ faulted' = faulted \cup {<<root.at, m>>}
    BY <1>2 DEF EnterFails, Meet
<1>3. CASE RootFails
    <2>1. met' = met \cup {<<root.at, root.at>>} /\ faulted' = faulted \cup {<<root.at, root.at>>}
        BY <1>3 DEF RootFails, Meet
    <2>2. QED
        BY <2>1 DEF Handled, Skipped
<1>4. CASE NextRoot \/ AbsFails \/ RootDone \/ Interrupted \/ Finish \/ UNCHANGED vars
    BY <1>4 DEF NextRoot, AbsFails, RootDone, Interrupted, Finish, vars, Handled, Skipped
<1>5. ASSUME NEW m \in Nodes, Visit(m)
      PROVE  \/ Handled(r, n)
             \/ /\ r = root.at /\ root # NoRoot /\ ~Skipped(r, n)
                /\ PassOver(n) \/ Enter(n) \/ Follow(n) \/ Offer(n)
    <2>1. CASE EnterFails(m)
        BY <1>2, <2>1 DEF Handled, Skipped
    <2>2. CASE PassOver(m) \/ Enter(m) \/ Follow(m) \/ Offer(m)
        <3>1. <<r, n>> \in met \/ (r = root.at /\ n = m)
            BY <1>1, <2>2 DEF Handled
        <3>2. QED
            BY <1>1, <2>2, <3>1 DEF Handled, Skipped
    <2>3. QED
        BY <1>5, <2>1, <2>2 DEF Visit
<1>6. QED
    BY <1>3, <1>4, <1>5 DEF Next, Walk, Terminated

LEMMA InitWaits == Init => LinksWait /\ EntriesWait /\ FilesSent
    BY DEF Init, LinksWait, EntriesWait, FilesSent, Handled

LEMMA NextLinks == ASSUME Typed, LinksWait, [Next]_vars PROVE LinksWait'
<1>1. cfg' = cfg /\ seenRoots \subseteq seenRoots' /\ pending \in Seq(Spelling) /\ TypeOK
    BY RootSteps DEF RootTaken, RootAdded, Typed, TypeOK
<1> SUFFICES ASSUME NEW r \in Nodes, NEW n \in Nodes, Handled(r, n)',
                    IsDirLink(n), <<Target[n], r>> \notin Inside
             PROVE  \/ Target[n] \in seenRoots'
                    \/ \E k \in 1 .. Len(pending') : pending'[k].at = Target[n]
    BY <1>1 DEF LinksWait, IsDirLink
<1>2. CASE Handled(r, n)
    <2>1. CASE Target[n] \in seenRoots
        BY <1>1, <2>1
    <2>2. ASSUME NEW k \in 1 .. Len(pending), pending[k].at = Target[n]
          PROVE  \/ Target[n] \in seenRoots'
                 \/ \E j \in 1 .. Len(pending') : pending'[j].at = Target[n]
        <3>1. pending[k] \in Spelling
            BY <1>1
        <3>2. Resolved(pending[k]).at = Target[n]
            BY <1>1, <2>2, <3>1, ResolvedSpelling DEF IsDirLink
        <3>3. QED
            BY <2>2, <3>2, StillWaits
    <2>3. QED
        BY <1>2, <2>1, <2>2 DEF LinksWait
<1>3. CASE r = root.at /\ root # NoRoot /\ ~Skipped(r, n)
           /\ (PassOver(n) \/ Enter(n) \/ Follow(n) \/ Offer(n))
    <2>1. Follow(n)
        BY <1>3 DEF PassOver, Enter, Offer, IsDirLink, IsFile
    <2> DEFINE s == EvalSymlinks([at |-> n, relative |-> root.relative])
    <2>2. s \in Spelling /\ s.at = Target[n] /\ ~CoveredByRoot(s, root.at)
        BY <1>3, RootIsSpelling, LinkSpelling DEF CoveredByRoot
    <2>3. pending' = IF ~SeenRoot(s) THEN Append(pending, s) ELSE pending
        BY <2>1, <2>2 DEF Follow
    <2> HIDE DEF s
    <2>4. CASE SeenRoot(s)
        BY <1>1, <2>2, <2>4 DEF SeenRoot
    <2>5. CASE ~SeenRoot(s)
        BY <1>1, <2>2, <2>3, <2>5, AppendKeeps
    <2>6. QED
        BY <2>4, <2>5
<1>4. QED
    BY <1>2, <1>3, HandledStep

LEMMA NextEntries == ASSUME Typed, EntriesWait, [Next]_vars PROVE EntriesWait'
<1> USE DEF Children
<1>1. CASE NextRoot
    <2>1. todo = {} /\ met' = met /\ faulted' = faulted
        BY <1>1 DEF NextRoot, Typed, RootKnown
    <2>2. CASE Resolved(Head(pending)).at \in seenRoots
        BY <1>1, <2>2 DEF NextRoot, EntriesWait, Handled, Skipped
    <2>3. CASE Resolved(Head(pending)).at \notin seenRoots
        <3> DEFINE h == Resolved(Head(pending))
        <3>1. seenRoots' = seenRoots \cup {h.at} /\ root' = h /\ todo' = {h.at}
            BY <1>1, <2>3 DEF NextRoot
        <3> HIDE DEF h
        <3>2. QED
            BY <2>1, <3>1 DEF EntriesWait, Handled, Skipped
    <2>4. QED
        BY <2>2, <2>3
<1>2. CASE RootFails
    <2>1. /\ todo = {root.at} /\ todo' = {} /\ met' = met \cup {<<root.at, root.at>>}
          /\ faulted' = faulted \cup {<<root.at, root.at>>} /\ UNCHANGED <<root, seenRoots>>
        BY <1>2 DEF RootFails, Meet
    <2>2. QED
        BY <2>1 DEF EntriesWait, Handled, Skipped
<1>3. ASSUME NEW n \in Nodes, Visit(n) PROVE EntriesWait'
    <2>1. /\ met' = met \cup {<<root.at, n>>} /\ UNCHANGED <<root, seenRoots>>
          /\ todo \ {n} \subseteq todo' /\ faulted \subseteq faulted'
        BY <1>3, VisitFacts DEF Visit, PassOver, Enter, EnterFails, Follow, Offer
    <2>2. \A r \in seenRoots : <<r, r>> \in met' \/ (r = root.at /\ r \in todo')
        BY <2>1 DEF EntriesWait
    <2>3. ASSUME NEW r \in Nodes, NEW d \in Nodes, Handled(r, d)', Kind[d] = "dir",
                 NEW c \in Children(d)
          PROVE  <<r, c>> \in met' \/ (r = root.at /\ c \in todo')
        <3>1. CASE Handled(r, d)
            BY <2>1, <2>3, <3>1 DEF EntriesWait
        <3>2. CASE r = root.at /\ Enter(d)
            BY <2>3, <3>2 DEF Enter
        <3>3. ~PassOver(d) \/ Skipped(root.at, d)
            BY <2>3 DEF PassOver
        <3>4. ~Follow(d) /\ ~Offer(d)
            BY <2>3 DEF Follow, Offer, IsDirLink, IsFile
        <3>5. QED
            BY <2>3, <3>1, <3>2, <3>3, <3>4, HandledStep
    <2>4. QED
        BY <2>1, <2>2, <2>3 DEF EntriesWait, Handled, Skipped
<1>4. CASE RootDone
    BY <1>4 DEF RootDone, EntriesWait, Handled, Skipped
<1>5. CASE AbsFails \/ Interrupted \/ Finish \/ UNCHANGED vars
    BY <1>5 DEF AbsFails, Interrupted, Finish, vars, EntriesWait, Handled, Skipped
<1>6. QED
    BY <1>1, <1>2, <1>3, <1>4, <1>5 DEF Next, Walk, Terminated

LEMMA NextFiles == ASSUME Typed, FilesSent, [Next]_vars PROVE FilesSent'
<1>1. cfg' = cfg /\ sent \in Seq(Nodes \X Nodes)
    BY RootSteps DEF Typed, TypeOK
<1> SUFFICES ASSUME NEW r \in Nodes, NEW n \in Nodes, Handled(r, n)', IsFile(n)
             PROVE  Sent(r, n)'
    BY <1>1 DEF FilesSent, IsFile
<1>2. CASE Handled(r, n)
    <2>5. Sent(r, n)
        BY <1>2 DEF FilesSent
    <2>1. PICK i \in 1 .. Len(sent) : sent[i] = <<r, n>>
        BY <2>5 DEF Sent
    <2>2. CASE \E m \in Nodes : Offer(m)
        <3>1. PICK m \in Nodes : Offer(m)
            BY <2>2
        <3>2. <<root.at, m>> \in Nodes \X Nodes /\ sent' = Append(sent, <<root.at, m>>)
            BY <3>1, RootIsSpelling DEF Offer, Meet, InRoot
        <3>3. QED
            BY <1>1, <2>1, <3>2, AppendKeeps DEF Sent
    <2>3. CASE \A m \in Nodes : ~Offer(m)
        <3>1. sent' = sent
            BY <2>3 DEF Next, Walk, Terminated, Visit, NextRoot, AbsFails, RootFails, RootDone,
                        Interrupted, Finish, PassOver, Enter, EnterFails, Follow, vars
        <3>2. QED
            BY <2>1, <3>1 DEF Sent
    <2>4. QED
        BY <2>2, <2>3
<1>3. CASE r = root.at /\ root # NoRoot /\ ~Skipped(r, n)
           /\ (PassOver(n) \/ Enter(n) \/ Follow(n) \/ Offer(n))
    <2>1. Offer(n)
        BY <1>3 DEF PassOver, Enter, Follow, IsDirLink, IsFile
    <2>2. sent' = Append(sent, <<r, n>>) /\ <<r, n>> \in Nodes \X Nodes
        BY <1>3, <2>1 DEF Offer
    <2>3. QED
        BY <1>1, <2>2, AppendKeeps DEF Sent
<1>4. QED
    BY <1>2, <1>3, HandledStep

\* The inductive invariant.
THEOREM WalkInvariant == Spec => []WalkInv
<1>1. Init => WalkInv
    BY InitTyped, InitMet, InitRoots, InitOpen, InitWaits DEF WalkInv
<1>2. WalkInv /\ [Next]_vars => WalkInv'
    BY NextTyped, NextMet, NextRoots, NextOpen, NextPending, NextRootsCaused, NextLinks,
       NextEntries, NextFiles DEF WalkInv
<1>3. QED
    BY <1>1, <1>2, PTL DEF Spec

\* A walk that returns nil has been everywhere it could go: neither the memory of
\* roots nor the test for covered links loses a directory or a file.
THEOREM Everywhere == Spec => []WentEverywhere
<1>1. WalkInv => WentEverywhere
    <2> SUFFICES ASSUME WalkInv, ret = "nil"
                 PROVE  WentEverywhere
        BY DEF WentEverywhere
    <2>1. pending = <<>> /\ todo = {} /\ seenRoots \subseteq Nodes
        BY DEF WalkInv, Typed, TypeOK, RootKnown
    <2>2. Len(pending) = 0
        BY <2>1
    <2>3. \A i \in 1 .. Len(cfg.roots) : Resolved(cfg.roots[i]).at \in seenRoots
        BY <2>2 DEF WalkInv, RootsWait
    <2>4. \A r \in seenRoots : <<r, r>> \in met
        BY <2>1 DEF WalkInv, EntriesWait
    <2>5. ASSUME NEW r \in Nodes, NEW n \in Nodes, Handled(r, n)
          PROVE  /\ Kind[n] = "dir" => \A c \in Children(n) : <<r, c>> \in met
                 /\ IsDirLink(n) /\ <<Target[n], r>> \notin Inside => Target[n] \in seenRoots
                 /\ IsFile(n) => Sent(r, n)
        <3>1. Kind[n] = "dir" => \A c \in Children(n) : <<r, c>> \in met
            BY <2>1, <2>5 DEF WalkInv, EntriesWait
        <3>2. IsDirLink(n) /\ <<Target[n], r>> \notin Inside => Target[n] \in seenRoots
            BY <2>2, <2>5 DEF WalkInv, LinksWait
        <3>3. IsFile(n) => Sent(r, n)
            BY <2>5 DEF WalkInv, FilesSent
        <3>4. QED
            BY <3>1, <3>2, <3>3
    <2>6. QED
        BY <2>3, <2>4, <2>5 DEF WentEverywhere, Handled, Sent
<1>2. QED
    BY <1>1, WalkInvariant, PTL
=============================================================================
