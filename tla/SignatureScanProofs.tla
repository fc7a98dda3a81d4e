------------------------- MODULE SignatureScanProofs -------------------------
(***************************************************************************)
(* Proofs about SignatureScan, for any data, patterns and brands: the       *)
(* search reports every signature and nothing else, and among them what     *)
(* Detect takes any body in the file for, if scan has read what decides it. *)
(***************************************************************************)
EXTENDS SignatureScan, SequenceTheorems, WellFoundedInduction, TLAPS

Count == Len(Patterns)
Elements(s) == {s[i] : i \in 1 .. Len(s)}

\* The places that were searched for a pattern, and for containers.
Searched(p, at) == p < turn \/ (p = turn /\ at < from)
Tried(at) == turn = Count + 2 \/ (turn = Count + 1 /\ at < from)

FoundPattern(m) ==
    \E p \in 1 .. Count, at \in 1 .. Len(data) :
        Searched(p, at) /\ Stands(Patterns[p][2], at) /\ m = <<Patterns[p][1], at>>
FoundWebP(m) ==
    \E at \in 1 .. Len(data) - 2 : Tried(at) /\ WebP(data, at, Len(data)) /\ m = <<"webp", at>>
FoundBrand(m) ==
    \E at \in 1 .. Len(data) - 2 : Tried(at) /\ Branded(data, at) /\ m = <<Brands[data[at + 2]], at>>

\* The matches are the signatures of the places searched so far.
FoundSoFar == \A m : m \in Matches <=> FoundPattern(m) \/ FoundWebP(m) \/ FoundBrand(m)

ScanInv == FindTypeOK /\ FoundSoFar

LEMMA ElementsOfAppend ==
    ASSUME NEW S, NEW s \in Seq(S), NEW e \in S
    PROVE  \A m : m \in Elements(Append(s, e)) <=> m \in Elements(s) \/ m = e
<1> DEFINE t == Append(s, e)
<1>1. /\ Len(t) = Len(s) + 1 /\ Len(s) \in Nat /\ t[Len(s) + 1] = e
      /\ \A i \in 1 .. Len(s) : t[i] = s[i]
    OBVIOUS
<1> HIDE DEF t
<1>2. 1 .. Len(t) = 1 .. Len(s) \cup {Len(s) + 1}
    BY <1>1
<1>3. QED
    BY <1>1, <1>2 DEF Elements, t

LEMMA ElementsOfConcat ==
    ASSUME NEW S, NEW s \in Seq(S), NEW r \in Seq(S)
    PROVE  \A m : m \in Elements(s \o r) <=> m \in Elements(s) \/ m \in Elements(r)
<1> DEFINE t == s \o r
<1>1. /\ Len(t) = Len(s) + Len(r) /\ Len(s) \in Nat /\ Len(r) \in Nat
      /\ \A i \in 1 .. Len(s) : t[i] = s[i]
      /\ \A i \in 1 .. Len(r) : t[Len(s) + i] = r[i]
    OBVIOUS
<1> HIDE DEF t
<1>2. ASSUME NEW m, m \in Elements(t) PROVE m \in Elements(s) \/ m \in Elements(r)
    <2>1. PICK i \in 1 .. Len(t) : m = t[i]
        BY <1>2 DEF Elements
    <2>2. CASE i \in 1 .. Len(s)
        BY <1>1, <2>1, <2>2 DEF Elements
    <2>3. CASE i \notin 1 .. Len(s)
        <3>1. i - Len(s) \in 1 .. Len(r) /\ Len(s) + (i - Len(s)) = i
            BY <1>1, <2>1, <2>3
        <3>2. QED
            BY <1>1, <2>1, <3>1 DEF Elements
    <2>4. QED
        BY <2>2, <2>3
<1>3. ASSUME NEW m, m \in Elements(s) PROVE m \in Elements(t)
    <2>1. PICK i \in 1 .. Len(s) : m = s[i]
        BY <1>3 DEF Elements
    <2>2. i \in 1 .. Len(t) /\ t[i] = m
        BY <1>1, <2>1
    <2>3. QED
        BY <2>2 DEF Elements
<1>4. ASSUME NEW m, m \in Elements(r) PROVE m \in Elements(t)
    <2>1. PICK i \in 1 .. Len(r) : m = r[i]
        BY <1>4 DEF Elements
    <2>2. Len(s) + i \in 1 .. Len(t) /\ t[Len(s) + i] = m
        BY <1>1, <2>1
    <2>3. QED
        BY <2>2 DEF Elements
<1>5. QED
    BY <1>2, <1>3, <1>4 DEF t

LEMMA SingleOrEmpty ==
    ASSUME NEW S, NEW e, NEW c \in BOOLEAN, c => e \in S
    PROVE  /\ (IF c THEN <<e>> ELSE <<>>) \in Seq(S)
           /\ \A m : m \in Elements(IF c THEN <<e>> ELSE <<>>) <=> c /\ m = e
<1>1. CASE c
    <2>1. <<e>> \in Seq(S) /\ Len(<<e>>) = 1 /\ <<e>>[1] = e
        BY <1>1
    <2>2. \A m : m \in Elements(<<e>>) <=> m = e
        BY <2>1 DEF Elements
    <2>3. QED
        BY <1>1, <2>1, <2>2
<1>2. CASE ~c
    BY <1>2 DEF Elements
<1>3. QED
    BY <1>1, <1>2

\* What the constants are.
LEMMA Given ==
    /\ Count \in Nat
    /\ \A p \in 1 .. Count : /\ Patterns[p][1] \in Types
                             /\ Patterns[p][2] \in Seq(Cells)
                             /\ Len(Patterns[p][2]) \in Nat /\ Len(Patterns[p][2]) >= 1
    /\ "webp" \in Types
    /\ \A b \in DOMAIN Brands : Brands[b] \in Types
<1>1. Patterns \in Seq(STRING \X (Seq(Cells) \ {<<>>})) /\ Count \in Nat
    BY PatternsAssumption DEF Count
<1>2. ASSUME NEW p \in 1 .. Count
      PROVE  /\ Patterns[p][1] \in Types
             /\ Patterns[p][2] \in Seq(Cells)
             /\ Len(Patterns[p][2]) \in Nat /\ Len(Patterns[p][2]) >= 1
    <2>1. Patterns[p] \in STRING \X (Seq(Cells) \ {<<>>})
        BY <1>1 DEF Count
    <2>2. Patterns[p][2] \in Seq(Cells) /\ Patterns[p][2] # <<>>
        BY <2>1
    <2>3. QED
        BY <2>2 DEF Types, Count
<1>3. QED
    BY <1>1, <1>2 DEF Types

LEMMA InitScan == FindInit => ScanInv
<1> SUFFICES ASSUME FindInit PROVE ScanInv
    OBVIOUS
<1>1. turn = 1 /\ from = 1 /\ out = <<>> /\ whole \in Seq(Cells) /\ Count \in Nat
    BY FilesAssumption, Given DEF FindInit
<1>2. data \in Seq(Cells) /\ Len(data) \in Nat
    <2> DEFINE n == IF Window < Len(whole) THEN Window ELSE Len(whole)
    <2>1. n \in Nat /\ n <= Len(whole)
        BY <1>1, FilesAssumption
    <2>2. data = SubSeq(whole, 1, n)
        BY DEF FindInit
    <2> HIDE DEF n
    <2>3. SubSeq(whole, 1, n) \in Seq(Cells)
        BY <1>1, <2>1
    <2>4. QED
        BY <2>2, <2>3
<1>3. FindTypeOK
    BY <1>1, <1>2 DEF FindTypeOK, Count
<1>4. \A m : m \notin Matches
    BY <1>1 DEF Matches
<1>5. \A m : ~FoundPattern(m) /\ ~FoundWebP(m) /\ ~FoundBrand(m)
    BY <1>1, <1>2 DEF FoundPattern, FoundWebP, FoundBrand, Searched, Tried
<1>6. QED
    BY <1>3, <1>4, <1>5 DEF ScanInv, FoundSoFar

LEMMA SearchPatternKeeps == ASSUME ScanInv, SearchPattern PROVE ScanInv'
<1>1. /\ turn \in 1 .. Count /\ Count \in Nat /\ Len(data) \in Nat /\ from \in 1 .. Len(data) + 1
      /\ UNCHANGED <<whole, data, turn>> /\ out \in Seq(Types \X (1 .. Len(data)))
    BY Given DEF ScanInv, FindTypeOK, SearchPattern, Count
<1>2. PICK at \in from .. Len(data) :
          /\ Stands(Patterns[turn][2], at)
          /\ \A earlier \in from .. at - 1 : ~Stands(Patterns[turn][2], earlier)
          /\ out' = Append(out, <<Patterns[turn][1], at>>)
          /\ from' = at + 1
    BY DEF SearchPattern
<1> DEFINE found == <<Patterns[turn][1], at>>
<1>3. at \in 1 .. Len(data) /\ found \in Types \X (1 .. Len(data))
    BY <1>1, <1>2, Given
<1> HIDE DEF found
<1>4. out' = Append(out, found)
    BY <1>2 DEF found
<1>5. FindTypeOK'
    <2>1. out' \in Seq(Types \X (1 .. Len(data)))
        BY <1>1, <1>3, <1>4
    <2>2. from' \in 1 .. Len(data) + 1
        BY <1>1, <1>2
    <2>3. QED
        BY <1>1, <2>1, <2>2 DEF ScanInv, FindTypeOK, Count
<1>6. \A m : m \in Matches' <=> m \in Matches \/ m = found
    <2>1. Matches = Elements(out) /\ Matches' = Elements(out')
        BY DEF Matches, Elements
    <2> DEFINE S == Types \X (1 .. Len(data))
    <2>2. out \in Seq(S) /\ found \in S
        BY <1>1, <1>3
    <2> HIDE DEF S
    <2>3. \A m : m \in Elements(Append(out, found)) <=> m \in Elements(out) \/ m = found
        BY <2>2, ElementsOfAppend
    <2>4. QED
        BY <1>4, <2>1, <2>3
<1>7. \A m : FoundPattern(m)' <=> FoundPattern(m) \/ m = found
    <2> DEFINE P(m, p, a) == Stands(Patterns[p][2], a) /\ m = <<Patterns[p][1], a>>
    <2>1. \A p, a : Stands(Patterns[p][2], a)' <=> Stands(Patterns[p][2], a)
        BY <1>1 DEF Stands
    <2>2. P(found, turn, at)
        BY <1>2 DEF found
    <2>3. ASSUME NEW p \in 1 .. Count, NEW a \in 1 .. Len(data), Stands(Patterns[p][2], a)
          PROVE  Searched(p, a)' <=> Searched(p, a) \/ (p = turn /\ a = at)
        <3>1. ~(p = turn /\ a >= from /\ a < at)
            <4> SUFFICES ASSUME p = turn, a >= from, a < at PROVE FALSE
                OBVIOUS
            <4>1. a \in from .. at - 1
                BY <1>1
            <4>2. QED
                BY <1>2, <2>3, <4>1
        <3>2. QED
            BY <1>1, <1>2, <2>3, <3>1 DEF Searched
    <2>4. \A m : (m = found) <=> P(m, turn, at)
        BY <1>2 DEF found
    <2>5. \A m : FoundPattern(m) <=> \E p \in 1 .. Count, a \in 1 .. Len(data) : Searched(p, a) /\ P(m, p, a)
        BY DEF FoundPattern
    <2>6. \A m : FoundPattern(m)' <=> \E p \in 1 .. Count, a \in 1 .. Len(data) : Searched(p, a)' /\ P(m, p, a)
        BY <1>1, <2>1 DEF FoundPattern, Count
    <2>7. \A m, p, a : P(m, p, a) => Stands(Patterns[p][2], a)
        OBVIOUS
    <2> HIDE DEF P
    <2>8. QED
        BY <1>1, <1>3, <2>3, <2>4, <2>5, <2>6, <2>7
<1>8. \A m : ~FoundWebP(m)' /\ ~FoundBrand(m)' /\ ~FoundWebP(m) /\ ~FoundBrand(m)
    BY <1>1 DEF FoundWebP, FoundBrand, Tried, Count
<1>9. FoundSoFar'
    BY <1>6, <1>7, <1>8 DEF ScanInv, FoundSoFar
<1>10. QED
    BY <1>5, <1>9 DEF ScanInv

LEMMA NextPatternKeeps == ASSUME ScanInv, NextPattern PROVE ScanInv'
<1>1. /\ turn \in 1 .. Count /\ Count \in Nat /\ Len(data) \in Nat /\ from \in 1 .. Len(data) + 1
      /\ UNCHANGED <<whole, data, out>> /\ turn' = turn + 1 /\ from' = 1
      /\ \A at \in from .. Len(data) : ~Stands(Patterns[turn][2], at)
    BY Given DEF ScanInv, FindTypeOK, NextPattern, Count
<1>2. FindTypeOK'
    BY <1>1 DEF ScanInv, FindTypeOK, Count
<1>3. Matches' = Matches
    BY <1>1 DEF Matches
<1>4. \A m : FoundPattern(m)' <=> FoundPattern(m)
    <2>1. ASSUME NEW p \in 1 .. Count, NEW a \in 1 .. Len(data), Stands(Patterns[p][2], a)
          PROVE  Searched(p, a)' <=> Searched(p, a)
        BY <1>1, <2>1 DEF Searched
    <2>2. \A p, a : Stands(Patterns[p][2], a)' <=> Stands(Patterns[p][2], a)
        BY <1>1 DEF Stands
    <2>3. QED
        BY <1>1, <2>1, <2>2 DEF FoundPattern
<1>5. \A m : ~FoundWebP(m)' /\ ~FoundBrand(m)' /\ ~FoundWebP(m) /\ ~FoundBrand(m)
    BY <1>1 DEF FoundWebP, FoundBrand, Tried, Count
<1>6. FoundSoFar'
    BY <1>3, <1>4, <1>5 DEF ScanInv, FoundSoFar
<1>7. QED
    BY <1>2, <1>6 DEF ScanInv

LEMMA SearchContainerKeeps == ASSUME ScanInv, SearchContainer PROVE ScanInv'
<1> DEFINE webp == IF WebP(data, from, Len(data)) THEN << <<"webp", from>> >> ELSE <<>>
           brand == IF Branded(data, from) THEN << <<Brands[data[from + 2]], from>> >> ELSE <<>>
           Match == Types \X (1 .. Len(data))
<1>1. /\ turn = Count + 1 /\ Count \in Nat /\ Len(data) \in Nat /\ from \in 1 .. Len(data) - 2
      /\ UNCHANGED <<whole, data, turn>> /\ out \in Seq(Match)
      /\ out' = (out \o webp) \o brand /\ from' = from + 1
    BY Given DEF ScanInv, FindTypeOK, SearchContainer, LastContainer, Count
<1>2. webp \in Seq(Match) /\ \A m : m \in Elements(webp) <=> WebP(data, from, Len(data)) /\ m = <<"webp", from>>
    <2>1. <<"webp", from>> \in Match
        BY <1>1, Given
    <2>2. QED
        <3>1. WebP(data, from, Len(data)) \in BOOLEAN
            BY DEF WebP
        <3>2. QED
            BY <2>1, <3>1, SingleOrEmpty
<1>3. /\ brand \in Seq(Match)
      /\ \A m : m \in Elements(brand) <=> Branded(data, from) /\ m = <<Brands[data[from + 2]], from>>
    <2>1. Branded(data, from) => <<Brands[data[from + 2]], from>> \in Match
        BY <1>1, Given DEF Branded
    <2>2. QED
        <3> DEFINE e == <<Brands[data[from + 2]], from>>
                   c == Branded(data, from)
        <3>1. c \in BOOLEAN
            BY DEF Branded
        <3>2. c => e \in Match
            BY <2>1
        <3> HIDE DEF e, c, Match
        <3>3. /\ (IF c THEN <<e>> ELSE <<>>) \in Seq(Match)
              /\ \A m : m \in Elements(IF c THEN <<e>> ELSE <<>>) <=> c /\ m = e
            BY <3>1, <3>2, SingleOrEmpty
        <3>4. QED
            BY <3>3 DEF e, c
<1> HIDE DEF webp, brand, Match
<1>4. out' \in Seq(Match) /\ out \o webp \in Seq(Match)
    BY <1>1, <1>2, <1>3
<1>5. FindTypeOK'
    <2>1. from' \in 1 .. Len(data) + 1
        BY <1>1
    <2>2. QED
        BY <1>1, <1>4, <2>1 DEF ScanInv, FindTypeOK, Count, Match
<1>6. \A m : m \in Matches' <=> m \in Matches \/ m \in Elements(webp) \/ m \in Elements(brand)
    <2>1. Matches = Elements(out) /\ Matches' = Elements(out')
        BY DEF Matches, Elements
    <2>2. \A m : m \in Elements(out \o webp) <=> m \in Elements(out) \/ m \in Elements(webp)
        BY <1>1, <1>2, ElementsOfConcat
    <2>3. \A m : m \in Elements((out \o webp) \o brand) <=> m \in Elements(out \o webp) \/ m \in Elements(brand)
        <3> DEFINE more == out \o webp
        <3>1. more \in Seq(Match) /\ brand \in Seq(Match)
            BY <1>3, <1>4
        <3> HIDE DEF more
        <3>2. \A m : m \in Elements(more \o brand) <=> m \in Elements(more) \/ m \in Elements(brand)
            BY <3>1, ElementsOfConcat
        <3>3. QED
            BY <3>2 DEF more
    <2>4. QED
        BY <1>1, <2>1, <2>2, <2>3
<1>7. \A a \in 1 .. Len(data) - 2 : Tried(a)' <=> Tried(a) \/ a = from
    BY <1>1 DEF Tried, Count
<1>8. \A m : FoundPattern(m)' <=> FoundPattern(m)
    <2>1. \A p \in 1 .. Count, a \in 1 .. Len(data) : Searched(p, a)' <=> Searched(p, a)
        BY <1>1 DEF Searched
    <2>2. \A p, a : Stands(Patterns[p][2], a)' <=> Stands(Patterns[p][2], a)
        BY <1>1 DEF Stands
    <2>3. QED
        BY <1>1, <2>1, <2>2 DEF FoundPattern, Count
<1>9. \A m : FoundWebP(m)' <=> FoundWebP(m) \/ m \in Elements(webp)
    <2>1. \A a : WebP(data, a, Len(data))' <=> WebP(data, a, Len(data))
        BY <1>1 DEF WebP, WebPNamed
    <2>2. QED
        BY <1>1, <1>2, <1>7, <2>1 DEF FoundWebP
<1>10. \A m : FoundBrand(m)' <=> FoundBrand(m) \/ m \in Elements(brand)
    <2>1. \A a : Branded(data, a)' <=> Branded(data, a)
        BY <1>1 DEF Branded
    <2>2. QED
        BY <1>1, <1>3, <1>7, <2>1 DEF FoundBrand
<1>11. FoundSoFar'
    BY <1>6, <1>8, <1>9, <1>10 DEF ScanInv, FoundSoFar
<1>12. QED
    BY <1>5, <1>11 DEF ScanInv

LEMMA FinishKeeps == ASSUME ScanInv, Finish PROVE ScanInv'
<1>1. /\ turn = Count + 1 /\ turn' = Count + 2 /\ Count \in Nat /\ Len(data) \in Nat
      /\ from \in 1 .. Len(data) + 1 /\ from > Len(data) - 2 /\ UNCHANGED <<whole, data, from, out>>
    BY Given DEF ScanInv, FindTypeOK, Finish, LastContainer, Count
<1>2. FindTypeOK'
    BY <1>1 DEF ScanInv, FindTypeOK, Count
<1>3. Matches' = Matches
    BY <1>1 DEF Matches
<1>4. \A m : FoundPattern(m)' <=> FoundPattern(m)
    <2>1. \A p \in 1 .. Count, a \in 1 .. Len(data) : Searched(p, a)' <=> Searched(p, a)
        BY <1>1 DEF Searched
    <2>2. \A p, a : Stands(Patterns[p][2], a)' <=> Stands(Patterns[p][2], a)
        BY <1>1 DEF Stands
    <2>3. QED
        BY <1>1, <2>1, <2>2 DEF FoundPattern, Count
<1>5. \A a \in 1 .. Len(data) - 2 : Tried(a)' <=> Tried(a)
    BY <1>1 DEF Tried
<1>6. \A m : FoundWebP(m)' <=> FoundWebP(m)
    BY <1>1, <1>5 DEF FoundWebP, WebP, WebPNamed
<1>7. \A m : FoundBrand(m)' <=> FoundBrand(m)
    BY <1>1, <1>5 DEF FoundBrand, Branded
<1>8. FoundSoFar'
    BY <1>3, <1>4, <1>6, <1>7 DEF ScanInv, FoundSoFar
<1>9. QED
    BY <1>2, <1>8 DEF ScanInv

\* The inductive invariant: the matches so far are the signatures so far.
THEOREM ScanInvariant == FindSpec => []ScanInv
<1>1. ASSUME ScanInv, UNCHANGED findVars PROVE ScanInv'
    <2>1. FindTypeOK' /\ Matches' = Matches
        BY <1>1 DEF ScanInv, FindTypeOK, findVars, Matches
    <2>2. \A m : /\ FoundPattern(m)' <=> FoundPattern(m)
                 /\ FoundWebP(m)' <=> FoundWebP(m)
                 /\ FoundBrand(m)' <=> FoundBrand(m)
        BY <1>1 DEF findVars, FoundPattern, FoundWebP, FoundBrand, Searched, Tried, Stands, WebP, WebPNamed, Branded
    <2>3. QED
        BY <1>1, <2>1, <2>2 DEF ScanInv, FoundSoFar
<1>2. ScanInv /\ [FindNext]_findVars => ScanInv'
    BY <1>1, SearchPatternKeeps, NextPatternKeeps, SearchContainerKeeps, FinishKeeps DEF FindNext, FindReturned
<1>3. QED
    BY InitScan, <1>2, PTL DEF FindSpec

\* The search reports every signature of the data, and nothing else.
THEOREM FindsEverySignature == FindSpec => []EverySignature
<1>1. ScanInv => EverySignature
    <2> SUFFICES ASSUME ScanInv, turn = Count + 2 PROVE Matches = Expected
        BY DEF EverySignature, Finished, Count
    <2>0. Len(data) \in Nat
        BY DEF ScanInv, FindTypeOK
    <2>1. Count \in Nat
        BY Given
    <2>2. \A p \in 1 .. Count, at \in 1 .. Len(data) : Searched(p, at)
        BY <2>1 DEF Searched
    <2>3. \A at : Tried(at)
        BY DEF Tried
    <2>4. \A m : m \in Expected <=> FoundPattern(m) \/ FoundWebP(m) \/ FoundBrand(m)
        <3>1. ASSUME NEW m, m \in Expected PROVE FoundPattern(m) \/ FoundWebP(m) \/ FoundBrand(m)
            <4>1. m[2] \in 1 .. Len(data) /\ m = <<m[1], m[2]>>
                BY <3>1 DEF Expected
            <4>2. CASE \E p \in 1 .. Count : m[1] = Patterns[p][1] /\ Stands(Patterns[p][2], m[2])
                BY <2>2, <4>1, <4>2 DEF FoundPattern
            <4>3. CASE m[2] <= Len(data) - 2 /\ m[1] = "webp" /\ WebP(data, m[2], Len(data))
                BY <2>0, <2>3, <4>1, <4>3 DEF FoundWebP
            <4>4. CASE m[2] <= Len(data) - 2 /\ Branded(data, m[2]) /\ m[1] = Brands[data[m[2] + 2]]
                BY <2>0, <2>3, <4>1, <4>4 DEF FoundBrand
            <4>5. QED
                BY <3>1, <4>2, <4>3, <4>4 DEF Expected, Count
        <3>2. ASSUME NEW m, FoundPattern(m) PROVE m \in Expected
            <4>1. PICK p \in 1 .. Count, at \in 1 .. Len(data) :
                      Stands(Patterns[p][2], at) /\ m = <<Patterns[p][1], at>>
                BY <3>2 DEF FoundPattern
            <4>2. m \in Types \X (1 .. Len(data)) /\ m[1] = Patterns[p][1] /\ m[2] = at
                BY <4>1, Given
            <4>3. QED
                BY <4>1, <4>2 DEF Expected, Count
        <3>3. ASSUME NEW m, FoundWebP(m) PROVE m \in Expected
            <4>1. PICK at \in 1 .. Len(data) - 2 : WebP(data, at, Len(data)) /\ m = <<"webp", at>>
                BY <3>3 DEF FoundWebP
            <4>2. m \in Types \X (1 .. Len(data)) /\ m[1] = "webp" /\ m[2] = at /\ at <= Len(data) - 2
                BY <2>0, <4>1, Given
            <4>3. QED
                BY <4>1, <4>2 DEF Expected
        <3>4. ASSUME NEW m, FoundBrand(m) PROVE m \in Expected
            <4>1. PICK at \in 1 .. Len(data) - 2 : Branded(data, at) /\ m = <<Brands[data[at + 2]], at>>
                BY <3>4 DEF FoundBrand
            <4>2. /\ m \in Types \X (1 .. Len(data)) /\ m[1] = Brands[data[at + 2]] /\ m[2] = at
                  /\ at <= Len(data) - 2
                BY <2>0, <4>1, Given DEF Branded
            <4>3. QED
                BY <4>1, <4>2 DEF Expected
        <3>5. QED
            BY <3>1, <3>2, <3>3, <3>4
    <2>5. QED
        BY <2>4 DEF ScanInv, FoundSoFar
<1>2. QED
    BY <1>1, ScanInvariant, PTL

-----------------------------------------------------------------------------
(* Find and Detect.                                                         *)

\* A set of numbers that is not empty has a least one.
LEMMA LeastNumber ==
    ASSUME NEW S \in SUBSET Nat, S # {}
    PROVE  \E p \in S : \A q \in S : p <= q
<1> DEFINE R == OpToRel(<, Nat)
<1>1. IsWellFoundedOn(R, Nat)
    BY NatLessThanWellFounded
<1>2. \A x, y \in Nat : x < y => <<x, y>> \in R
    BY DEF OpToRel
<1> HIDE DEF R
<1>3. PICK p \in S : \A q \in S : ~ (<<q, p>> \in R)
    BY <1>1, WFMin
<1>4. S \subseteq Nat /\ p \in Nat
    BY <1>3
<1>5. \A q \in S : ~(q < p)
    BY <1>2, <1>3, <1>4
<1>6. QED
    BY <1>4, <1>5

\* The data are the beginning of the file.
DataInv == /\ FindTypeOK /\ Len(data) <= Len(whole)
           /\ \A i \in 1 .. Len(data) : data[i] = whole[i]

LEMMA DataIsPrefix == FindSpec => []DataInv
<1>1. FindInit => DataInv
    <2> SUFFICES ASSUME FindInit PROVE DataInv
        OBVIOUS
    <2> DEFINE n == IF Window < Len(whole) THEN Window ELSE Len(whole)
    <2>1. whole \in Seq(Cells) /\ n \in Nat /\ n <= Len(whole)
        BY FilesAssumption DEF FindInit
    <2>2. data = SubSeq(whole, 1, n)
        BY DEF FindInit
    <2> HIDE DEF n
    <2>3. Len(data) = n /\ \A i \in 1 .. n : data[i] = whole[i]
        BY <2>1, <2>2
    <2>4. FindTypeOK
        BY InitScan DEF ScanInv
    <2>5. QED
        BY <2>1, <2>3, <2>4 DEF DataInv
<1>2. ASSUME DataInv, UNCHANGED <<whole, data>>, FindTypeOK' PROVE DataInv'
    BY <1>2 DEF DataInv
<1>3. [FindNext]_findVars => UNCHANGED <<whole, data>>
    BY DEF FindNext, findVars, SearchPattern, NextPattern, SearchContainer, Finish, FindReturned
<1>4. DataInv /\ FindTypeOK' /\ [FindNext]_findVars => DataInv'
    BY <1>2, <1>3
<1>5. ScanInv => FindTypeOK
    BY DEF ScanInv
<1>6. QED
    BY <1>1, <1>4, <1>5, ScanInvariant, PTL DEF FindSpec

\* What of a body is looked at, as far as scan has read it too: its cells are those
\* of the data.
LEMMA HeaderCells ==
    ASSUME DataInv, NEW start \in 1 .. Len(whole), NEW stop \in start .. Len(whole),
           start + Len(HeaderOf(start, stop)) - 1 <= Len(data)
    PROVE  /\ HeaderOf(start, stop) \in Seq(Cells)
           /\ Len(HeaderOf(start, stop)) \in Nat
           /\ \A i \in 1 .. Len(HeaderOf(start, stop)) :
                 HeaderOf(start, stop)[i] = data[start + i - 1]
<1> DEFINE n == IF BodySize(start, stop) < HeaderLength THEN stop ELSE start + HeaderLength - 1
           header == HeaderOf(start, stop)
<1>1. whole \in Seq(Cells) /\ Len(whole) \in Nat /\ HeaderLength \in Nat /\ Len(data) \in Nat
    BY FilesAssumption DEF DataInv, FindTypeOK
<1>2. n \in Int /\ n <= Len(whole)
    BY <1>1 DEF BodySize
<1>3. header = SubSeq(whole, start, n)
    BY DEF HeaderOf
<1> HIDE DEF n, header
<1>4. header \in Seq(Cells) /\ Len(header) \in Nat
    BY <1>1, <1>2, <1>3
<1>5. \A i \in 1 .. Len(header) : header[i] = whole[start + i - 1]
    BY <1>1, <1>2, <1>3
<1>6. start + Len(header) - 1 <= Len(data)
    BY DEF header
<1>7. \A i \in 1 .. Len(header) : start + i - 1 \in 1 .. Len(data)
    BY <1>1, <1>4, <1>6
<1>8. \A i \in 1 .. Len(header) : header[i] = data[start + i - 1]
    BY <1>5, <1>7 DEF DataInv
<1>9. QED
    BY <1>4, <1>8 DEF header

\* A pattern such cells begin with stands at their place in the data.
LEMMA BeginsStands ==
    ASSUME FindTypeOK, NEW start \in Nat \ {0}, NEW header \in Seq(Cells),
           start + Len(header) - 1 <= Len(data),
           \A i \in 1 .. Len(header) : header[i] = data[start + i - 1],
           NEW p \in 1 .. Count, StandsFirst(Patterns[p][2], header)
    PROVE  Stands(Patterns[p][2], start) /\ start \in 1 .. Len(data)
<1> DEFINE pattern == Patterns[p][2]
<1>1. pattern \in Seq(Cells) /\ Len(pattern) <= Len(header) /\ Len(pattern) >= 1
    BY Given DEF StandsFirst
<1>3. SubSeq(header, 1, Len(pattern)) = pattern
    BY DEF StandsFirst
<1> HIDE DEF pattern
<1>2. Len(pattern) \in Nat /\ Len(header) \in Nat /\ Len(data) \in Nat
    BY <1>1 DEF FindTypeOK
<1>4. \A i \in 1 .. Len(pattern) : SubSeq(header, 1, Len(pattern))[i] = header[i]
    BY <1>1, <1>2
<1>5. \A i \in 1 .. Len(pattern) : pattern[i] = header[i]
    BY <1>3, <1>4
<1>6. \A i \in 1 .. Len(pattern) : pattern[i] = data[start + i - 1]
    BY <1>1, <1>2, <1>5
<1>7. start + Len(pattern) - 1 <= Len(data)
    BY <1>1, <1>2
<1>8. Stands(pattern, start)
    BY <1>6, <1>7 DEF Stands
<1>9. QED
    BY <1>1, <1>2, <1>7, <1>8 DEF pattern

\* The two functions agree: what Extract takes an uncoded body for, by its header and
\* its whole size, is among the matches that made scan report the file, at the place
\* where the body begins, if scan has read what decides it.
THEOREM FindAgreesWithDetect == FindSpec => []AgreesWithDetect
<1>1. ASSUME DataInv, EverySignature, Finished,
             NEW start \in 1 .. Len(whole), NEW stop \in start .. Len(whole),
             DetectSignature(HeaderOf(start, stop), BodySize(start, stop)) # NoType,
             InSight(start, HeaderOf(start, stop))
      PROVE  <<DetectSignature(HeaderOf(start, stop), BodySize(start, stop)), start>> \in Matches
    <2> DEFINE header == HeaderOf(start, stop)
               total == BodySize(start, stop)
               kind == DetectSignature(header, total)
    <2>0. /\ FindTypeOK /\ Len(data) \in Nat /\ Len(whole) \in Nat
          /\ start \in Nat \ {0} /\ stop \in Nat /\ start <= stop
        BY <1>1 DEF DataInv, FindTypeOK
    <2>1. start + Len(header) - 1 <= Len(data)
        BY <1>1 DEF InSight
    <2>2. /\ header \in Seq(Cells) /\ Len(header) \in Nat
          /\ \A i \in 1 .. Len(header) : header[i] = data[start + i - 1]
        BY <1>1, <2>1, HeaderCells
    <2>3. kind # NoType /\ InSight(start, header)
        BY <1>1
    <2> SUFFICES <<kind, start>> \in Expected
        BY <1>1 DEF EverySignature
    <2> HIDE DEF header, total
    <2>4. CASE \E p \in 1 .. Count : StandsFirst(Patterns[p][2], header)
        <3> DEFINE First(p) == /\ StandsFirst(Patterns[p][2], header)
                               /\ \A q \in 1 .. p - 1 : ~StandsFirst(Patterns[q][2], header)
        <3>1. kind = Patterns[CHOOSE p \in 1 .. Count : First(p)][1]
            BY <2>4 DEF DetectSignature, Count
        <3>2. \E p \in 1 .. Count : First(p)
            <4> DEFINE Fits == {p \in 1 .. Count : StandsFirst(Patterns[p][2], header)}
            <4>1. Fits \subseteq Nat /\ Fits # {}
                <5>1. 1 .. Count \subseteq Nat
                    BY Given
                <5>2. QED
                    BY <2>4, <5>1
            <4>2. PICK p \in Fits : \A q \in Fits : p <= q
                BY <4>1, LeastNumber
            <4>3. QED
                BY <4>2, Given
        <3>3. PICK p \in 1 .. Count : First(p) /\ kind = Patterns[p][1]
            BY <3>1, <3>2
        <3>4. Stands(Patterns[p][2], start) /\ start \in 1 .. Len(data)
            <4>1. StandsFirst(Patterns[p][2], header)
                BY <3>3
            <4> HIDE DEF First, kind
            <4>2. QED
                BY <2>0, <2>1, <2>2, <4>1, BeginsStands
        <3>5. <<kind, start>> \in Types \X (1 .. Len(data))
            BY <3>3, <3>4 DEF Types, Count
        <3>6. QED
            BY <3>3, <3>4, <3>5 DEF Expected, Count
    <2>5. CASE ~ \E p \in 1 .. Count : StandsFirst(Patterns[p][2], header)
        <3>1. Len(header) >= 3
            BY <2>2, <2>3, <2>5 DEF DetectSignature, Count
        <3>2. /\ start \in 1 .. Len(data) /\ start <= Len(data) - 2
              /\ header[1] = data[start] /\ header[2] = data[start + 1] /\ header[3] = data[start + 2]
            <4>1. 1 \in 1 .. Len(header) /\ 2 \in 1 .. Len(header) /\ 3 \in 1 .. Len(header)
                BY <2>2, <3>1
            <4>2. start + 1 - 1 = start /\ start + 2 - 1 = start + 1 /\ start + 3 - 1 = start + 2
                BY <2>0
            <4>3. /\ header[1] = data[start + 1 - 1] /\ header[2] = data[start + 2 - 1]
                  /\ header[3] = data[start + 3 - 1]
                BY <2>2, <4>1
            <4>4. start \in 1 .. Len(data) /\ start <= Len(data) - 2
                BY <2>0, <2>1, <2>2, <3>1
            <4>5. QED
                BY <4>2, <4>3, <4>4
        <3>3. \/ WebPNamed(header, 1) /\ WebP(header, 1, total) /\ kind = "webp"
              \/ Branded(header, 1) /\ kind = Brands[header[3]]
            BY <2>3, <2>5, <3>1 DEF DetectSignature, Count
        <3>4. CASE WebPNamed(header, 1) /\ WebP(header, 1, total) /\ kind = "webp"
            <4>1. Claim[header[2]] \in Nat
                BY <2>2, <3>1, PatternsAssumption
            <4>2. start + Claim[header[2]] + 1 <= Len(data) /\ Claim[header[2]] + 2 >= 3
                BY <2>3, <3>1, <3>4 DEF InSight, WebP
            <4>3. WebP(data, start, Len(data))
                BY <2>0, <3>2, <3>4, <4>1, <4>2 DEF WebP, WebPNamed
            <4>4. <<kind, start>> \in Types \X (1 .. Len(data))
                BY <3>2, <3>4, Given
            <4>5. QED
                BY <3>2, <3>4, <4>3, <4>4 DEF Expected
        <3>5. CASE Branded(header, 1) /\ kind = Brands[header[3]]
            <4>1. Branded(data, start) /\ kind = Brands[data[start + 2]]
                BY <3>2, <3>5 DEF Branded
            <4>2. <<kind, start>> \in Types \X (1 .. Len(data))
                BY <3>2, <4>1, Given DEF Branded
            <4>3. QED
                BY <3>2, <4>1, <4>2 DEF Expected
        <3>6. QED
            BY <3>3, <3>4, <3>5
    <2>6. QED
        BY <2>4, <2>5
<1>2. DataInv /\ EverySignature => AgreesWithDetect
    BY <1>1 DEF AgreesWithDetect
<1>3. QED
    BY <1>2, DataIsPrefix, FindsEverySignature, PTL
==============================================================================
