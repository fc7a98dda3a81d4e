------------------------- MODULE MCSimpleCacheLayout -------------------------
(* Small files: a header and footers of two bytes, a digest of three.         *)
EXTENDS SimpleCacheLayout

Writing(layout, key, body, meta, sha, crc, lookalike) ==
    [layout |-> layout, key |-> key, body |-> body, meta |-> meta, sha |-> sha, crc |-> crc,
     lookalike |-> lookalike]

\* Lengths of zero, of one, and beyond the limits of the configuration.
Combined == {Writing("combined", k, b, m, s, TRUE, FALSE) :
                k \in 0 .. 2, b \in {0, 1, 4}, m \in 0 .. 3, s \in BOOLEAN}
Lookalikes == {Writing(l, 1, 4, 1, FALSE, c, TRUE) : l \in {"combined", "stream2"}, c \in BOOLEAN}
Stream2s == {Writing("stream2", k, b, 0, FALSE, TRUE, FALSE) : k \in 0 .. 2, b \in {0, 1, 4}}

MCLengths == 0 .. 5 \cup {9}

Intact == {Written(w, 1) : w \in Combined \cup Lookalikes \cup Stream2s}

IntactOrDamaged == Intact \cup UNION {Damages(f, MCLengths) : f \in Intact}

\* A few files of which any may turn into any other.
Changing == LET f == Written(Writing("combined", 1, 1, 1, TRUE, TRUE, FALSE), 2)
                g == Written(Writing("combined", 1, 4, 0, FALSE, TRUE, TRUE), 3)
                h == Written(Writing("stream2", 1, 0, 0, FALSE, TRUE, FALSE), 4)
            IN {f, g, h} \cup Damages(f, {0, 1, 9}) \cup Damages(h, {0, 2, 3, 9})

MCFiles == IntactOrDamaged \cup Changing
=============================================================================
