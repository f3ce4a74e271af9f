------------------------------ MODULE Selection ------------------------------
(***************************************************************************)
(* Lists and dictionaries: the parts of a list, by position, as a list     *)
(* comprehension with a condition makes them, and a dictionary on top of   *)
(* another.                                                                *)
(***************************************************************************)
EXTENDS Naturals, SequencesExt

IsList(s) == s \in Seq(ToSet(s))

(* The elements of s at some of its positions, in their order.              *)
Kept(s, positions) ==
    LET kept[n \in 0 .. Len(s)] ==
            IF n = 0 THEN <<>>
            ELSE LET before == kept[n - 1] IN IF n \in positions THEN Append(before, s[n]) ELSE before
    IN  kept[Len(s)]

FirstItems(s, count) == SubSeq(s, 1, IF Len(s) < count THEN Len(s) ELSE count)

(* A record or dictionary and what another one has besides.                *)
Joined(f, g) == [x \in DOMAIN f \cup DOMAIN g |-> IF x \in DOMAIN f THEN f[x] ELSE g[x]]
=============================================================================
