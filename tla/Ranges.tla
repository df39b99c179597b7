-------------------------------- MODULE Ranges --------------------------------
(***************************************************************************)
(* The ranges of a masking or a redaction: lists of first and last         *)
(* positions, as the client sends them and the database keeps them, and    *)
(* the arithmetic on them.  The client sends them by their start, and the   *)
(* joining relies on it.                                                   *)
(***************************************************************************)
EXTENDS Naturals, Sequences, SequencesExt

Range_(start, end) == [start |-> start, end |-> end]
Lists == Seq([start : Nat, end : Nat])
Sorted(list) == \A i, j \in DOMAIN list : i < j => list[i].start <= list[j].start
Covered(list) == UNION {r.start .. r.end : r \in Range(list)}

\* validate_ranges: each of the new ranges is within one of the current.
Within(current, new) ==
    \A n \in Range(new) : \E c \in Range(current) :
      c.start <= n.start /\ n.start <= n.end /\ n.end <= c.end

\* A range that meets the one before is joined to it.
Join(done, r) ==
    IF done # << >> /\ r.start <= Last(done).end + 1
    THEN Append(Front(done), Range_(Last(done).start, IF r.end > Last(done).end THEN r.end ELSE Last(done).end))
    ELSE Append(done, r)

\* One pass over a list
Joined(list) ==
    LET done[i \in 0 .. Len(list)] == IF i = 0 THEN << >> ELSE Join(done[i - 1], list[i])
    IN done[Len(list)]

\* A range goes after those that start before it or where it does.
Place(done, r) ==
    LET before == CHOOSE k \in 0 .. Len(done) :
                    /\ \A i \in 1 .. k : done[i].start <= r.start
                    /\ \A i \in k + 1 .. Len(done) : done[i].start > r.start
    IN InsertAt(done, before + 1, r)

ByStart(list) ==
    LET done[i \in 0 .. Len(list)] == IF i = 0 THEN << >> ELSE Place(done[i - 1], list[i])
    IN done[Len(list)]

\* merge_and_sort_ranges
Merged(one, two) == Joined(ByStart(one \o Joined(two)))

\* What is left of a range outside another
Outside(r, n) ==
    IF n.end < r.start \/ n.start > r.end THEN <<r>>
    ELSE (IF n.start > r.start THEN <<Range_(r.start, n.start - 1)>> ELSE << >>)
         \o (IF n.end < r.end THEN <<Range_(n.end + 1, r.end)>> ELSE << >>)

Cut(list, n) ==
    LET done[i \in 0 .. Len(list)] == IF i = 0 THEN << >> ELSE done[i - 1] \o Outside(list[i], n)
    IN done[Len(list)]

\* get_new_temporary_redaction: what is left of the current ranges.
Left(current, new) ==
    LET result[i \in 0 .. Len(new)] == IF i = 0 THEN current ELSE Cut(result[i - 1], new[i])
    IN Merged(result[Len(new)], << >>)

\* redact_content: the positions left in clear, of those that are there.
Masked(clear, list) == clear \ Covered(list)
=============================================================================
