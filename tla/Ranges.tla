------------------------------- MODULE Ranges -------------------------------
(***************************************************************************)
(* Byte ranges: what parse_range makes of a Range header, and what         *)
(* get_range cuts out of an object.  Offsets are 0-based and both ends of  *)
(* a range are inclusive; byte number i of an object d is d[i + 1].        *)
(***************************************************************************)
EXTENDS Integers, Sequences

CONSTANTS U64,          \* the number of values of a u64
          NoRange       \* no range: the header is absent, or is refused

ASSUME RangesAssumption ==
    /\ U64 \in Nat \ {0}
    /\ NoRange \notin [start : Nat, end : Nat]

\* What stands where a header should have a number, if it is no u64, and for
\* an end that is left out (`bytes=START-').
Unparsed == U64
OpenEnd == U64 + 1

Least(m, n) == IF m < n THEN m ELSE n

\* total.saturating_sub(1)
LastByte(total) == IF total = 0 THEN 0 ELSE total - 1

EndOf(h, total) == IF h.end = OpenEnd THEN LastByte(total) ELSE h.end

\* A plausible slip: the end is not clipped to the object.
ParseRangeUnclipped(h, total) ==
    IF h = NoRange THEN [start |-> 0, end |-> LastByte(total)]
    ELSE IF \/ Unparsed \in {h.start, h.end}
            \/ h.start > EndOf(h, total)
            \/ h.start >= total
         THEN NoRange
         ELSE [start |-> h.start, end |-> EndOf(h, total)]

\* A plausible slip: the object's last byte counts as outside.
ParseRangeShort(h, total) ==
    IF h = NoRange THEN [start |-> 0, end |-> LastByte(total)]
    ELSE IF \/ Unparsed \in {h.start, h.end}
            \/ h.start > EndOf(h, total)
            \/ h.start >= LastByte(total)
         THEN NoRange
         ELSE [start |-> h.start, end |-> Least(EndOf(h, total), LastByte(total))]

\* parse_range, against an object of `total' bytes.
ParseRange(h, total) ==
    IF h = NoRange THEN [start |-> 0, end |-> LastByte(total)]
    ELSE IF \/ Unparsed \in {h.start, h.end}
            \/ h.start > EndOf(h, total)
            \/ h.start >= total
         THEN NoRange
         ELSE [start |-> h.start, end |-> Least(EndOf(h, total), LastByte(total))]

\* LocalFsBlobStore::get_range.  The addition in `end as usize + 1' wraps.
GetRange(d, start, end) ==
    SubSeq(d, Least(start, Len(d)) + 1, Least((end + 1) % U64, Len(d)))
=============================================================================
