---------------------------- MODULE Reconstruct ----------------------------
(***************************************************************************)
(* Readers (xet_agent::reconstruct) beside the agents, collectors and      *)
(* failures of module Ingest.  A reader asks the server once for the       *)
(* file's reconstruction plan and then fetches one byte range per term;    *)
(* the plan is a snapshot, and anything may happen to the index and to the *)
(* blobs between the requests.  The blob store is LocalFs's, so the ranges *)
(* are served by xetd itself (module Ranges).                              *)
(***************************************************************************)
EXTENDS Ingest, Ranges, SequencesExt

CONSTANTS Reader,
          Packed        \* length of a chunk inside a serialized xorb: header
                        \* and compressed data

ASSUME ReconstructAssumption == Packed \in [Chunk -> Nat \ {0}]

VARIABLES
    rfile,      \* the file hash asked for; None before the first read and
                \* after one that failed
    plan,       \* terms of the server's answer; fetch_info holds one entry per
                \* term, in the same order
    out         \* chunks reassembled so far, one sequence per term done

readerVars == <<rfile, plan, out>>
allVars == <<vars, readerVars>>

\* Every variable keeps its type, and no more terms are done than planned.
ReaderTypeOK ==
    /\ rfile \in [Reader -> Contents \cup {None}]
    /\ plan \in [Reader -> Seq(Term)]
    /\ out \in [Reader -> Seq(Seq(Chunk))]
    /\ \A r \in Reader : Len(out[r]) <= Len(plan[r])

ReaderInit ==
    /\ Init
    /\ rfile = [r \in Reader |-> None]
    /\ plan = [r \in Reader |-> <<>>]
    /\ out = [r \in Reader |-> <<>>]

-----------------------------------------------------------------------------
\* Reader r is inside the loop over the terms.  After the last term it returns
\* without a further request.
Fetching(r) == Len(out[r]) < Len(plan[r])

\* The server's reconstruct: 404 for an unknown file, 500 if a term's xorb is
\* not indexed, otherwise the terms as registered.
Resolvable(f) == f \in Registered /\ XorbsOf(files[f]) \subseteq xorbs

\* A plausible slip: the buffer of the last read is not cleared.
QueryPlanKeepingOut(r, f) ==
    /\ ~Fetching(r)
    /\ Resolvable(f)
    /\ rfile' = [rfile EXCEPT ![r] = f]
    /\ plan' = [plan EXCEPT ![r] = files[f]]
    /\ UNCHANGED <<vars, out>>

QueryPlan(r, f) ==
    /\ ~Fetching(r)
    /\ Resolvable(f)
    /\ rfile' = [rfile EXCEPT ![r] = f]
    /\ plan' = [plan EXCEPT ![r] = files[f]]
    /\ out' = [out EXCEPT ![r] = <<>>]
    /\ UNCHANGED vars

ReadFails(r) ==
    /\ rfile' = [rfile EXCEPT ![r] = None]
    /\ plan' = [plan EXCEPT ![r] = <<>>]
    /\ out' = [out EXCEPT ![r] = <<>>]
    /\ UNCHANGED vars

PlanRefused(r, f) ==
    /\ ~Fetching(r)
    /\ ~Resolvable(f)
    /\ ReadFails(r)

\* fetch_info's entry e holds the chunks of term t.
Covers(e, t) == e.xorb = t.xorb /\ e.start <= t.start /\ e.end >= t.end

\* entries.iter().find(..): the first covering entry, which may be that of an
\* earlier, longer term.
EntryFor(ts, k) ==
    CHOOSE i \in 1..Len(ts) : /\ Covers(ts[i], ts[k])
                              /\ \A h \in 1..(i - 1) : ~Covers(ts[h], ts[k])

\* The entry fetched for the next term.
NextEntry(r) == plan[r][EntryFor(plan[r], Len(out[r]) + 1)]

-----------------------------------------------------------------------------
(* Bytes of a serialized xorb *)

\* A chunk's bytes, and a sequence of chunks laid end to end.
PackedBytes(cs) == FlattenSeq([k \in 1..Len(cs) |-> [n \in 1..Packed[cs[k]] |-> <<cs[k], n>>]])

\* The object put_xorb stored: the chunks and, after them, the footer.
Serialized(x) == PackedBytes(x) \o <<<<None, 1>>>>

\* info.chunk_boundary_offsets[n - 1]: where the first n chunks of x end.
BoundaryOffset(x, n) ==
    LET ends[k \in 0..Len(x)] == IF k = 0 THEN 0 ELSE ends[k - 1] + Packed[x[k]]
    IN  ends[n]

ByteStart(e) == IF e.start = 0 THEN 0 ELSE BoundaryOffset(e.xorb, e.start)

\* A plausible slip: the end leaves out the last chunk's last byte.
ByteEndShort(e) == BoundaryOffset(e.xorb, e.end) - 2

\* Inclusive.
ByteEnd(e) == BoundaryOffset(e.xorb, e.end) - 1

\* The body of xorb_data's answer for entry e.  The answers without a range of
\* the object (404, 416) have no body.
Body(e) ==
    LET object == Serialized(e.xorb)
        range == ParseRange([start |-> ByteStart(e), end |-> ByteEnd(e)], Len(object))
    IN  IF e.xorb \notin blobs \/ range = NoRange
           THEN <<>> ELSE GetRange(object, range.start, range.end)

\* A plausible slip: every chunk of the fetched range is taken.
DecodeWholeEntry(body, t) ==
    {cs \in UNION {[1..n -> Chunk] : n \in 1..MaxXorbChunks} : body = PackedBytes(cs)}

\* `for _ in start..end' takes as many chunks from the beginning of the body
\* as the term is wide; it does not skip the ones before the term's own.
Decode(body, t) == {cs \in [1..Width(t) -> Chunk] : IsPrefix(PackedBytes(cs), body)}

\* What the next term decodes to; empty if deserialize_chunk fails.
Decoded(r) == Decode(Body(NextEntry(r)), plan[r][Len(out[r]) + 1])

FetchTerm(r) ==
    /\ Fetching(r)
    /\ \E cs \in Decoded(r) : out' = [out EXCEPT ![r] = Append(@, cs)]
    /\ UNCHANGED <<vars, rfile, plan>>

\* The reader does not look at the status; deserialize_chunk fails if the body
\* ends too early.
FetchUndecodable(r) ==
    /\ Fetching(r)
    /\ Decoded(r) = {}
    /\ ReadFails(r)

ReaderNext ==
    \/ Next /\ UNCHANGED readerVars
    \/ \E r \in Reader, f \in Contents : QueryPlan(r, f) \/ PlanRefused(r, f)
    \/ \E r \in Reader : FetchTerm(r) \/ FetchUndecodable(r)

ReaderSpec == ReaderInit /\ [][ReaderNext]_allVars

-----------------------------------------------------------------------------
Returned(r) == rfile[r] # None /\ ~Fetching(r)

\* Term k of a plan is read from its own place: the entry that find() picks
\* starts where the term starts.
Aligned(ts, k) == ts[EntryFor(ts, k)].start = ts[k].start

\* A read that returns has the length of the file, and each term that is read
\* from its own place contributes exactly the file's chunks at that place,
\* whatever re-registrations, collections and restarts happened since the
\* plan was made.  (xet_agent::reconstruct over register_file.)
AlignedReadExact ==
    \A r \in Reader : Returned(r) =>
        LET width(k) == Len(out[r][k])
            at(k) == plan[r][k].at
        IN  /\ plan[r] = <<>> => rfile[r] = <<>>
            /\ \A k \in 1..Len(plan[r]) :
                 /\ k = 1 => at(k) = 0
                 /\ at(k) + width(k) = IF k = Len(plan[r]) THEN Len(rfile[r]) ELSE at(k + 1)
                 /\ Aligned(plan[r], k) =>
                      out[r][k] = SubSeq(rfile[r], at(k) + 1, at(k) + width(k))

\* A read under way fails only if the object it asks for is gone: whichever
\* entry find() picked, the byte range computed from the chunk offsets, clipped
\* by parse_range and cut by get_range holds the whole of the term's chunks.
\* (reconstruct of xetd, parse_range, get_range, reconstruct of xet_agent.)
FailsOnlyIfMissing ==
    [][\A r \in Reader :
         Fetching(r) /\ rfile'[r] = None => NextEntry(r).xorb \notin blobs]_allVars

\* A read that returns, returns the file.  (m0_core_cas.rs: "ingest ->
\* reconstruct is byte-identical".)
ReadExact ==
    \A r \in Reader : Returned(r) => FlattenSeq(out[r]) = rfile[r]
=============================================================================
