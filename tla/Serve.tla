------------------------------- MODULE Serve -------------------------------
(***************************************************************************)
(* The two handlers of xetd that read an object, on one key: xorb_data,    *)
(* which serves a byte range, and the body of test_scrub's loop, which     *)
(* reads the object in full and validates it.  Both first ask the store    *)
(* for the object's length and then for the bytes; between the two awaits  *)
(* the object may be put, deleted, or damaged.                             *)
(*                                                                         *)
(* An object is read as a sequence of page numbers, one byte per page; a   *)
(* page that was never written, or has gone bad, reads as Hole.            *)
(***************************************************************************)
EXTENDS Backends, Ranges, FiniteSetsExt

CONSTANTS Reader,       \* concurrent requests
          ReadFaults    \* the failures of reads this instance exhibits

ASSUME ServeAssumption == ReadFaults \subseteq {"rot", "read_error"}

VARIABLES
    rotten,     \* the stored local file has gone bad on disk
    rpc,        \* per reader: "idle", or what it awaits: "head" or "get"
    rkind,      \* per reader: "data" or "scrub", the handler it runs
    header,     \* per reader: the Range header
    len,        \* per reader: the length the head answered
    reply,      \* per reader: what the handler answered last
    calm        \* history, per reader: since the request began the object has
                \* not changed and no request to the store has failed

readVars == <<rpc, rkind, header, len, reply, calm>>
serveVars == <<backendVars, rotten, readVars>>

Hole == 0

\* What a client may send: no header, or one with numbers around the size of
\* the object, at the end of the u64 range, or none at all.
Headers == {NoRange} \cup [start : 0..NPages \cup {U64 - 1, Unparsed},
                           end : 0..NPages \cup {U64 - 1, Unparsed, OpenEnd}]

Whole == [k \in Page |-> k]

\* The bytes a read of the object gets.
Bytes ==
    LET pages == IF rotten THEN Stored \ {1} ELSE Stored
    IN  [k \in 1..Max(Stored \cup {0}) |-> IF k \in pages THEN k ELSE Hole]

NoReply == [status |-> 0]

ServeTypeOK ==
    /\ BackendsTypeOK
    /\ rotten \in BOOLEAN
    /\ rotten => path # None
    /\ rpc \in [Reader -> {"idle", "head", "get"}]
    /\ rkind \in [Reader -> {"data", "scrub"}]
    /\ header \in [Reader -> Headers]
    /\ len \in [Reader -> 0..NPages]
    /\ calm \in [Reader -> BOOLEAN]

ServeInit ==
    /\ BackendsInit
    /\ rotten = FALSE
    /\ rpc = [r \in Reader |-> "idle"]
    /\ rkind = [r \in Reader |-> "data"]
    /\ header = [r \in Reader |-> NoRange]
    /\ len = [r \in Reader |-> 0]
    /\ reply = [r \in Reader |-> NoReply]
    /\ calm = [r \in Reader |-> FALSE]

-----------------------------------------------------------------------------
(* The requests *)

\* GET /xorb-data, or a scrub whose list of xorbs has the key.
Ask(r, kind, h) ==
    /\ rpc[r] = "idle"
    /\ kind = "scrub" => h = NoRange
    /\ rpc' = [rpc EXCEPT ![r] = "head"]
    /\ rkind' = [rkind EXCEPT ![r] = kind]
    /\ header' = [header EXCEPT ![r] = h]
    /\ len' = [len EXCEPT ![r] = 0]
    /\ reply' = [reply EXCEPT ![r] = NoReply]
    /\ calm' = [calm EXCEPT ![r] = TRUE]
    /\ UNCHANGED <<backendVars, rotten>>

Answered(r, a) ==
    /\ rpc' = [rpc EXCEPT ![r] = "idle"]
    /\ reply' = [reply EXCEPT ![r] = a]

Quarantined == [status |-> 200, quarantined |-> 1]
Sound == [status |-> 200, quarantined |-> 0]

\* A store request fails, or the object is not there: xorb_data answers with
\* `status', the scrub counts the xorb as quarantined.
GiveUp(r, status) ==
    Answered(r, IF rkind[r] = "scrub" THEN Quarantined ELSE [status |-> status])

Waiting(r) == rpc[r] # "idle"

\* head finds no object, or get_range does not find it any more.
Missing(r) ==
    /\ Waiting(r)
    /\ Stored = None
    /\ GiveUp(r, IF rpc[r] = "head" THEN 404 ELSE 500)
    /\ UNCHANGED <<backendVars, rotten, rkind, header, len, calm>>

\* head finds the object, but the range is not satisfiable.
Refused(r) ==
    /\ rpc[r] = "head"
    /\ Stored # None
    /\ rkind[r] = "data"
    /\ ParseRange(header[r], Len(Bytes)) = NoRange
    /\ Answered(r, [status |-> 416])
    /\ UNCHANGED <<backendVars, rotten, rkind, header, len, calm>>

Found(r) ==
    /\ rpc[r] = "head"
    /\ Stored # None
    /\ rkind[r] = "data" => ParseRange(header[r], Len(Bytes)) # NoRange
    /\ rpc' = [rpc EXCEPT ![r] = "get"]
    /\ len' = [len EXCEPT ![r] = Len(Bytes)]
    /\ UNCHANGED <<backendVars, rotten, rkind, header, reply, calm>>

\* The range that was made of the header when the length was known.
Asked(r) == ParseRange(header[r], len[r])

\* validate_xorb_object: the bytes are those the key is the hash of.
Valid(d) == d = Whole

\* A plausible slip: the scrub looks at the length only.
VerdictByLength(r, d) ==
    IF rkind[r] = "scrub"
       THEN IF Len(d) = NPages THEN Sound ELSE Quarantined
       ELSE [status |-> 206, range |-> Asked(r), total |-> len[r], body |-> d]

Verdict(r, d) ==
    IF rkind[r] = "scrub"
       THEN IF Valid(d) THEN Sound ELSE Quarantined
       ELSE [status |-> 206, range |-> Asked(r), total |-> len[r], body |-> d]

\* blob.get_range.  (S3 refuses a range that starts behind the end; an object
\* that is complete whenever it is there never sees one.)
Fetched(r) ==
    /\ rpc[r] = "get"
    /\ Stored # None
    /\ Answered(r, Verdict(r, GetRange(Bytes, Asked(r).start, Asked(r).end)))
    /\ UNCHANGED <<backendVars, rotten, rkind, header, len, calm>>

\* head fails (404) or get_range does (500), although the object may be there.
ReadError(r) ==
    /\ "read_error" \in ReadFaults
    /\ Waiting(r)
    /\ GiveUp(r, IF rpc[r] = "head" THEN 404 ELSE 500)
    /\ calm' = [calm EXCEPT ![r] = FALSE]
    /\ UNCHANGED <<backendVars, rotten, rkind, header, len>>

-----------------------------------------------------------------------------
(* The store meanwhile *)

\* Bytes of the file change on disk.
Rot ==
    /\ "rot" \in ReadFaults
    /\ backend = "local_fs"
    /\ path # None
    /\ rotten' = TRUE
    /\ calm' = [r \in Reader |-> FALSE]
    /\ UNCHANGED <<backendVars, rpc, rkind, header, len, reply>>

\* A put, a collection or a failure of module Backends.  A file that leaves its
\* place takes its damage with it.
StoreStep ==
    /\ BackendsNext
    /\ rotten' = (rotten /\ path' = path)
    /\ calm' = [r \in Reader |-> calm[r] /\ Stored' = Stored]
    /\ UNCHANGED <<rpc, rkind, header, len, reply>>

ServeNext ==
    \/ StoreStep
    \/ Rot
    \/ \E r \in Reader : Missing(r) \/ Refused(r) \/ Found(r) \/ Fetched(r) \/ ReadError(r)
    \/ \E r \in Reader, kind \in {"data", "scrub"}, h \in Headers : Ask(r, kind, h)

ServeSpec == ServeInit /\ [][ServeNext]_serveVars /\ BackendsFairness

-----------------------------------------------------------------------------
\* Whether the header asks for bytes of an object of NPages bytes.
Satisfiable(h) ==
    h = NoRange \/ \E k \in 0..(NPages - 1) : h.start = k /\ h.end # Unparsed /\ h.end >= k

\* A range that is served is exactly as long as its Content-Range says, lies
\* inside the object, begins where the header says, ends where it says or at
\* the end of the object, and holds the object's bytes at those places (but for
\* bytes that went bad), although length and bytes are read at different times.
\* (xorb_data, parse_range, get_range; url_range is end-inclusive.)
RangeReplyExact ==
    \A r \in Reader : reply[r].status = 206 =>
        LET h == header[r]
            start == reply[r].range.start
            end == reply[r].range.end
            body == reply[r].body
        IN  /\ Satisfiable(h)
            /\ h # NoRange => start = h.start /\ end <= h.end
            /\ h # NoRange /\ h.end >= NPages => end = NPages - 1
            /\ h # NoRange /\ h.end < NPages => end = h.end
            /\ h = NoRange => start = 0 /\ end = NPages - 1
            /\ reply[r].total = NPages
            /\ Len(body) = end - start + 1
            /\ \A k \in 1..Len(body) : body[k] \in {start + k, Hole}

\* A request that nothing happens to gets the bytes, if they exist.  (The 404
\* and 416 of xorb_data are for objects and ranges that do not.)
CalmRangeIsServed ==
    [][\A r \in Reader :
         /\ rkind[r] = "data" /\ Waiting(r) /\ rpc'[r] = "idle" /\ calm[r] /\ calm'[r]
         /\ Stored # None /\ Satisfiable(header[r])
         => reply'[r].status = 206]_serveVars

\* The verdict of a scrub: a xorb that passes is intact when the scrub has read
\* it, and one that is quarantined although nothing happened meanwhile, is not.
\* (test_scrub: "re-verify each stored xorb's Merkle root; count mismatches as
\* quarantined".)
ScrubVerdict ==
    [][\A r \in Reader :
         rkind[r] = "scrub" /\ Waiting(r) /\ rpc'[r] = "idle" =>
           LET intact == Stored # None /\ Bytes = Whole
           IN  /\ reply'[r] = Sound => intact
               /\ reply'[r] = Quarantined /\ calm[r] /\ calm'[r] => ~intact]_serveVars
=============================================================================
