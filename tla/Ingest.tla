------------------------------- MODULE Ingest -------------------------------
(***************************************************************************)
(* Agents (xet_agent::ingest_bytes) against the server of module Xetd.     *)
(* An agent is a sequential, blocking HTTP client: it first asks the dedup *)
(* index about every chunk, one request each; then walks its chunk list,   *)
(* pushing a term per run of hits and uploading a xorb per run of novel    *)
(* chunks; then registers the file.  Between any two requests, and inside  *)
(* a put, other agents, collectors and failures take steps.                *)
(***************************************************************************)
EXTENDS Xetd

VARIABLES
    pc,         \* "run" inside ingest_bytes; otherwise how the last call ended:
                \* "ok" (also before the first), "refused" (a 400) or "failed"
    content,    \* the file being ingested, as its chunk list
    dest,       \* its catalog key
    locs,       \* answers to the dedup queries so far
    pos,        \* loop variable i of the walk
    terms       \* terms pushed so far

agentVars == <<pc, content, dest, locs, pos, terms>>
vars == <<xetdVars, agentVars>>

\* Every variable keeps its type, and the local variables of a running
\* ingest_bytes stay within its chunk list.
TypeOK ==
    /\ XetdTypeOK
    /\ pc \in [Client -> {"ok", "run", "refused", "failed"}]
    /\ content \in [Client -> Contents \cup {None}]
    /\ dest \in [Client -> Path \cup {None}]
    /\ locs \in [Client -> Seq(Loc \cup {None})]
    /\ pos \in [Client -> Nat]
    /\ terms \in [Client -> Seq(Term)]
    /\ \A a \in Client : pc[a] = "run" => /\ content[a] # None
                                         /\ dest[a] # None
                                         /\ Len(locs[a]) <= Len(content[a])
                                         /\ pos[a] <= Len(content[a])

Init ==
    /\ XetdInit
    /\ pc = [a \in Client |-> "ok"]
    /\ content = [a \in Client |-> None]
    /\ dest = [a \in Client |-> None]
    /\ locs = [a \in Client |-> <<>>]
    /\ pos = [a \in Client |-> 0]
    /\ terms = [a \in Client |-> <<>>]

-----------------------------------------------------------------------------
(* ingest_bytes *)

Querying(a) == pc[a] = "run" /\ Len(locs[a]) < Len(content[a])
Walking(a)  == pc[a] = "run" /\ Len(locs[a]) = Len(content[a]) /\ ~InPut(a)

StartIngest(a, f, p) ==
    /\ pc[a] # "run"
    /\ pc' = [pc EXCEPT ![a] = "run"]
    /\ content' = [content EXCEPT ![a] = f]
    /\ dest' = [dest EXCEPT ![a] = p]
    /\ terms' = [terms EXCEPT ![a] = <<>>]
    /\ UNCHANGED <<xetdVars, locs, pos>>

\* query_chunk for the next chunk of the list.
QueryChunk(a) ==
    /\ Querying(a)
    /\ locs' = [locs EXCEPT ![a] = Append(@, GlobalDedup(content[a][Len(@) + 1]))]
    /\ UNCHANGED <<xetdVars, pc, content, dest, pos, terms>>

\* terms.push(..); i = j
PushTerm(a, x, s, e) ==
    /\ terms' = [terms EXCEPT ![a] = Append(@, [xorb |-> x, start |-> s, end |-> e, at |-> pos[a]])]
    /\ pos' = [pos EXCEPT ![a] = @ + (e - s)]

\* A run of hits becomes a reference to the xorb that holds it.
WalkHit(a) ==
    /\ Walking(a)
    /\ \E j \in (pos[a] + 1)..Len(content[a]) :
          /\ HitRun(locs[a], pos[a], j)
          /\ LET l == locs[a][pos[a] + 1]
             IN  PushTerm(a, l.xorb, l.index, l.index + (j - pos[a]))
    /\ UNCHANGED <<xetdVars, pc, content, dest, locs>>

\* A run of novel chunks is packed and uploaded.  If the server finds the blob
\* the reply comes at once.
UploadXorb(a) ==
    /\ Walking(a)
    /\ \E j \in (pos[a] + 1)..Len(content[a]) :
          /\ NovelRun(content[a], locs[a], pos[a], j)
          /\ LET x == SubSeq(content[a], pos[a] + 1, j)
             IN  \/ PutXorbFound(a, x) /\ PushTerm(a, x, 0, Len(x))
                 \/ PutXorbMissed(a, x) /\ UNCHANGED <<terms, pos>>
    /\ UNCHANGED <<pc, content, dest, locs>>

UploadStored(a) ==
    /\ PutXorbStored(a)
    /\ UNCHANGED agentVars

\* The reply is was_inserted = false; the agent does not look at it.
UploadGivesWay(a) ==
    /\ PutXorbGivesWay(a)
    /\ PushTerm(a, storing[a], 0, Len(storing[a]))
    /\ UNCHANGED <<pc, content, dest, locs>>

UploadIndexed(a) ==
    /\ PutXorbIndex(a)
    /\ PushTerm(a, putting[a], 0, Len(putting[a]))
    /\ UNCHANGED <<pc, content, dest, locs>>

\* A plausible slip: the answers of one ingest are carried over to the next.
ReturnKeepingLocs(a, outcome) ==
    /\ pc' = [pc EXCEPT ![a] = outcome]
    /\ content' = [content EXCEPT ![a] = IF outcome = "refused" THEN @ ELSE None]
    /\ dest' = [dest EXCEPT ![a] = None]
    /\ pos' = [pos EXCEPT ![a] = 0]
    /\ terms' = [terms EXCEPT ![a] = IF outcome = "refused" THEN @ ELSE <<>>]
    /\ UNCHANGED locs

\* ingest_bytes returns: its locals die, but for what a refusal was about,
\* which the properties look at.
Return(a, outcome) ==
    /\ pc' = [pc EXCEPT ![a] = outcome]
    /\ content' = [content EXCEPT ![a] = IF outcome = "refused" THEN @ ELSE None]
    /\ dest' = [dest EXCEPT ![a] = None]
    /\ locs' = [locs EXCEPT ![a] = <<>>]
    /\ pos' = [pos EXCEPT ![a] = 0]
    /\ terms' = [terms EXCEPT ![a] = IF outcome = "refused" THEN @ ELSE <<>>]

AtRegister(a) == Walking(a) /\ pos[a] = Len(content[a])

Register(a) ==
    /\ AtRegister(a)
    /\ RegisterFile(content[a], dest[a], terms[a])
    /\ Return(a, "ok")

\* A plausible slip: the catalog entry is made before the terms are checked.
RegisterRefusedNamed(a) ==
    /\ AtRegister(a)
    /\ ~Registrable(terms[a])
    /\ catalog' = [catalog EXCEPT ![dest[a]] = content[a]]
    /\ Return(a, "refused")
    /\ UNCHANGED <<blobs, xorbs, files, chunk_index, put, gc>>

RegisterRefused(a) ==
    /\ AtRegister(a)
    /\ ~Registrable(terms[a])
    /\ Return(a, "refused")
    /\ UNCHANGED xetdVars

\* A request fails or times out before the server has acted on it, or in the
\* middle of a put, or the put is answered with a 500; `?' ends the ingest.
RequestLost(a) ==
    /\ "request_lost" \in Faults
    /\ pc[a] = "run"
    /\ Return(a, "failed")
    /\ PutXorbDropped(a)

\* The registration takes effect and its reply is lost.
RegisterReplyLost(a) ==
    /\ "request_lost" \in Faults
    /\ AtRegister(a)
    /\ RegisterFile(content[a], dest[a], terms[a])
    /\ Return(a, "failed")

\* The agents whose put was in flight fail; the others have no request at the
\* server and go on with what they learned from the old process.
ServerRestart ==
    /\ Restart
    /\ pc' = [a \in Client |-> IF InPut(a) THEN "failed" ELSE pc[a]]
    /\ content' = [a \in Client |-> IF InPut(a) THEN None ELSE content[a]]
    /\ dest' = [a \in Client |-> IF InPut(a) THEN None ELSE dest[a]]
    /\ locs' = [a \in Client |-> IF InPut(a) THEN <<>> ELSE locs[a]]
    /\ pos' = [a \in Client |-> IF InPut(a) THEN 0 ELSE pos[a]]
    /\ terms' = [a \in Client |-> IF InPut(a) THEN <<>> ELSE terms[a]]

-----------------------------------------------------------------------------
AgentStep(a) ==
    \/ QueryChunk(a)
    \/ WalkHit(a)
    \/ UploadXorb(a)
    \/ UploadStored(a)
    \/ UploadGivesWay(a)
    \/ UploadIndexed(a)
    \/ Register(a)
    \/ RegisterRefused(a)

SweepStep(g) ==
    /\ \/ \E x \in todo[g] : GcDelete(g, x) \/ GcDeleteFails(g, x)
       \/ GcForget(g)
    /\ UNCHANGED agentVars

Mark(g) == GcMark(g) /\ UNCHANGED agentVars

\* POST /test/gc comes in, or its connection goes away.
GcRequest(g) ==
    /\ GcMark(g) \/ GcDropped(g)
    /\ UNCHANGED agentVars

Land(x) == StrayLands(x) /\ UNCHANGED agentVars

Fault ==
    \/ \E a \in Client : RequestLost(a) \/ RegisterReplyLost(a)
    \/ \E x \in stray : Land(x)
    \/ ServerRestart

Next ==
    \/ \E a \in Client, f \in Contents, p \in Path : StartIngest(a, f, p)
    \/ \E a \in Client : AgentStep(a)
    \/ \E g \in Collector : GcRequest(g) \/ SweepStep(g)
    \/ Fault

\* The runtime polls every ready handler and a blocking client goes on when
\* its reply arrives; nobody is obliged to start an ingest or a collection.
Fairness ==
    /\ \A a \in Client : WF_vars(AgentStep(a))
    /\ \A g \in Collector : WF_vars(SweepStep(g))

Spec == Init /\ [][Next]_vars /\ Fairness

\* The same system in which every client calls ingest_bytes again after each
\* return.
RetrySpec ==
    Spec /\ \A a \in Client, f \in Contents, p \in Path : WF_vars(StartIngest(a, f, p))

\* The same system in which collections are requested again and again; a client
\* may give up after a failure.
CollectSpec == Spec /\ \A g \in Collector : WF_vars(Mark(g))

-----------------------------------------------------------------------------
(* Safety *)

\* The dedup index never misleads: an entry names a xorb that is still
\* indexed and in which that very chunk sits at that very index, whatever
\* collections and restarts did to the index in between.
\* (Index::index_chunks, the retain of test_gc, global_dedup.)
ChunkIndexSound ==
    \A c \in Chunk : chunk_index[c] # None =>
        /\ chunk_index[c].xorb \in xorbs
        /\ Locates(chunk_index[c], c)

\* The registered terms of a file spell out exactly that file, although they
\* were pieced together from answers given at different times, over uploads
\* of other agents and over re-registrations; in particular no term reaches
\* past its xorb's boundary offsets, which would panic the handler that
\* resolves it and poison the index mutex.  (ingest_bytes, register_file,
\* and the unchecked boundary_offsets lookups of reconstruct.)
FilesDenote == \A f \in Registered : Tiles(files[f], f, Len(f))

\* Every registered file can be read back: all its xorbs are indexed and
\* stored.  (register_file's ordering check; "referenced file must survive
\* GC".)
FilesIntact == \A f \in Registered : Intact(f)

\* A xorb that somebody relies on is in the store: x is there, or a collection
\* is between its blob.delete of x and its index removal.
StoredOrGoing(x) == x \in blobs \/ \E g \in Collector : deleted[g] = x

\* An indexed xorb is stored, except while a collection is between its
\* blob.delete and its index removal, provided that every blob.put of it kept
\* the trait's word, "`true` if newly written".  Two overlapping puts may both
\* answer true; then one can index the xorb, a collection delete and forget it,
\* and the other index it again.  (put_xorb's store-then-index order against
\* test_gc's delete-then-forget order.)
IndexedIsStored == \A x \in xorbs \ doubled : StoredOrGoing(x)

\* Cloning is free: every chunk of a file that is stored in full is known to
\* the dedup index, so that ingesting the content again uploads nothing.
\* (index_chunks; README "cloning identical content uploads nothing".)
CloneIsFree ==
    \A f \in Registered :
        Intact(f) => \A k \in 1..Len(f) : chunk_index[f[k]] # None

-----------------------------------------------------------------------------
(* The store as its users see it *)

\* The files whose terms can all be fetched and spell them out.
Readable == {f \in Registered : Intact(f) /\ Tiles(files[f], f, Len(f))}

Store == INSTANCE FileStore WITH readable <- Readable

\* Without collections the server and its agents implement FileStore: a file
\* becomes readable in the very step that puts its name into the catalog, no
\* other step of an upload, a dedup query, a refused registration or a lost
\* request shows, and only a restart takes anything back.
ImplementsFileStore == Store!Spec

-----------------------------------------------------------------------------
(* Action properties *)

Spared(f) ==
    /\ f \in Registered
    /\ Intact(f)
    /\ \A x \in XorbsOf(files[f]) : ~Condemned(x)

\* Once a file is intact and none of its xorbs is on any collector's list, no
\* step of anybody takes that away, as long as its record is not replaced:
\* collections spare what is referenced when they mark.  (test_gc.)
SparedStaysSpared ==
    [][\A f \in Contents : Spared(f) /\ files'[f] = files[f] => Spared(f)']_vars

-----------------------------------------------------------------------------
(* Liveness *)

\* Every call of ingest_bytes returns: the walk always finds a run to take,
\* also at a chunk larger than the xorb cap, and never waits for another
\* agent or a collection.
IngestReturns == \A a \in Client : pc[a] = "run" ~> pc[a] # "run"

\* The xorbs that a packed run of some content can be.
Packable == UNION {{SubSeq(f, i, j) : i \in 1..Len(f), j \in 1..Len(f)} : f \in Contents} \ {<<>>}

\* If collections are requested again and again, an unreferenced xorb the
\* index knows of does not stay in the index.  (test_gc.)
IndexedOrphansSwept ==
    \A x \in Packable :
        x \in xorbs \ Referenced ~> x \notin xorbs \ Referenced

\* A refused ingest succeeds when it is repeated until it does, provided no
\* further request is lost.  (put_xorb is "Idempotent", so a retry should
\* repair an interrupted upload.)
RetrySucceeds ==
    \A a \in Client, f \in Contents :
        pc[a] = "refused" /\ content[a] = f ~> f \in Registered \/ pc[a] = "failed"

=============================================================================
