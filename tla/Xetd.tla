-------------------------------- MODULE Xetd --------------------------------
(***************************************************************************)
(* The server, xetd: its blob store, its in-memory index, and the handlers *)
(* that change them.  Handlers run concurrently on the tokio runtime; each *)
(* one holds the index mutex only between two awaits, so a handler is cut  *)
(* into steps at its awaits and at its lock regions.                       *)
(*                                                                         *)
(*   put_xorb       blob.put: a check (PutXorbFound, PutXorbMissed) and,   *)
(*                  after an await, the write (PutXorbStored,              *)
(*                  PutXorbGivesWay); then PutXorbIndex (lock)             *)
(*   register_file  RegisterFile, or a refusal that changes nothing        *)
(*   global_dedup   the operator GlobalDedup                               *)
(*   test_gc        GcMark (lock), then per swept xorb GcDelete            *)
(*                  (blob.delete) and GcForget (lock)                      *)
(*                                                                         *)
(* A handler future is dropped at an await when its client goes away       *)
(* (PutXorbDropped, GcDropped), and Restart loses everything but the       *)
(* blobs, because AppState::new starts from an empty Index.                *)
(*                                                                         *)
(* The objects are complete here, as the trait BlobStore promises: how     *)
(* LocalFs and S3 write one, and when a torn one is seen, is the matter of *)
(* the modules LocalFs and S3.                                             *)
(***************************************************************************)
EXTENDS Xet

CONSTANTS Client,       \* connections; a client has one request at a time
          Collector,    \* concurrent POST /test/gc requests
          Path,         \* catalog keys (volume, path)
          Contents,     \* the file contents that are ever ingested
          Faults        \* the failures this instance exhibits

FaultKinds == {"request_lost", "late_write", "check_error", "gc_dropped", "delete_error", "restart"}

ASSUME XetdAssumption ==
    /\ Contents \subseteq Seq(Chunk)
    /\ None \notin Seq(Chunk)
    /\ None \notin Path
    /\ Faults \subseteq FaultKinds

VARIABLES
    blobs,          \* keys present in the BlobStore; survives a restart
    xorbs,          \* Index.xorbs (keys)
    files,          \* Index.files: file hash -> terms
    catalog,        \* Index.catalog: (volume, path) -> file hash
    chunk_index,    \* Index.chunk_index: chunk hash -> location
    storing,        \* per client: xorb that blob.put has found absent and is
                    \* now writing
    stray,          \* xorbs whose put was abandoned while it was writing; the
                    \* write may still land
    putting,        \* per client: xorb whose blob.put returned Ok(true) and
                    \* which the handler has still to index
    todo,           \* per collector: xorbs marked and still to be swept
    deleted,        \* per collector: xorb whose blob.delete has returned and
                    \* which the handler has still to drop from the index
    doubled         \* history, read by no action: xorbs of which some blob.put
                    \* returned Ok(true) although the object was there

index == <<xorbs, files, catalog, chunk_index>>
gc == <<todo, deleted>>
put == <<storing, stray, putting, doubled>>
xetdVars == <<blobs, xorbs, files, catalog, chunk_index, storing, stray, putting, todo, deleted,
              doubled>>

XetdTypeOK ==
    /\ blobs \subseteq Xorb
    /\ xorbs \subseteq Xorb
    /\ files \in [Contents -> Seq(Term) \cup {None}]
    /\ catalog \in [Path -> Contents \cup {None}]
    /\ chunk_index \in [Chunk -> Loc \cup {None}]
    /\ storing \in [Client -> Xorb \cup {None}]
    /\ stray \subseteq Xorb
    /\ putting \in [Client -> Xorb \cup {None}]
    /\ DOMAIN todo = Collector
    /\ \A g \in Collector : todo[g] \subseteq Xorb
    /\ deleted \in [Collector -> Xorb \cup {None}]
    /\ doubled \subseteq Xorb

XetdInit ==
    /\ blobs = {}
    /\ xorbs = {}
    /\ files = [f \in Contents |-> None]
    /\ catalog = [p \in Path |-> None]
    /\ chunk_index = [c \in Chunk |-> None]
    /\ storing = [c \in Client |-> None]
    /\ stray = {}
    /\ putting = [c \in Client |-> None]
    /\ todo = [g \in Collector |-> {}]
    /\ deleted = [g \in Collector |-> None]
    /\ doubled = {}

-----------------------------------------------------------------------------
(* put_xorb *)

\* Client c's put handler is at its await on blob.put, or behind it.
InPut(c) == storing[c] # None \/ putting[c] # None

\* blob.put finds the key and returns Ok(false); the handler answers
\* was_inserted = false without touching the index.
PutXorbFound(c, x) ==
    /\ ~InPut(c)
    /\ x \in blobs
    /\ UNCHANGED xetdVars

\* blob.put does not find the key and goes on to write.  A try_exists or a
\* HeadObject that fails counts as absence.
PutXorbMissed(c, x) ==
    /\ ~InPut(c)
    /\ x \notin blobs \/ "check_error" \in Faults
    /\ storing' = [storing EXCEPT ![c] = x]
    /\ UNCHANGED <<blobs, index, stray, putting, gc, doubled>>

\* The write succeeds, a rename or a PutObject over whatever is there by now,
\* and blob.put returns Ok(true).
PutXorbStored(c) ==
    /\ storing[c] # None
    /\ blobs' = blobs \cup {storing[c]}
    /\ storing' = [storing EXCEPT ![c] = None]
    /\ putting' = [putting EXCEPT ![c] = storing[c]]
    /\ doubled' = doubled \cup (blobs \cap {storing[c]})
    /\ UNCHANGED <<index, stray, gc>>

\* The rename fails and the object is there: blob.put returns Ok(false).
PutXorbGivesWay(c) ==
    /\ storing[c] # None
    /\ storing[c] \in blobs
    /\ storing' = [storing EXCEPT ![c] = None]
    /\ UNCHANGED <<blobs, index, stray, putting, gc, doubled>>

\* Index::put_xorb and Index::index_chunks under one lock.
PutXorbIndex(c) ==
    /\ putting[c] # None
    /\ xorbs' = xorbs \cup {putting[c]}
    /\ chunk_index' = IndexChunks(chunk_index, putting[c])
    /\ putting' = [putting EXCEPT ![c] = None]
    /\ UNCHANGED <<blobs, files, catalog, storing, stray, gc, doubled>>

-----------------------------------------------------------------------------
(* register_file, global_dedup *)

Registrable(ts) == XorbsOf(ts) \subseteq xorbs

\* A plausible slip: the check that every term's xorb was uploaded is dropped.
RegisterUnchecked(f, p, ts) ==
    /\ files' = [files EXCEPT ![f] = ts]
    /\ catalog' = [catalog EXCEPT ![p] = f]
    /\ UNCHANGED <<blobs, xorbs, chunk_index, put, gc>>

\* The record of a file that is already registered is overwritten.
RegisterFile(f, p, ts) ==
    /\ Registrable(ts)
    /\ files' = [files EXCEPT ![f] = ts]
    /\ catalog' = [catalog EXCEPT ![p] = f]
    /\ UNCHANGED <<blobs, xorbs, chunk_index, put, gc>>

GlobalDedup(c) == chunk_index[c]

-----------------------------------------------------------------------------
(* test_gc *)

Referenced == UNION {XorbsOf(files[f]) : f \in {h \in Contents : files[h] # None}}

Collecting(g) == todo[g] # {} \/ deleted[g] # None

\* A plausible slip: only the first term of a file is marked.
GcMarkFirstTerm(g) ==
    /\ ~Collecting(g)
    /\ todo' = [todo EXCEPT ![g] =
            {x \in xorbs : \A f \in Contents : files[f] \notin {None, <<>>} => files[f][1].xorb # x}]
    /\ UNCHANGED <<blobs, index, put, deleted>>

\* Roots and the list of all xorbs are taken under one lock; what is not
\* referenced now is swept later.
GcMark(g) ==
    /\ ~Collecting(g)
    /\ todo' = [todo EXCEPT ![g] = xorbs \ Referenced]
    /\ UNCHANGED <<blobs, index, put, deleted>>

\* The sweep visits the HashMap's keys in any order.
Sweep(g, x, stored) ==
    /\ deleted[g] = None
    /\ x \in todo[g]
    /\ blobs' = stored
    /\ todo' = [todo EXCEPT ![g] = @ \ {x}]
    /\ deleted' = [deleted EXCEPT ![g] = x]
    /\ UNCHANGED <<index, put>>

GcDelete(g, x) == Sweep(g, x, blobs \ {x})

\* `let _ = st.blob.delete(&x).await': an error is ignored and the xorb is
\* forgotten all the same.
GcDeleteFails(g, x) ==
    /\ "delete_error" \in Faults
    /\ Sweep(g, x, blobs)

\* A plausible slip: the dedup index is not purged with the xorb.
GcForgetXorbOnly(g) ==
    /\ deleted[g] # None
    /\ xorbs' = xorbs \ {deleted[g]}
    /\ deleted' = [deleted EXCEPT ![g] = None]
    /\ UNCHANGED <<blobs, files, catalog, chunk_index, put, todo>>

\* A plausible slip: the sweep deletes the object and leaves the index alone.
GcForgetNothing(g) ==
    /\ deleted[g] # None
    /\ deleted' = [deleted EXCEPT ![g] = None]
    /\ UNCHANGED <<blobs, index, put, todo>>

GcForget(g) ==
    /\ deleted[g] # None
    /\ xorbs' = xorbs \ {deleted[g]}
    /\ chunk_index' = [c \in Chunk |-> IF chunk_index[c] # None /\ chunk_index[c].xorb = deleted[g]
                                          THEN None ELSE chunk_index[c]]
    /\ deleted' = [deleted EXCEPT ![g] = None]
    /\ UNCHANGED <<blobs, files, catalog, put, todo>>

-----------------------------------------------------------------------------
(* Failures *)

\* What the puts of the clients C were writing may land after they are gone:
\* the blocking rename, or the PutObject on its way, goes on without the future
\* that waited for it.
Abandon(C) ==
    stray' = stray \cup {x \in {storing[c] : c \in C} \ {None} : "late_write" \in Faults}

\* The request's connection is gone: hyper drops the handler future at its
\* await.  Or blob.put has returned an error.
PutXorbDropped(c) ==
    /\ Abandon({c})
    /\ storing' = [storing EXCEPT ![c] = None]
    /\ putting' = [putting EXCEPT ![c] = None]
    /\ UNCHANGED <<blobs, index, gc, doubled>>

\* The write of an abandoned put lands.  Several puts of x may have been
\* abandoned, so it may land again.
StrayLands(x) ==
    /\ x \in stray
    /\ blobs' = blobs \cup {x}
    /\ UNCHANGED <<index, put, gc>>

GcDropped(g) ==
    /\ "gc_dropped" \in Faults
    /\ Collecting(g)
    /\ todo' = [todo EXCEPT ![g] = {}]
    /\ deleted' = [deleted EXCEPT ![g] = None]
    /\ UNCHANGED <<blobs, index, put>>

\* A new process over the same blobs: every handler is gone, the index empty.
Restart ==
    /\ "restart" \in Faults
    /\ xorbs' = {}
    /\ files' = [f \in Contents |-> None]
    /\ catalog' = [p \in Path |-> None]
    /\ chunk_index' = [c \in Chunk |-> None]
    /\ storing' = [c \in Client |-> None]
    /\ Abandon(Client)
    /\ putting' = [c \in Client |-> None]
    /\ todo' = [g \in Collector |-> {}]
    /\ deleted' = [g \in Collector |-> None]
    /\ doubled' = {}
    /\ UNCHANGED blobs

-----------------------------------------------------------------------------
(* Notions the properties are about *)

Registered == {f \in Contents : files[f] # None}

\* Every xorb the file's terms name can be looked up and fetched.
Intact(f) == XorbsOf(files[f]) \subseteq xorbs \cap blobs

\* A collection under way has marked x for deletion.
Condemned(x) == \E g \in Collector : x \in todo[g] \/ x = deleted[g]
=============================================================================
