------------------------------- MODULE Xetfs -------------------------------
(***************************************************************************)
(* The mount, xetfs: inodes, write-back staging buffers and the cache of   *)
(* reconstructed files, under the FUSE requests the kernel sends.  A mount *)
(* serves one request at a time (the Filesystem methods take &mut self and *)
(* block on the server), so a method is one step; several mounts of a      *)
(* volume interleave.                                                      *)
(*                                                                         *)
(* The server is what it looks like from here: a catalog of file hashes,   *)
(* which agents and other mounts also write, and which a restart of the    *)
(* server empties.  ingest_bytes either advances the catalog or fails,     *)
(* with or without having registered the file.  reconstruct returns the    *)
(* file of a hash, fails, or (module Reconstruct: where the runs of a file *)
(* nest) returns other bytes.  A file hash is identified with the bytes it *)
(* is the hash of.                                                         *)
(*                                                                         *)
(* The directory tree is flattened: a path stands for its inode.  How      *)
(* paths, inodes and catalog keys correspond is module Tree.               *)
(***************************************************************************)
EXTENDS Integers, Sequences, FiniteSetsExt

CONSTANTS Mount,        \* running mounts of the volume
          Path,
          Byte,
          Zero,         \* the byte that fills a gap
          MaxSize,      \* bound on file sizes
          MaxHandles,   \* bound on open handles of a file, per mount
          Faults,       \* the failures this instance exhibits
          None

\* struct Node, of a file, and struct Staging.
Node == [hash : Seq(Byte) \cup {None}, size : Nat]
Staging == [buf : Seq(Byte), dirty : BOOLEAN]

\* The bytes of a file in the cache, and (history) the hash they were
\* reconstructed from.
Cached == [of : Seq(Byte), bytes : Seq(Byte)]

ASSUME XetfsAssumption ==
    /\ Zero \in Byte
    /\ MaxSize \in Nat
    /\ MaxHandles \in Nat \ {0}
    /\ Faults \subseteq {"ingest", "ingest_reply", "reconstruct", "misread", "restart", "kill"}
    /\ None \notin Mount
    /\ None \notin Seq(Byte)
    /\ None \notin Node
    /\ None \notin Staging
    /\ None \notin Cached

\* The contents of up to MaxSize bytes.
Content == UNION {[1..n -> Byte] : n \in 0..MaxSize}

VARIABLES
    catalog,    \* at the server: path -> file hash
    up,         \* per mount: connected
    node,       \* nodes: file_hash and size per path, None where no inode is
    staging,    \* open_files: buf and dirty per path
    cache,      \* cache: reconstructed bytes per path
    handles,    \* in the kernel: open handles per path
    user,       \* history: what applications have been told the file holds
    failed,     \* history: a write-back or a seeding of the file has failed, or
                \* a reconstruct of it has returned other bytes
    moved       \* history: since the mount connected or last wrote the file back
                \* somebody else has changed its catalog entry

vars == <<catalog, up, node, staging, cache, handles, user, failed, moved>>

\* Every variable keeps its type, and only files that have an inode are
\* staged, cached or open.
TypeOK ==
    /\ catalog \in [Path -> Seq(Byte) \cup {None}]
    /\ up \in [Mount -> BOOLEAN]
    /\ node \in [Mount -> [Path -> Node \cup {None}]]
    /\ staging \in [Mount -> [Path -> Staging \cup {None}]]
    /\ cache \in [Mount -> [Path -> Cached \cup {None}]]
    /\ handles \in [Mount -> [Path -> 0..MaxHandles]]
    /\ user \in [Mount -> [Path -> Seq(Byte) \cup {None}]]
    /\ failed \in [Mount -> [Path -> BOOLEAN]]
    /\ moved \in [Mount -> [Path -> BOOLEAN]]
    /\ \A m \in Mount, p \in Path : node[m][p] = None =>
         staging[m][p] = None /\ cache[m][p] = None /\ handles[m][p] = 0

Nothing == [p \in Path |-> None]

\* The volume may hold files that agents have ingested.
Init ==
    /\ catalog \in [Path -> Content \cup {None}]
    /\ up = [m \in Mount |-> FALSE]
    /\ node = [m \in Mount |-> Nothing]
    /\ staging = [m \in Mount |-> Nothing]
    /\ cache = [m \in Mount |-> Nothing]
    /\ handles = [m \in Mount |-> [p \in Path |-> 0]]
    /\ user = [m \in Mount |-> Nothing]
    /\ failed = [m \in Mount |-> [p \in Path |-> FALSE]]
    /\ moved = [m \in Mount |-> [p \in Path |-> FALSE]]

-----------------------------------------------------------------------------
(* The server *)

\* register_file puts `hash' under the volume's key, at the request of `who'.
Registered(p, hash, who) ==
    /\ catalog' = [catalog EXCEPT ![p] = hash]
    /\ moved' = [m \in Mount |-> [moved[m] EXCEPT ![p] = m # who]]

\* An agent ingests a file under the key.
AgentIngests(p, hash) ==
    /\ Registered(p, hash, None)
    /\ UNCHANGED <<up, node, staging, cache, handles, user, failed>>

\* The catalog is in xetd's memory.
ServerRestart ==
    /\ "restart" \in Faults
    /\ catalog' = Nothing
    /\ moved' = [m \in Mount |-> [p \in Path |-> TRUE]]
    /\ UNCHANGED <<up, node, staging, cache, handles, user, failed>>

-----------------------------------------------------------------------------
(* Mounting *)

\* connect: one inode per catalog entry, with the entry's hash and size.  The
\* catalog is never read again.
Connect(m) ==
    /\ ~up[m]
    /\ up' = [up EXCEPT ![m] = TRUE]
    /\ node' = [node EXCEPT ![m] = [p \in Path |->
                  IF catalog[p] = None THEN None
                                       ELSE [hash |-> catalog[p], size |-> Len(catalog[p])]]]
    /\ user' = [user EXCEPT ![m] = catalog]
    /\ moved' = [moved EXCEPT ![m] = [p \in Path |-> FALSE]]
    /\ UNCHANGED <<catalog, staging, cache, handles, failed>>

\* A plausible slip: the buffers of a mount outlive it.
GoneKeepingStaging(m) ==
    /\ up[m]
    /\ up' = [up EXCEPT ![m] = FALSE]
    /\ node' = [node EXCEPT ![m] = Nothing]
    /\ cache' = [cache EXCEPT ![m] = Nothing]
    /\ handles' = [handles EXCEPT ![m] = [p \in Path |-> 0]]
    /\ user' = [user EXCEPT ![m] = Nothing]
    /\ failed' = [failed EXCEPT ![m] = [p \in Path |-> FALSE]]
    /\ UNCHANGED <<catalog, staging, moved>>

\* The mount's memory goes away; Xetfs has no destroy method.
Gone(m) ==
    /\ up[m]
    /\ up' = [up EXCEPT ![m] = FALSE]
    /\ node' = [node EXCEPT ![m] = Nothing]
    /\ staging' = [staging EXCEPT ![m] = Nothing]
    /\ cache' = [cache EXCEPT ![m] = Nothing]
    /\ handles' = [handles EXCEPT ![m] = [p \in Path |-> 0]]
    /\ user' = [user EXCEPT ![m] = Nothing]
    /\ failed' = [failed EXCEPT ![m] = [p \in Path |-> FALSE]]
    /\ UNCHANGED <<catalog, moved>>

\* The kernel refuses to unmount while a handle is open.
Unmount(m) == (\A p \in Path : handles[m][p] = 0) /\ Gone(m)

Kill(m) == "kill" \in Faults /\ Gone(m)

-----------------------------------------------------------------------------
(* Opening *)

\* open: the reply is all there is; the kernel opens what lookup found.
Open(m, p) ==
    /\ node[m][p] # None
    /\ handles[m][p] < MaxHandles
    /\ handles' = [handles EXCEPT ![m][p] = @ + 1]
    /\ UNCHANGED <<catalog, up, node, staging, cache, user, failed, moved>>

\* create: a new inode with an empty, dirty staging buffer.  The kernel sends
\* create, with the directory locked, only for a name its lookup did not find;
\* the branch for an existing name is not reachable from it.
Create(m, p) ==
    /\ up[m]
    /\ node[m][p] = None
    /\ node' = [node EXCEPT ![m][p] = [hash |-> None, size |-> 0]]
    /\ staging' = [staging EXCEPT ![m][p] = [buf |-> <<>>, dirty |-> TRUE]]
    /\ handles' = [handles EXCEPT ![m][p] = 1]
    /\ user' = [user EXCEPT ![m][p] = <<>>]
    /\ UNCHANGED <<catalog, up, cache, failed, moved>>

-----------------------------------------------------------------------------
(* Reading *)

\* xet_agent::reconstruct returned Ok.
Reconstructed(hash) == {hash} \cup (IF "misread" \in Faults THEN Content ELSE {})

\* file_bytes returned b, from the cache or by a reconstruct, which fills it.
FileBytes(m, p, b) ==
    \/ /\ cache[m][p] # None
       /\ b = cache[m][p].bytes
       /\ UNCHANGED <<cache, failed>>
    \/ /\ cache[m][p] = None
       /\ node[m][p].hash # None
       /\ b \in Reconstructed(node[m][p].hash)
       /\ cache' = [cache EXCEPT ![m][p] = [of |-> node[m][p].hash, bytes |-> b]]
       /\ failed' = [failed EXCEPT ![m][p] = @ \/ b # node[m][p].hash]

\* file_bytes returned None: the file has no hash yet, or reconstruct failed,
\* as it does when the server has lost the file.
NoBytes(m, p) ==
    /\ cache[m][p] = None
    /\ node[m][p].hash = None \/ Faults \cap {"reconstruct", "restart"} # {}
    /\ UNCHANGED cache

\* read of a file that is not staged.  A read that fails, or is served from the
\* staging buffer, changes nothing.
Read(m, p) ==
    /\ handles[m][p] > 0
    /\ staging[m][p] = None
    /\ \E b \in Content : FileBytes(m, p, b)
    /\ UNCHANGED <<catalog, up, node, staging, handles, user, moved>>

-----------------------------------------------------------------------------
(* Writing *)

\* Vec::resize(n, 0)
Resize(buf, n) == [i \in 1..n |-> IF i <= Len(buf) THEN buf[i] ELSE Zero]

\* buf[off..off + len].copy_from_slice(d), after growing buf if it is short.
Overwrite(buf, off, d) ==
    LET grown == Resize(buf, Max({Len(buf), off + Len(d)}))
    IN  [i \in DOMAIN grown |-> IF i \in (off + 1)..(off + Len(d)) THEN d[i - off] ELSE grown[i]]

\* ensure_staging found or made a buffer that holds buf.  unwrap_or_default():
\* a file whose bytes cannot be had is staged as an empty one.
Staged(m, p, buf) ==
    \/ /\ staging[m][p] # None
       /\ buf = staging[m][p].buf
       /\ UNCHANGED <<cache, failed>>
    \/ staging[m][p] = None /\ FileBytes(m, p, buf)
    \/ /\ staging[m][p] = None
       /\ NoBytes(m, p)
       /\ buf = <<>>
       /\ failed' = [failed EXCEPT ![m][p] = TRUE]

\* The buffer becomes buf, dirty, and the inode takes its size.
Edited(m, p, buf) ==
    /\ staging' = [staging EXCEPT ![m][p] = [buf |-> buf, dirty |-> TRUE]]
    /\ node' = [node EXCEPT ![m][p].size = Len(buf)]
    /\ UNCHANGED <<catalog, up, handles, moved>>

\* A plausible slip: a buffer is not seeded with the file's bytes.
WriteUnseeded(m, p, off, d) ==
    /\ handles[m][p] > 0
    /\ LET buf == IF staging[m][p] = None THEN <<>> ELSE staging[m][p].buf
       IN  Edited(m, p, Overwrite(buf, off, d))
    /\ user' = [user EXCEPT ![m][p] = Overwrite(@, off, d)]
    /\ UNCHANGED <<cache, failed>>

Write(m, p, off, d) ==
    /\ handles[m][p] > 0
    /\ \E buf \in Content : Staged(m, p, buf) /\ Edited(m, p, Overwrite(buf, off, d))
    /\ user' = [user EXCEPT ![m][p] = Overwrite(@, off, d)]

\* A plausible slip: a truncation leaves the inode's size alone.
SetSizeKeepingAttr(m, p, n) ==
    /\ node[m][p] # None
    /\ \E buf \in Content :
          /\ Staged(m, p, buf)
          /\ staging' = [staging EXCEPT ![m][p] = [buf |-> Resize(buf, n), dirty |-> TRUE]]
    /\ user' = [user EXCEPT ![m][p] = Resize(@, n)]
    /\ UNCHANGED <<catalog, up, node, handles, moved>>

\* setattr with a size: ftruncate, O_TRUNC, or truncate(2) by path, which needs
\* no handle.
SetSize(m, p, n) ==
    /\ node[m][p] # None
    /\ \E buf \in Content : Staged(m, p, buf) /\ Edited(m, p, Resize(buf, n))
    /\ user' = [user EXCEPT ![m][p] = Resize(@, n)]

-----------------------------------------------------------------------------
(* Writing back *)

Dirty(m, p) == staging[m][p] # None /\ staging[m][p].dirty

\* A plausible slip: the cached bytes survive the flush.
FlushedKeepingCache(m, p) ==
    /\ Registered(p, staging[m][p].buf, m)
    /\ node' = [node EXCEPT ![m][p] = [hash |-> staging[m][p].buf, size |-> Len(staging[m][p].buf)]]
    /\ UNCHANGED <<cache, failed>>

\* flush_bytes, ingest_bytes returned Ok.
Flushed(m, p) ==
    /\ Registered(p, staging[m][p].buf, m)
    /\ node' = [node EXCEPT ![m][p] = [hash |-> staging[m][p].buf, size |-> Len(staging[m][p].buf)]]
    /\ cache' = [cache EXCEPT ![m][p] = None]
    /\ UNCHANGED failed

\* flush_bytes, ingest_bytes returned Err, before or after it registered the
\* file; the error is printed.
FlushFailed(m, p) ==
    /\ \/ "ingest" \in Faults /\ UNCHANGED <<catalog, moved>>
       \/ "ingest_reply" \in Faults /\ Registered(p, staging[m][p].buf, m)
    /\ failed' = [failed EXCEPT ![m][p] = TRUE]
    /\ UNCHANGED <<node, cache>>

\* flush_if_dirty, but for the dirty flag.
FlushIfDirty(m, p) ==
    \/ Dirty(m, p) /\ (Flushed(m, p) \/ FlushFailed(m, p))
    \/ ~Dirty(m, p) /\ UNCHANGED <<catalog, node, cache, failed, moved>>

\* fsync, and flush, which the kernel sends at every close(2).  Whatever became
\* of the write-back, the flag is cleared and the reply is ok.
Fsync(m, p) ==
    /\ handles[m][p] > 0
    /\ FlushIfDirty(m, p)
    /\ staging' = [staging EXCEPT ![m][p] = IF @ = None THEN None ELSE [@ EXCEPT !.dirty = FALSE]]
    /\ UNCHANGED <<up, handles, user>>

\* A plausible slip: release relies on the flush that preceded it.
ReleaseUnflushed(m, p) ==
    /\ handles[m][p] > 0
    /\ staging' = [staging EXCEPT ![m][p] = None]
    /\ handles' = [handles EXCEPT ![m][p] = @ - 1]
    /\ UNCHANGED <<catalog, up, node, cache, user, failed, moved>>

\* release: the buffer is dropped although other handles may be open.
Release(m, p) ==
    /\ handles[m][p] > 0
    /\ FlushIfDirty(m, p)
    /\ staging' = [staging EXCEPT ![m][p] = None]
    /\ handles' = [handles EXCEPT ![m][p] = @ - 1]
    /\ UNCHANGED <<up, user>>

-----------------------------------------------------------------------------
Request(m, p) ==
    \/ Open(m, p) \/ Create(m, p) \/ Read(m, p) \/ Fsync(m, p) \/ Release(m, p)
    \/ \E off \in 0..MaxSize, d \in Content :
          Len(d) \in 1..(MaxSize - off) /\ Write(m, p, off, d)
    \/ \E n \in 0..MaxSize : SetSize(m, p, n)

Next ==
    \/ \E m \in Mount : \/ Connect(m) \/ Unmount(m) \/ Kill(m)
                        \/ \E p \in Path : Request(m, p)
    \/ \E p \in Path, hash \in Content : AgentIngests(p, hash)
    \/ ServerRestart

Spec == Init /\ [][Next]_vars

\* The same system in which applications close what they have opened.
ClosingSpec == Spec /\ \A m \in Mount, p \in Path : WF_vars(Release(m, p))

-----------------------------------------------------------------------------
\* The bytes a read is served from, if a reconstruct it needs works.
Served(m, p) ==
    IF staging[m][p] # None THEN staging[m][p].buf
    ELSE IF cache[m][p] # None THEN cache[m][p].bytes ELSE node[m][p].hash

\* Since the mount connected no request for the file has failed, and none has
\* returned other bytes than those of the hash.
Undisturbed(m, p) == node[m][p] # None /\ ~failed[m][p]

\* A read returns what was last written, over any sequence of opens, writes,
\* truncations, fsyncs and closes of any number of handles, and whatever agents
\* and other mounts register and the server forgets, as long as requests of the
\* mount for the file are answered and answered rightly.  (read, the seeding of
\* ensure_staging, and the cache that flush_bytes drops.)
ReadsCurrent ==
    \A m \in Mount, p \in Path : Undisturbed(m, p) => Served(m, p) = user[m][p]

\* Under the same conditions getattr reports the length of what a read is
\* served from.  (attr, write, setattr, flush_bytes.)
SizeIsServed ==
    \A m \in Mount, p \in Path : Undisturbed(m, p) => node[m][p].size = Len(Served(m, p))

\* A file that is not dirty is in the catalog as the applications left it, until
\* an agent or another mount registers a file under its key or the server
\* restarts: what was fsynced or closed survives the mount, though not the
\* server.  (flush_if_dirty, release.)
CleanIsPersisted ==
    \A m \in Mount, p \in Path :
        Undisturbed(m, p) /\ ~Dirty(m, p) /\ ~moved[m][p] => catalog[p] = user[m][p]

\* The same whatever fails: an edit is in the catalog once fsync, flush or
\* release has answered.  (lib.rs: "on `fsync`/`flush`/`release` a dirty buffer
\* is re-ingested ..., advancing the catalog `file_hash`".)
FsyncPersists ==
    \A m \in Mount, p \in Path :
        node[m][p] # None /\ ~Dirty(m, p) /\ ~moved[m][p] => catalog[p] = user[m][p]

\* The cache never keeps the bytes of an earlier version: what is cached for an
\* inode was reconstructed from the file hash the inode has now, whatever fails,
\* and whatever others register.  Whether reconstruct returned the right bytes
\* is another matter.  (file_bytes, flush_bytes.)
CacheCoherent ==
    \A m \in Mount, p \in Path : cache[m][p] # None => cache[m][p].of = node[m][p].hash

\* An edit made while the file is open reaches the server once the handles are
\* closed, unless a request fails or is answered with other bytes, or the mount
\* is killed: no sequence of opens, edits and closes keeps a dirty buffer from
\* being ingested.  (An edit by path, with no handle open, is written back by
\* nobody.)  (write, setattr, release.)
EditReachesCatalog ==
    \A m \in Mount, p \in Path :
        Dirty(m, p) /\ handles[m][p] > 0 ~>
            catalog[p] = user[m][p] \/ ~Undisturbed(m, p)
=============================================================================
