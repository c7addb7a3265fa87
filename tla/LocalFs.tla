------------------------------ MODULE LocalFs ------------------------------
(***************************************************************************)
(* LocalFsBlobStore::put and ::delete on one key, at the granularity of    *)
(* the file operations they await.  Keys do not interact: each has its own *)
(* final path and its own temporary path `.{hash}.tmp', and that temporary *)
(* path is shared by all concurrent puts of the key.                       *)
(*                                                                         *)
(* tokio::fs::write opens with create + truncate and then writes the bytes *)
(* through its own descriptor, in several writes; a rename moves the name, *)
(* not the descriptors.  All writers of a key write the same bytes (the    *)
(* key is the hash of the content), so that a file is the set of pages     *)
(* that have been written into it.                                         *)
(*                                                                         *)
(* A writer is a put together with the file operation it may leave behind  *)
(* when its caller goes away.  A retry that does not wait for that         *)
(* operation is another writer.                                            *)
(***************************************************************************)
EXTENDS Naturals

CONSTANTS Writer,       \* puts under way at a time
          NPages,       \* number of writes it takes to write the bytes
          Inode,        \* files of the file system
          None,
          Faults,       \* the failures this instance exhibits
          Deletes       \* whether collections delete the key

ASSUME LocalFsAssumption ==
    /\ None \notin Inode
    /\ NPages \in Nat \ {0}
    /\ \A pages \in SUBSET (1..NPages) : None # pages
    /\ Faults \subseteq {"write_error", "rename_error", "stat_error", "drop", "kill"}
    /\ Deletes \in BOOLEAN

Page == 1..NPages

VARIABLES
    path,       \* the inode the final path names, or None
    tmp,        \* the inode the temporary path names, or None
    data,       \* per inode: the pages written
    pc,         \* per writer: the operation put awaits next
    fd,         \* per writer: the inode it has open
    written,    \* per writer: how many pages it has written through fd
    answer      \* per writer: result of its last put

vars == <<path, tmp, data, pc, fd, written, answer>>

Steps == {"idle", "check", "open", "write", "rename", "recheck", "remove"}

\* Every variable keeps its type, a descriptor is open exactly while put
\* writes, a put that is not over is busy unless its caller has gone, and the
\* two names never share an inode.
TypeOK ==
    /\ path \in Inode \cup {None}
    /\ tmp \in Inode \cup {None}
    /\ data \in [Inode -> SUBSET Page]
    /\ pc \in [Writer -> Steps]
    /\ fd \in [Writer -> Inode \cup {None}]
    /\ written \in [Writer -> 0..NPages]
    /\ answer \in [Writer -> {"none", "busy", "true", "false", "error"}]
    /\ \A w \in Writer : fd[w] # None <=> pc[w] = "write"
    /\ \A w \in Writer : answer[w] = "busy" => pc[w] # "idle"
    /\ \A w \in Writer : pc[w] # "idle" => answer[w] \in {"busy", "none"}
    /\ path # None => path # tmp

Init ==
    /\ path = None
    /\ tmp = None
    /\ data = [i \in Inode |-> {}]
    /\ pc = [w \in Writer |-> "idle"]
    /\ fd = [w \in Writer |-> None]
    /\ written = [w \in Writer |-> 0]
    /\ answer = [w \in Writer |-> "none"]

-----------------------------------------------------------------------------
\* The operation that was awaited is over; a put that was dropped meanwhile
\* does not go on, and gives no answer.
Goto(w, step) ==
    /\ pc' = [pc EXCEPT ![w] = IF answer[w] = "busy" THEN step ELSE "idle"]
    /\ UNCHANGED answer

Answer(w, result) ==
    /\ pc' = [pc EXCEPT ![w] = "idle"]
    /\ answer' = [answer EXCEPT ![w] = IF @ = "busy" THEN result ELSE @]

Begin(w) ==
    /\ pc[w] = "idle"
    /\ pc' = [pc EXCEPT ![w] = "check"]
    /\ answer' = [answer EXCEPT ![w] = "busy"]
    /\ UNCHANGED <<path, tmp, data, fd, written>>

\* try_exists(&path).await.unwrap_or(false): an error counts as absence.
Check(w) ==
    /\ pc[w] = "check"
    /\ \/ path # None /\ Answer(w, "false")
       \/ (path = None \/ "stat_error" \in Faults) /\ Goto(w, "open")
    /\ UNCHANGED <<path, tmp, data, fd, written>>

\* Neither named nor open.
Free == {i \in Inode : i \notin {path, tmp} /\ \A w \in Writer : fd[w] # i}

\* create_dir_all, and the open of tokio::fs::write(&tmp, ..): truncates the
\* file if it is there.
Open(w) ==
    /\ pc[w] = "open"
    /\ \E i \in IF tmp = None THEN Free ELSE {tmp} :
          /\ tmp' = i
          /\ fd' = [fd EXCEPT ![w] = i]
          /\ data' = [data EXCEPT ![i] = {}]
    /\ written' = [written EXCEPT ![w] = 0]
    /\ pc' = [pc EXCEPT ![w] = "write"]
    /\ UNCHANGED <<path, answer>>

Write(w) ==
    /\ pc[w] = "write"
    /\ written[w] < NPages
    /\ data' = [data EXCEPT ![fd[w]] = @ \cup {written[w] + 1}]
    /\ written' = [written EXCEPT ![w] = @ + 1]
    /\ UNCHANGED <<path, tmp, pc, fd, answer>>

\* A plausible slip: the file is renamed before it is written out.
CloseEarly(w) ==
    /\ pc[w] = "write"
    /\ written[w] > 0
    /\ fd' = [fd EXCEPT ![w] = None]
    /\ written' = [written EXCEPT ![w] = 0]
    /\ Goto(w, "rename")
    /\ UNCHANGED <<path, tmp, data>>

Close(w) ==
    /\ pc[w] = "write"
    /\ written[w] = NPages
    /\ fd' = [fd EXCEPT ![w] = None]
    /\ written' = [written EXCEPT ![w] = 0]
    /\ Goto(w, "rename")
    /\ UNCHANGED <<path, tmp, data>>

\* A plausible slip: the temporary file is copied, not moved.
RenameKeepingTmp(w) ==
    /\ pc[w] = "rename"
    /\ tmp # None
    /\ path' = tmp
    /\ Answer(w, "true")
    /\ UNCHANGED <<tmp, data, fd, written>>

\* rename(&tmp, &path): replaces what the final path names.
Rename(w) ==
    /\ pc[w] = "rename"
    /\ tmp # None
    /\ path' = tmp
    /\ tmp' = None
    /\ Answer(w, "true")
    /\ UNCHANGED <<data, fd, written>>

\* A plausible slip: a failed rename is an error even if the object is there.
RenameFailsHard(w) ==
    /\ pc[w] = "rename"
    /\ tmp = None
    /\ Answer(w, "error")
    /\ UNCHANGED <<path, tmp, data, fd, written>>

\* The temporary file is gone, for another put of the key has renamed it, or
\* the rename fails with the file in its place.
RenameFails(w) ==
    /\ pc[w] = "rename"
    /\ tmp = None \/ "rename_error" \in Faults
    /\ Goto(w, "recheck")
    /\ UNCHANGED <<path, tmp, data, fd, written>>

\* A plausible slip: a lost rename is tried again instead of giving way.
RecheckRetries(w) ==
    /\ pc[w] = "recheck"
    /\ Goto(w, "rename")
    /\ UNCHANGED <<path, tmp, data, fd, written>>

\* The guard of the match's second arm, with the same unwrap_or(false).
Recheck(w) ==
    /\ pc[w] = "recheck"
    /\ \/ path # None /\ Goto(w, "remove")
       \/ (path = None \/ "stat_error" \in Faults) /\ Answer(w, "error")
    /\ UNCHANGED <<path, tmp, data, fd, written>>

\* remove_file(&tmp), result ignored; the file may by now be another put's.
Remove(w) ==
    /\ pc[w] = "remove"
    /\ tmp' \in {None} \cup (IF "rename_error" \in Faults THEN {tmp} ELSE {})
    /\ Answer(w, "false")
    /\ UNCHANGED <<path, data, fd, written>>

\* LocalFsBlobStore::delete
Delete ==
    /\ Deletes
    /\ path # None
    /\ path' = None
    /\ UNCHANGED <<tmp, data, pc, fd, written, answer>>

-----------------------------------------------------------------------------
(* Failures *)

\* The directory or the file cannot be made, or the disk is full: `?' returns
\* the error, the temporary file stays.
WriteError(w) ==
    /\ "write_error" \in Faults
    /\ pc[w] \in {"open", "write"}
    /\ fd' = [fd EXCEPT ![w] = None]
    /\ written' = [written EXCEPT ![w] = 0]
    /\ Answer(w, "error")
    /\ UNCHANGED <<path, tmp, data>>

\* The caller's connection is gone and the future of put is dropped at its
\* await.  File operations run on blocking threads and go on to their end; only
\* the directory may have been made and the write not have begun.
Drop(w) ==
    /\ "drop" \in Faults
    /\ answer[w] = "busy"
    /\ answer' = [answer EXCEPT ![w] = "none"]
    /\ \/ pc[w] \in {"open", "write", "rename", "remove"} /\ UNCHANGED pc
       \/ pc[w] \in {"check", "open", "recheck"} /\ pc' = [pc EXCEPT ![w] = "idle"]
    /\ UNCHANGED <<path, tmp, data, fd, written>>

\* The process dies; the kernel keeps what was written.
Kill ==
    /\ "kill" \in Faults
    /\ pc' = [w \in Writer |-> "idle"]
    /\ fd' = [w \in Writer |-> None]
    /\ written' = [w \in Writer |-> 0]
    /\ answer' = [w \in Writer |-> "none"]
    /\ UNCHANGED <<path, tmp, data>>

-----------------------------------------------------------------------------
PutStep(w) ==
    \/ Check(w) \/ Open(w) \/ Write(w) \/ Close(w)
    \/ Rename(w) \/ RenameFails(w) \/ Recheck(w) \/ Remove(w)

Next ==
    \/ \E w \in Writer : Begin(w) \/ PutStep(w) \/ WriteError(w) \/ Drop(w)
    \/ Delete
    \/ Kill

Spec == Init /\ [][Next]_vars

-----------------------------------------------------------------------------
\* What a reader of the key finds.
Published == IF path = None THEN None ELSE data[path]

\* What put's caller is told, from the time that is settled: a put that has lost
\* its rename and found the object answers false, come what may.
Told == [w \in Writer |-> IF pc[w] = "remove" /\ answer[w] = "busy" THEN "false" ELSE answer[w]]

\* A rename is under way for a caller that is gone.
Renaming == \E w \in Writer : pc[w] = "rename" /\ answer[w] # "busy"

Abstract == INSTANCE BlobStore WITH
                blob <- Published, answer <- Told, stray <- Renaming,
                Exact <- ("stat_error" \notin Faults)

\* put and delete implement the trait's contract for puts that come one at a
\* time: each begins after all file operations of the one before have ended,
\* also those that a put whose caller is gone has left behind.  (A retry that
\* does not wait for them overlaps, and then PublishedComplete fails.)  true
\* means that the object was new unless a probe of it can fail.  (blob.rs,
\* trait BlobStore: "Idempotent write of a complete xorb", "`true` if newly
\* written".)
ImplementsBlobStore == Abstract!Spec

\* The object under the final path is complete: head, get_range and the
\* presigned URL never see a part of it.  (put's "write to tmp, then rename".)
PublishedComplete == path # None => data[path] = Page

\* An object that nobody has open any more is complete, however many puts of
\* the key overlapped in the shared temporary file: the last one to truncate
\* it also writes it in full.
SettledComplete ==
    path # None /\ (\A w \in Writer : fd[w] # path) => data[path] = Page

\* When no put is under way no temporary file is left behind.
NoTmpLeft == (\A w \in Writer : pc[w] = "idle") => tmp = None

\* While nothing deletes the key, overlapping puts all succeed: a writer whose
\* temporary file was renamed or removed by another finds the object there.
OverlappingPutsSucceed == \A w \in Writer : answer[w] # "error"
=============================================================================
