---------------------------- MODULE XetfsProofs ----------------------------
(***************************************************************************)
(* Proofs about the mount (module Xetfs): for any number of mounts, paths  *)
(* and handles, any bytes and file sizes, whatever agents register and     *)
(* however often the server restarts, what a read is served and getattr    *)
(* reports is what applications last wrote, until a request for the file   *)
(* fails or returns other bytes.                                           *)
(***************************************************************************)
EXTENDS Xetfs, NatFacts, SequenceTheorems

-----------------------------------------------------------------------------
(* Buffers *)

LEMMA ContentIsSeq == Content \subseteq Seq(Byte)
BY XetfsAssumption DEF Content

\* Vec::resize makes a buffer of the size asked for.
LEMMA ResizeType ==
    ASSUME NEW buf \in Seq(Byte), NEW n \in Nat
    PROVE  Resize(buf, n) \in Seq(Byte) /\ Len(Resize(buf, n)) = n
<1>1. \A i \in 1..n : (IF i <= Len(buf) THEN buf[i] ELSE Zero) \in Byte
  BY XetfsAssumption
<1> QED
  BY <1>1 DEF Resize

\* A write into a buffer, grown if it was short, makes a buffer.
LEMMA OverwriteType ==
    ASSUME NEW buf \in Seq(Byte), NEW off \in Nat, NEW d \in Seq(Byte)
    PROVE  Overwrite(buf, off, d) \in Seq(Byte)
<1> DEFINE n == Max({Len(buf), off + Len(d)})
           grown == Resize(buf, n)
<1>1. n \in Nat
  BY MaxOfTwo
<1> HIDE DEF n
<1>2. grown \in Seq(Byte) /\ Len(grown) = n
  BY <1>1, ResizeType
<1> HIDE DEF grown
<1>3. Overwrite(buf, off, d) =
        [i \in 1..n |-> IF i \in (off + 1)..(off + Len(d)) THEN d[i - off] ELSE grown[i]]
  BY <1>2 DEF Overwrite, n, grown
<1>4. \A i \in 1..n : (IF i \in (off + 1)..(off + Len(d)) THEN d[i - off] ELSE grown[i]) \in Byte
  BY <1>1, <1>2
<1> QED
  BY <1>1, <1>3, <1>4

-----------------------------------------------------------------------------
(* Types *)

\* A mount that is down has no inodes, and applications know the files that
\* have one.
TypeInv ==
    /\ TypeOK
    /\ \A m \in Mount, p \in Path : ~up[m] => node[m][p] = None
    /\ \A m \in Mount, p \in Path : node[m][p] = None <=> user[m][p] = None

LEMMA TypeInvInit == Init => TypeInv
<1> SUFFICES ASSUME Init PROVE TypeInv
  OBVIOUS
<1>1. catalog \in [Path -> Seq(Byte) \cup {None}]
  BY ContentIsSeq DEF Init
<1> QED
  BY <1>1, XetfsAssumption DEF Init, TypeInv, TypeOK, Nothing

\* A registration changes the entry of its key only, and everybody else is told
\* apart from who made it.
LEMMA RegisteredType ==
    ASSUME TypeInv, NEW p \in Path, NEW hash \in Seq(Byte), NEW who, Registered(p, hash, who)
    PROVE  /\ catalog' \in [Path -> Seq(Byte) \cup {None}]
           /\ moved' \in [Mount -> [Path -> BOOLEAN]]
           /\ catalog'[p] = hash
           /\ \A q \in Path : q # p => catalog'[q] = catalog[q]
           /\ \A m \in Mount : moved'[m][p] = (m # who)
           /\ \A m \in Mount, q \in Path : q # p => moved'[m][q] = moved[m][q]
BY DEF TypeInv, TypeOK, Registered

LEMMA ServerType ==
    ASSUME TypeInv, ServerRestart \/ \E p \in Path, hash \in Content : AgentIngests(p, hash)
    PROVE  TypeInv'
<1>1. /\ catalog' \in [Path -> Seq(Byte) \cup {None}]
      /\ moved' \in [Mount -> [Path -> BOOLEAN]]
  <2>1. CASE ServerRestart
    BY <2>1 DEF ServerRestart, Nothing
  <2>2. ASSUME NEW p \in Path, NEW hash \in Content, AgentIngests(p, hash)
        PROVE  /\ catalog' \in [Path -> Seq(Byte) \cup {None}]
               /\ moved' \in [Mount -> [Path -> BOOLEAN]]
    BY <2>2, ContentIsSeq, RegisteredType DEF AgentIngests
  <2> QED
    BY <2>1, <2>2
<1>2. UNCHANGED <<up, node, staging, cache, handles, user, failed>>
  BY DEF ServerRestart, AgentIngests
<1> QED
  BY <1>1, <1>2 DEF TypeInv, TypeOK

LEMMA ConnectType == ASSUME TypeInv, NEW m \in Mount, Connect(m) PROVE TypeInv'
<1> USE XetfsAssumption DEF TypeInv, TypeOK, Connect
<1> DEFINE new == [p \in Path |-> IF catalog[p] = None THEN None
                                  ELSE [hash |-> catalog[p], size |-> Len(catalog[p])]]
<1>1. new \in [Path -> Node \cup {None}] /\ \A p \in Path : new[p] = None <=> catalog[p] = None
  BY DEF Node
<1> HIDE DEF new
<1>2. node' = [node EXCEPT ![m] = new] /\ user' = [user EXCEPT ![m] = catalog]
  BY DEF new
<1> QED
  BY <1>1, <1>2

LEMMA GoneType == ASSUME TypeInv, NEW m \in Mount, Gone(m) PROVE TypeInv'
BY XetfsAssumption DEF TypeInv, TypeOK, Gone, Nothing

LEMMA OpenType == ASSUME TypeInv, NEW m \in Mount, NEW p \in Path, Open(m, p) PROVE TypeInv'
BY XetfsAssumption DEF TypeInv, TypeOK, Open

LEMMA CreateType == ASSUME TypeInv, NEW m \in Mount, NEW p \in Path, Create(m, p) PROVE TypeInv'
<1> DEFINE nd == [hash |-> None, size |-> 0]
           st == [buf |-> <<>>, dirty |-> TRUE]
<1>1. <<>> \in Seq(Byte)
  OBVIOUS
<1>2. /\ nd \in Node /\ nd # None /\ st \in Staging
      /\ <<>> \in Seq(Byte) /\ <<>> # None /\ 1 \in 0..MaxHandles
  <2>1. nd \in Node
    BY DEF Node
  <2>2. st \in Staging
    BY <1>1 DEF Staging
  <2>3. nd # None /\ <<>> # None
    BY <1>1, <2>1, XetfsAssumption, Zenon
  <2>4. 1 \in 0..MaxHandles
    BY XetfsAssumption
  <2> QED
    BY <1>1, <2>1, <2>2, <2>3, <2>4, Zenon
<1>3. /\ node' = [node EXCEPT ![m][p] = nd] /\ staging' = [staging EXCEPT ![m][p] = st]
      /\ handles' = [handles EXCEPT ![m][p] = 1] /\ user' = [user EXCEPT ![m][p] = <<>>]
      /\ up[m] /\ UNCHANGED <<catalog, up, cache, failed, moved>>
  BY DEF Create
<1> HIDE DEF nd, st
<1> QED
  BY <1>2, <1>3 DEF TypeInv, TypeOK

\* The bytes that file_bytes answers with, and what it leaves behind.
LEMMA FileBytesType ==
    ASSUME TypeInv, NEW m \in Mount, NEW p \in Path, node[m][p] # None,
           NEW b \in Content, FileBytes(m, p, b)
    PROVE  /\ cache' \in [Mount -> [Path -> Cached \cup {None}]]
           /\ failed' \in [Mount -> [Path -> BOOLEAN]]
           /\ \A n \in Mount, q \in Path : n # m \/ q # p => cache'[n][q] = cache[n][q]
<1>1. CASE UNCHANGED <<cache, failed>>
  BY <1>1 DEF TypeInv, TypeOK
<1>2. CASE /\ node[m][p].hash # None
           /\ cache' = [cache EXCEPT ![m][p] = [of |-> node[m][p].hash, bytes |-> b]]
           /\ failed' = [failed EXCEPT ![m][p] = @ \/ b # node[m][p].hash]
  <2> DEFINE c == [of |-> node[m][p].hash, bytes |-> b]
  <2>1. node[m][p].hash \in Seq(Byte) /\ b \in Seq(Byte)
    BY <1>2, ContentIsSeq DEF TypeInv, TypeOK, Node
  <2>2. c \in Cached
    BY <2>1 DEF Cached
  <2>3. cache' = [cache EXCEPT ![m][p] = c]
    BY <1>2
  <2> HIDE DEF c
  <2>4. failed' \in [Mount -> [Path -> BOOLEAN]]
    BY <1>2 DEF TypeInv, TypeOK
  <2> QED
    BY <2>2, <2>3, <2>4 DEF TypeInv, TypeOK
<1> QED
  BY <1>1, <1>2 DEF FileBytes

LEMMA ReadType == ASSUME TypeInv, NEW m \in Mount, NEW p \in Path, Read(m, p) PROVE TypeInv'
<1>1. PICK b \in Content : FileBytes(m, p, b)
  BY DEF Read
<1>2. node[m][p] # None /\ UNCHANGED <<catalog, up, node, staging, handles, user, moved>>
  BY DEF Read, TypeInv, TypeOK
<1>3. /\ cache' \in [Mount -> [Path -> Cached \cup {None}]]
      /\ failed' \in [Mount -> [Path -> BOOLEAN]]
      /\ \A n \in Mount, q \in Path : n # m \/ q # p => cache'[n][q] = cache[n][q]
  BY <1>1, <1>2, FileBytesType
<1>4. ASSUME NEW n \in Mount, NEW q \in Path, node'[n][q] = None
      PROVE  staging'[n][q] = None /\ cache'[n][q] = None /\ handles'[n][q] = 0
  <2>1. node[n][q] = None /\ (n # m \/ q # p)
    BY <1>2, <1>4
  <2>2. staging[n][q] = None /\ cache[n][q] = None /\ handles[n][q] = 0
    BY <2>1 DEF TypeInv, TypeOK
  <2>3. cache'[n][q] = cache[n][q]
    BY <1>3, <2>1
  <2> QED
    BY <1>2, <2>2, <2>3
<1> QED
  BY <1>2, <1>3, <1>4 DEF TypeInv, TypeOK

\* The buffer that ensure_staging answers with, and what it leaves behind.
LEMMA StagedType ==
    ASSUME TypeInv, NEW m \in Mount, NEW p \in Path, node[m][p] # None,
           NEW buf \in Content, Staged(m, p, buf)
    PROVE  /\ cache' \in [Mount -> [Path -> Cached \cup {None}]]
           /\ failed' \in [Mount -> [Path -> BOOLEAN]]
           /\ \A n \in Mount, q \in Path : n # m \/ q # p => cache'[n][q] = cache[n][q]
<1>1. CASE UNCHANGED <<cache, failed>>
  BY <1>1 DEF TypeInv, TypeOK
<1>2. CASE FileBytes(m, p, buf)
  BY <1>2, FileBytesType
<1>3. CASE NoBytes(m, p) /\ failed' = [failed EXCEPT ![m][p] = TRUE]
  BY <1>3 DEF NoBytes, TypeInv, TypeOK
<1> QED
  BY <1>1, <1>2, <1>3 DEF Staged

LEMMA EditedType ==
    ASSUME TypeInv, NEW m \in Mount, NEW p \in Path, node[m][p] # None,
           NEW buf \in Content, Staged(m, p, buf), NEW new \in Seq(Byte), Edited(m, p, new),
           NEW told \in Seq(Byte), user' = [user EXCEPT ![m][p] = told]
    PROVE  TypeInv'
<1>1. /\ cache' \in [Mount -> [Path -> Cached \cup {None}]]
      /\ failed' \in [Mount -> [Path -> BOOLEAN]]
      /\ \A n \in Mount, q \in Path : n # m \/ q # p => cache'[n][q] = cache[n][q]
  BY StagedType
<1> DEFINE nd == [node[m][p] EXCEPT !.size = Len(new)]
           st == [buf |-> new, dirty |-> TRUE]
<1>2. nd \in Node /\ nd # None /\ st \in Staging /\ told # None
  <2>1. node[m][p] \in Node
    BY DEF TypeInv, TypeOK
  <2>2. nd \in Node
    <3>1. Len(new) \in Nat
      OBVIOUS
    <3>2. nd = [hash |-> node[m][p].hash, size |-> Len(new)]
      BY <2>1 DEF Node
    <3> QED
      BY <2>1, <3>1, <3>2 DEF Node
  <2>3. st \in Staging
    BY DEF Staging
  <2> HIDE DEF nd, st
  <2> QED
    BY <2>2, <2>3, XetfsAssumption
<1>3. /\ node' = [node EXCEPT ![m][p] = nd] /\ staging' = [staging EXCEPT ![m][p] = st]
      /\ UNCHANGED <<catalog, up, handles, moved>>
  BY DEF Edited, TypeInv, TypeOK
<1> HIDE DEF nd, st
<1> QED
  BY <1>1, <1>2, <1>3 DEF TypeInv, TypeOK

LEMMA WriteType ==
    ASSUME TypeInv, NEW m \in Mount, NEW p \in Path, NEW off \in Nat, NEW d \in Seq(Byte),
           Write(m, p, off, d)
    PROVE  TypeInv'
<1>1. PICK buf \in Content : Staged(m, p, buf) /\ Edited(m, p, Overwrite(buf, off, d))
  BY DEF Write
<1>2. node[m][p] # None /\ user[m][p] \in Seq(Byte)
  BY DEF Write, TypeInv, TypeOK
<1>3. Overwrite(buf, off, d) \in Seq(Byte) /\ Overwrite(user[m][p], off, d) \in Seq(Byte)
  BY <1>2, ContentIsSeq, OverwriteType
<1>4. user' = [user EXCEPT ![m][p] = Overwrite(user[m][p], off, d)]
  BY DEF Write
<1> QED
  BY <1>1, <1>2, <1>3, <1>4, EditedType

LEMMA SetSizeType ==
    ASSUME TypeInv, NEW m \in Mount, NEW p \in Path, NEW n \in Nat, SetSize(m, p, n)
    PROVE  TypeInv'
<1>1. PICK buf \in Content : Staged(m, p, buf) /\ Edited(m, p, Resize(buf, n))
  BY DEF SetSize
<1>2. node[m][p] # None /\ user[m][p] \in Seq(Byte)
  BY DEF SetSize, TypeInv, TypeOK
<1>3. Resize(buf, n) \in Seq(Byte) /\ Resize(user[m][p], n) \in Seq(Byte)
  BY <1>2, ContentIsSeq, ResizeType
<1>4. user' = [user EXCEPT ![m][p] = Resize(user[m][p], n)]
  BY DEF SetSize
<1> QED
  BY <1>1, <1>2, <1>3, <1>4, EditedType

\* A write-back keeps the types of what it changes, and changes nothing else.
LEMMA FlushType ==
    ASSUME TypeInv, NEW m \in Mount, NEW p \in Path, node[m][p] # None, FlushIfDirty(m, p)
    PROVE  /\ catalog' \in [Path -> Seq(Byte) \cup {None}]
           /\ node' \in [Mount -> [Path -> Node \cup {None}]]
           /\ cache' \in [Mount -> [Path -> Cached \cup {None}]]
           /\ failed' \in [Mount -> [Path -> BOOLEAN]]
           /\ moved' \in [Mount -> [Path -> BOOLEAN]]
           /\ node'[m][p] # None
           /\ \A n \in Mount, q \in Path :
                n # m \/ q # p => node'[n][q] = node[n][q] /\ cache'[n][q] = cache[n][q]
<1> USE XetfsAssumption DEF TypeInv, TypeOK
<1>1. CASE Dirty(m, p) /\ Flushed(m, p)
  <2> DEFINE nd == [hash |-> staging[m][p].buf, size |-> Len(staging[m][p].buf)]
  <2>1. staging[m][p].buf \in Seq(Byte) /\ nd \in Node /\ nd # None
    BY <1>1 DEF Dirty, Staging, Node
  <2>2. node' = [node EXCEPT ![m][p] = nd]
    BY <1>1 DEF Flushed
  <2> HIDE DEF nd
  <2>3. catalog' \in [Path -> Seq(Byte) \cup {None}] /\ moved' \in [Mount -> [Path -> BOOLEAN]]
    BY <1>1, <2>1, RegisteredType DEF Flushed
  <2>4. cache' = [cache EXCEPT ![m][p] = None] /\ failed' = failed
    BY <1>1 DEF Flushed
  <2>5. /\ cache' \in [Mount -> [Path -> Cached \cup {None}]]
        /\ \A n \in Mount, q \in Path : n # m \/ q # p => cache'[n][q] = cache[n][q]
    BY <2>4
  <2>6. /\ node' \in [Mount -> [Path -> Node \cup {None}]]
        /\ node'[m][p] # None
        /\ \A n \in Mount, q \in Path : n # m \/ q # p => node'[n][q] = node[n][q]
    BY <2>1, <2>2
  <2> QED
    BY <2>3, <2>4, <2>5, <2>6
<1>2. CASE Dirty(m, p) /\ FlushFailed(m, p)
  <2>1. staging[m][p].buf \in Seq(Byte)
    BY <1>2 DEF Dirty, Staging
  <2>2. catalog' \in [Path -> Seq(Byte) \cup {None}] /\ moved' \in [Mount -> [Path -> BOOLEAN]]
    BY <1>2, <2>1, RegisteredType DEF FlushFailed
  <2>3. failed' = [failed EXCEPT ![m][p] = TRUE] /\ UNCHANGED <<node, cache>>
    BY <1>2 DEF FlushFailed
  <2>4. failed' \in [Mount -> [Path -> BOOLEAN]]
    BY <2>3
  <2> QED
    BY <2>2, <2>3, <2>4
<1>3. CASE ~Dirty(m, p)
  BY <1>3 DEF FlushIfDirty
<1> QED
  BY <1>1, <1>2, <1>3 DEF FlushIfDirty

LEMMA AfterFlushType ==
    ASSUME TypeInv, NEW m \in Mount, NEW p \in Path, node[m][p] # None, FlushIfDirty(m, p),
           NEW st \in Staging \cup {None}, staging' = [staging EXCEPT ![m][p] = st],
           NEW h \in 0..MaxHandles, handles' = [handles EXCEPT ![m][p] = h],
           UNCHANGED <<up, user>>
    PROVE  TypeInv'
<1>1. /\ catalog' \in [Path -> Seq(Byte) \cup {None}]
      /\ node' \in [Mount -> [Path -> Node \cup {None}]]
      /\ cache' \in [Mount -> [Path -> Cached \cup {None}]]
      /\ failed' \in [Mount -> [Path -> BOOLEAN]]
      /\ moved' \in [Mount -> [Path -> BOOLEAN]]
      /\ node'[m][p] # None
      /\ \A n \in Mount, q \in Path :
           n # m \/ q # p => node'[n][q] = node[n][q] /\ cache'[n][q] = cache[n][q]
  BY FlushType
<1>2. \A n \in Mount, q \in Path : node'[n][q] = None <=> node[n][q] = None
  BY <1>1
<1>3. /\ staging' \in [Mount -> [Path -> Staging \cup {None}]]
      /\ handles' \in [Mount -> [Path -> 0..MaxHandles]]
      /\ up' \in [Mount -> BOOLEAN]
      /\ user' \in [Mount -> [Path -> Seq(Byte) \cup {None}]]
  BY DEF TypeInv, TypeOK
<1>4. \A n \in Mount, q \in Path : node'[n][q] = None =>
        staging'[n][q] = None /\ cache'[n][q] = None /\ handles'[n][q] = 0
  BY <1>1, <1>2 DEF TypeInv, TypeOK
<1>5. \A n \in Mount, q \in Path :
        /\ ~up'[n] => node'[n][q] = None
        /\ node'[n][q] = None <=> user'[n][q] = None
  BY <1>2 DEF TypeInv
<1> QED
  BY <1>1, <1>3, <1>4, <1>5 DEF TypeInv, TypeOK

LEMMA FsyncType == ASSUME TypeInv, NEW m \in Mount, NEW p \in Path, Fsync(m, p) PROVE TypeInv'
<1> DEFINE st == IF staging[m][p] = None THEN None ELSE [staging[m][p] EXCEPT !.dirty = FALSE]
<1>1. node[m][p] # None /\ FlushIfDirty(m, p) /\ UNCHANGED <<up, user>>
  BY DEF Fsync, TypeInv, TypeOK
<1>2. st \in Staging \cup {None}
  <2>1. staging[m][p] \in Staging \cup {None}
    BY DEF TypeInv, TypeOK
  <2> QED
    BY <2>1 DEF Staging
<1>3. staging' = [staging EXCEPT ![m][p] = st]
  BY DEF Fsync, TypeInv, TypeOK
<1>4. handles[m][p] \in 0..MaxHandles /\ handles' = [handles EXCEPT ![m][p] = handles[m][p]]
  BY DEF Fsync, TypeInv, TypeOK
<1> HIDE DEF st
<1> QED
  BY <1>1, <1>2, <1>3, <1>4, AfterFlushType

LEMMA ReleaseType == ASSUME TypeInv, NEW m \in Mount, NEW p \in Path, Release(m, p) PROVE TypeInv'
<1>1. node[m][p] # None /\ FlushIfDirty(m, p) /\ UNCHANGED <<up, user>>
  BY DEF Release, TypeInv, TypeOK
<1>2. handles[m][p] - 1 \in 0..MaxHandles
  BY XetfsAssumption DEF Release, TypeInv, TypeOK
<1>3. /\ staging' = [staging EXCEPT ![m][p] = None]
      /\ handles' = [handles EXCEPT ![m][p] = handles[m][p] - 1]
  BY DEF Release, TypeInv, TypeOK
<1> QED
  BY <1>1, <1>2, <1>3, AfterFlushType

LEMMA TypeInvStep == TypeInv /\ [Next]_vars => TypeInv'
<1> SUFFICES ASSUME TypeInv, [Next]_vars PROVE TypeInv'
  OBVIOUS
<1>1. ASSUME NEW m \in Mount, Connect(m) \/ Unmount(m) \/ Kill(m)
      PROVE  TypeInv'
  BY <1>1, ConnectType, GoneType DEF Unmount, Kill
<1>2. ASSUME NEW m \in Mount, NEW p \in Path, Request(m, p)
      PROVE  TypeInv'
  <2>1. ASSUME NEW off \in 0..MaxSize, NEW d \in Content, Write(m, p, off, d)
        PROVE  TypeInv'
    BY <2>1, ContentIsSeq, WriteType
  <2>2. ASSUME NEW n \in 0..MaxSize, SetSize(m, p, n)
        PROVE  TypeInv'
    BY <2>2, SetSizeType
  <2> QED
    BY <1>2, <2>1, <2>2, OpenType, CreateType, ReadType, FsyncType, ReleaseType DEF Request
<1>3. CASE ServerRestart \/ \E p \in Path, hash \in Content : AgentIngests(p, hash)
  BY <1>3, ServerType
<1>4. CASE UNCHANGED vars
  BY <1>4 DEF vars, TypeInv, TypeOK
<1> QED
  BY <1>1, <1>2, <1>3, <1>4 DEF Next

LEMMA TypeInvAlways == Spec => []TypeInv
BY TypeInvInit, TypeInvStep, PTL DEF Spec

\* Every variable of every mount keeps its type, whatever fails: only files
\* that have an inode are staged, cached or open, and buffers stay sequences of
\* bytes over writes behind their end, truncations and failed seedings.
THEOREM MountTypeCorrect == Spec => []TypeOK
<1>1. TypeInv => TypeOK
  BY DEF TypeInv
<1> QED
  BY <1>1, TypeInvAlways, PTL

-----------------------------------------------------------------------------
(* What a mount knows of one file *)

\* The cached bytes were reconstructed from the inode's file hash.
CacheSound(m, p) == cache[m][p] # None => cache[m][p].of = node[m][p].hash

\* As long as no request for the file has failed or returned other bytes, it is
\* served as it was written and reported with its length, and its cached bytes,
\* and a buffer that is not dirty, are the file of the inode's hash.
ServedSound(m, p) ==
    Undisturbed(m, p) =>
        /\ Served(m, p) = user[m][p]
        /\ node[m][p].size = Len(Served(m, p))
        /\ staging[m][p] # None /\ ~Dirty(m, p) => node[m][p].hash = staging[m][p].buf
        /\ cache[m][p] # None => cache[m][p].bytes = node[m][p].hash

FileInv(m, p) == CacheSound(m, p) /\ ServedSound(m, p)

\* A step that leaves a file of a mount alone keeps what is known of it.
LEMMA FileFrame ==
    ASSUME NEW m \in Mount, NEW p \in Path, FileInv(m, p),
           node'[m][p] = node[m][p], staging'[m][p] = staging[m][p],
           cache'[m][p] = cache[m][p], user'[m][p] = user[m][p], failed'[m][p] = failed[m][p]
    PROVE  FileInv(m, p)'
BY DEF FileInv, CacheSound, ServedSound, Undisturbed, Served, Dirty

LEMMA ConnectFile ==
    ASSUME TypeInv, NEW m \in Mount, NEW p \in Path, Connect(m)
    PROVE  FileInv(m, p)'
<1>1. staging[m][p] = None /\ cache[m][p] = None
  BY DEF TypeInv, TypeOK, Connect
<1>2. /\ node'[m][p] = IF catalog[p] = None THEN None
                       ELSE [hash |-> catalog[p], size |-> Len(catalog[p])]
      /\ user'[m][p] = catalog[p] /\ staging'[m][p] = None /\ cache'[m][p] = None
  BY <1>1 DEF Connect, TypeInv, TypeOK
<1> QED
  BY <1>2 DEF FileInv, CacheSound, ServedSound, Undisturbed, Served

LEMMA GoneFile ==
    ASSUME TypeInv, NEW m \in Mount, NEW p \in Path, Gone(m)
    PROVE  FileInv(m, p)'
<1>1. node'[m][p] = None /\ cache'[m][p] = None
  BY DEF Gone, Nothing, TypeInv, TypeOK
<1> QED
  BY <1>1 DEF FileInv, CacheSound, ServedSound, Undisturbed

LEMMA CreateFile ==
    ASSUME TypeInv, NEW m \in Mount, NEW p \in Path, Create(m, p)
    PROVE  FileInv(m, p)'
<1>1. cache[m][p] = None
  BY DEF TypeInv, TypeOK, Create
<1>2. /\ node'[m][p] = [hash |-> None, size |-> 0]
      /\ staging'[m][p] = [buf |-> <<>>, dirty |-> TRUE]
      /\ user'[m][p] = <<>> /\ cache'[m][p] = None
  BY <1>1 DEF Create, TypeInv, TypeOK
<1>3. staging'[m][p] # None
  <2>1. staging'[m][p] \in Staging
    BY <1>2, EmptySeq DEF Staging
  <2> QED
    BY <2>1, XetfsAssumption
<1> QED
  BY <1>2, <1>3 DEF FileInv, CacheSound, ServedSound, Undisturbed, Served, Dirty

\* file_bytes answers with what applications were told, or it is remembered
\* that it did not.
LEMMA FileBytesHolds ==
    ASSUME TypeInv, NEW m \in Mount, NEW p \in Path, node[m][p] # None, FileInv(m, p),
           staging[m][p] = None, NEW b \in Content, FileBytes(m, p, b)
    PROVE  /\ cache'[m][p] # None /\ cache'[m][p].of = node[m][p].hash
           /\ ~failed'[m][p] =>
                /\ ~failed[m][p]
                /\ b = user[m][p] /\ b = node[m][p].hash
                /\ cache'[m][p].bytes = b
<1> USE DEF FileInv, CacheSound, ServedSound, Undisturbed, Served
<1>1. CASE cache[m][p] # None /\ b = cache[m][p].bytes /\ UNCHANGED <<cache, failed>>
  BY <1>1
<1>2. CASE /\ cache[m][p] = None
           /\ node[m][p].hash # None
           /\ cache' = [cache EXCEPT ![m][p] = [of |-> node[m][p].hash, bytes |-> b]]
           /\ failed' = [failed EXCEPT ![m][p] = @ \/ b # node[m][p].hash]
  <2>1. /\ cache'[m][p] = [of |-> node[m][p].hash, bytes |-> b]
        /\ failed'[m][p] = (failed[m][p] \/ b # node[m][p].hash)
    BY <1>2 DEF TypeInv, TypeOK
  <2>2. cache'[m][p] # None
    <3>1. node[m][p].hash \in Seq(Byte) /\ b \in Seq(Byte)
      BY <1>2, ContentIsSeq DEF TypeInv, TypeOK, Node
    <3>2. cache'[m][p] \in Cached
      BY <2>1, <3>1 DEF Cached
    <3> QED
      BY <3>2, XetfsAssumption
  <2>3. cache'[m][p].of = node[m][p].hash /\ cache'[m][p].bytes = b
    BY <2>1
  <2>4. ~failed'[m][p] => ~failed[m][p] /\ b = node[m][p].hash
    BY <2>1, Zenon
  <2>5. ~failed[m][p] => node[m][p].hash = user[m][p]
    BY <1>2
  <2> QED
    BY <2>2, <2>3, <2>4, <2>5, Zenon
<1> QED
  BY <1>1, <1>2 DEF FileBytes

LEMMA ReadFile ==
    ASSUME TypeInv, NEW m \in Mount, NEW p \in Path, FileInv(m, p), Read(m, p)
    PROVE  FileInv(m, p)'
<1>1. PICK b \in Content : FileBytes(m, p, b)
  BY DEF Read
<1>2. /\ node[m][p] # None /\ staging[m][p] = None
      /\ node'[m][p] = node[m][p] /\ staging'[m][p] = None /\ user'[m][p] = user[m][p]
  BY DEF Read, TypeInv, TypeOK
<1>3. /\ cache'[m][p] # None /\ cache'[m][p].of = node[m][p].hash
      /\ ~failed'[m][p] =>
           /\ ~failed[m][p]
           /\ b = user[m][p] /\ b = node[m][p].hash
           /\ cache'[m][p].bytes = b
  BY <1>1, <1>2, FileBytesHolds
<1>4. ~failed'[m][p] => node[m][p].size = Len(b)
  BY <1>2, <1>3 DEF FileInv, ServedSound, Undisturbed
<1> QED
  BY <1>2, <1>3, <1>4 DEF FileInv, CacheSound, ServedSound, Undisturbed, Served

\* A buffer that was found or made holds what applications were told.
LEMMA StagedHolds ==
    ASSUME TypeInv, NEW m \in Mount, NEW p \in Path, node[m][p] # None, FileInv(m, p),
           NEW buf \in Content, Staged(m, p, buf)
    PROVE  /\ cache'[m][p] # None => cache'[m][p].of = node[m][p].hash
           /\ ~failed'[m][p] =>
                /\ ~failed[m][p]
                /\ buf = user[m][p]
                /\ cache'[m][p] # None => cache'[m][p].bytes = node[m][p].hash
<1>1. CASE staging[m][p] # None /\ buf = staging[m][p].buf /\ UNCHANGED <<cache, failed>>
  BY <1>1 DEF FileInv, CacheSound, ServedSound, Undisturbed, Served
<1>2. CASE staging[m][p] = None /\ FileBytes(m, p, buf)
  BY <1>2, FileBytesHolds
<1>3. CASE NoBytes(m, p) /\ failed' = [failed EXCEPT ![m][p] = TRUE]
  BY <1>3 DEF NoBytes, TypeInv, TypeOK
<1> QED
  BY <1>1, <1>2, <1>3 DEF Staged

LEMMA EditedFile ==
    ASSUME TypeInv, NEW m \in Mount, NEW p \in Path, node[m][p] # None, FileInv(m, p),
           NEW buf \in Content, Staged(m, p, buf), NEW new \in Seq(Byte), Edited(m, p, new),
           NEW told \in Seq(Byte), user' = [user EXCEPT ![m][p] = told],
           buf = user[m][p] => new = told
    PROVE  FileInv(m, p)'
<1>1. /\ staging'[m][p] = [buf |-> new, dirty |-> TRUE]
      /\ node'[m][p].size = Len(new) /\ node'[m][p].hash = node[m][p].hash
      /\ user'[m][p] = told
  <2>1. node[m][p] \in Node
    BY DEF TypeInv, TypeOK
  <2>2. node'[m][p] = [node[m][p] EXCEPT !.size = Len(new)]
    BY DEF Edited, TypeInv, TypeOK
  <2>3. staging'[m][p] = [buf |-> new, dirty |-> TRUE] /\ user'[m][p] = told
    BY DEF Edited, TypeInv, TypeOK
  <2> QED
    BY <2>1, <2>2, <2>3 DEF Node
<1>2. staging'[m][p] # None
  <2>1. staging'[m][p] \in Staging
    BY <1>1 DEF Staging
  <2> QED
    BY <2>1, XetfsAssumption
<1> QED
  BY <1>1, <1>2, StagedHolds DEF FileInv, CacheSound, ServedSound, Undisturbed, Served, Dirty

LEMMA WriteFile ==
    ASSUME TypeInv, NEW m \in Mount, NEW p \in Path, FileInv(m, p),
           NEW off \in Nat, NEW d \in Seq(Byte), Write(m, p, off, d)
    PROVE  FileInv(m, p)'
<1>1. PICK buf \in Content : Staged(m, p, buf) /\ Edited(m, p, Overwrite(buf, off, d))
  BY DEF Write
<1>2. node[m][p] # None /\ user[m][p] \in Seq(Byte)
  BY DEF Write, TypeInv, TypeOK
<1>3. Overwrite(buf, off, d) \in Seq(Byte) /\ Overwrite(user[m][p], off, d) \in Seq(Byte)
  BY <1>2, ContentIsSeq, OverwriteType
<1>4. user' = [user EXCEPT ![m][p] = Overwrite(user[m][p], off, d)]
  BY DEF Write
<1> QED
  BY <1>1, <1>2, <1>3, <1>4, EditedFile

LEMMA SetSizeFile ==
    ASSUME TypeInv, NEW m \in Mount, NEW p \in Path, FileInv(m, p),
           NEW n \in Nat, SetSize(m, p, n)
    PROVE  FileInv(m, p)'
<1>1. PICK buf \in Content : Staged(m, p, buf) /\ Edited(m, p, Resize(buf, n))
  BY DEF SetSize
<1>2. node[m][p] # None /\ user[m][p] \in Seq(Byte)
  BY DEF SetSize, TypeInv, TypeOK
<1>3. Resize(buf, n) \in Seq(Byte) /\ Resize(user[m][p], n) \in Seq(Byte)
  BY <1>2, ContentIsSeq, ResizeType
<1>4. user' = [user EXCEPT ![m][p] = Resize(user[m][p], n)]
  BY DEF SetSize
<1> QED
  BY <1>1, <1>2, <1>3, <1>4, EditedFile

\* A write-back that works makes the buffer the file of the hash and empties
\* the cache; one that fails is remembered.
LEMMA FlushHolds ==
    ASSUME TypeInv, NEW m \in Mount, NEW p \in Path, node[m][p] # None, FileInv(m, p),
           FlushIfDirty(m, p)
    PROVE  /\ cache'[m][p] # None => cache'[m][p].of = node'[m][p].hash
           /\ ~failed'[m][p] /\ cache'[m][p] # None => cache'[m][p].bytes = node'[m][p].hash
           /\ ~failed'[m][p] /\ staging[m][p] # None =>
                /\ ~failed[m][p]
                /\ node'[m][p].hash = staging[m][p].buf
                /\ node'[m][p].size = Len(staging[m][p].buf)
           /\ ~failed'[m][p] /\ staging[m][p] = None =>
                UNCHANGED <<node, cache, failed>>
<1>1. CASE Dirty(m, p) /\ Flushed(m, p)
  <2>1. /\ node'[m][p] = [hash |-> staging[m][p].buf, size |-> Len(staging[m][p].buf)]
        /\ cache'[m][p] = None /\ failed' = failed /\ staging[m][p] # None
    BY <1>1 DEF Flushed, Dirty, TypeInv, TypeOK
  <2> QED
    BY <2>1
<1>2. CASE Dirty(m, p) /\ FlushFailed(m, p)
  BY <1>2 DEF FlushFailed, FileInv, CacheSound, TypeInv, TypeOK
<1>3. CASE ~Dirty(m, p) /\ UNCHANGED <<catalog, node, cache, failed, moved>>
  BY <1>3 DEF FileInv, CacheSound, ServedSound, Undisturbed, Served
<1> QED
  BY <1>1, <1>2, <1>3 DEF FlushIfDirty

LEMMA FsyncFile ==
    ASSUME TypeInv, NEW m \in Mount, NEW p \in Path, FileInv(m, p), Fsync(m, p)
    PROVE  FileInv(m, p)'
<1>1. node[m][p] # None /\ FlushIfDirty(m, p) /\ user' = user
  BY DEF Fsync, TypeInv, TypeOK
<1>2. staging'[m][p] = IF staging[m][p] = None THEN None ELSE [staging[m][p] EXCEPT !.dirty = FALSE]
  BY DEF Fsync, TypeInv, TypeOK
<1>3. CASE staging[m][p] = None
  BY <1>1, <1>2, <1>3, FlushHolds DEF FileInv, CacheSound, ServedSound, Undisturbed, Served
<1>4. CASE staging[m][p] # None
  <2>1. staging[m][p] \in Staging
    BY <1>4 DEF TypeInv, TypeOK
  <2>2. staging'[m][p] \in Staging /\ staging'[m][p].buf = staging[m][p].buf
    BY <1>2, <1>4, <2>1 DEF Staging
  <2>3. staging'[m][p] # None
    BY <2>2, XetfsAssumption
  <2> QED
    BY <1>1, <1>4, <2>2, <2>3, FlushHolds
    DEF FileInv, CacheSound, ServedSound, Undisturbed, Served
<1> QED
  BY <1>3, <1>4

LEMMA ReleaseFile ==
    ASSUME TypeInv, NEW m \in Mount, NEW p \in Path, FileInv(m, p), Release(m, p)
    PROVE  FileInv(m, p)'
<1>1. node[m][p] # None /\ FlushIfDirty(m, p) /\ user' = user /\ staging'[m][p] = None
  BY DEF Release, TypeInv, TypeOK
<1>2. CASE staging[m][p] = None
  BY <1>1, <1>2, FlushHolds DEF FileInv, CacheSound, ServedSound, Undisturbed, Served
<1>3. CASE staging[m][p] # None
  BY <1>1, <1>3, FlushHolds DEF FileInv, CacheSound, ServedSound, Undisturbed, Served
<1> QED
  BY <1>2, <1>3

\* A request for one file leaves the others alone.
LEMMA RequestFrame ==
    ASSUME TypeInv, NEW m \in Mount, NEW p \in Path, Request(m, p),
           NEW n \in Mount, NEW q \in Path, n # m \/ q # p
    PROVE  /\ node'[n][q] = node[n][q] /\ staging'[n][q] = staging[n][q]
           /\ cache'[n][q] = cache[n][q] /\ user'[n][q] = user[n][q]
           /\ failed'[n][q] = failed[n][q]
<1> USE DEF TypeInv, TypeOK
<1>1. CASE Open(m, p) \/ Create(m, p) \/ Read(m, p)
  BY <1>1 DEF Open, Create, Read, FileBytes
<1>2. ASSUME NEW buf, Staged(m, p, buf), NEW new, Edited(m, p, new),
             NEW told, user' = [user EXCEPT ![m][p] = told]
      PROVE  /\ node'[n][q] = node[n][q] /\ staging'[n][q] = staging[n][q]
             /\ cache'[n][q] = cache[n][q] /\ user'[n][q] = user[n][q]
             /\ failed'[n][q] = failed[n][q]
  BY <1>2 DEF Staged, FileBytes, NoBytes, Edited
<1>3. CASE Fsync(m, p) \/ Release(m, p)
  BY <1>3 DEF Fsync, Release, FlushIfDirty, Flushed, FlushFailed
<1>4. ASSUME NEW off, NEW d, Write(m, p, off, d)
      PROVE  /\ node'[n][q] = node[n][q] /\ staging'[n][q] = staging[n][q]
             /\ cache'[n][q] = cache[n][q] /\ user'[n][q] = user[n][q]
             /\ failed'[n][q] = failed[n][q]
  BY <1>2, <1>4 DEF Write
<1>5. ASSUME NEW k, SetSize(m, p, k)
      PROVE  /\ node'[n][q] = node[n][q] /\ staging'[n][q] = staging[n][q]
             /\ cache'[n][q] = cache[n][q] /\ user'[n][q] = user[n][q]
             /\ failed'[n][q] = failed[n][q]
  BY <1>2, <1>5 DEF SetSize
<1> QED
  BY <1>1, <1>3, <1>4, <1>5 DEF Request

LEMMA RequestFile ==
    ASSUME TypeInv, NEW m \in Mount, NEW p \in Path, FileInv(m, p), Request(m, p)
    PROVE  FileInv(m, p)'
<1>1. CASE Open(m, p)
  BY <1>1, FileFrame DEF Open
<1>2. ASSUME NEW off \in 0..MaxSize, NEW d \in Content, Write(m, p, off, d)
      PROVE  FileInv(m, p)'
  BY <1>2, ContentIsSeq, WriteFile
<1>3. ASSUME NEW n \in 0..MaxSize, SetSize(m, p, n)
      PROVE  FileInv(m, p)'
  BY <1>3, SetSizeFile
<1> QED
  BY <1>1, <1>2, <1>3, CreateFile, ReadFile, FsyncFile, ReleaseFile DEF Request

AllFilesInv == \A m \in Mount, p \in Path : FileInv(m, p)

LEMMA AllFilesStep == TypeInv /\ AllFilesInv /\ [Next]_vars => AllFilesInv'
<1> SUFFICES ASSUME TypeInv, AllFilesInv, [Next]_vars, NEW n \in Mount, NEW q \in Path
             PROVE  FileInv(n, q)'
  BY DEF AllFilesInv
<1>1. FileInv(n, q)
  BY DEF AllFilesInv
<1>2. ASSUME NEW m \in Mount, Connect(m) \/ Gone(m)
      PROVE  FileInv(n, q)'
  <2>1. CASE n = m
    BY <1>2, <2>1, ConnectFile, GoneFile
  <2>2. CASE n # m
    <3>1. /\ node'[n][q] = node[n][q] /\ staging'[n][q] = staging[n][q]
          /\ cache'[n][q] = cache[n][q] /\ user'[n][q] = user[n][q]
          /\ failed'[n][q] = failed[n][q]
      BY <1>2, <2>2 DEF Connect, Gone, TypeInv, TypeOK
    <3> QED
      BY <1>1, <3>1, FileFrame
  <2> QED
    BY <2>1, <2>2
<1>3. ASSUME NEW m \in Mount, NEW p \in Path, Request(m, p)
      PROVE  FileInv(n, q)'
  <2>1. CASE n = m /\ q = p
    BY <1>1, <1>3, <2>1, RequestFile
  <2>2. CASE n # m \/ q # p
    BY <1>1, <1>3, <2>2, RequestFrame, FileFrame
  <2> QED
    BY <2>1, <2>2
<1>4. CASE \/ UNCHANGED vars \/ ServerRestart
           \/ \E p \in Path, hash \in Content : AgentIngests(p, hash)
  BY <1>1, <1>4, FileFrame DEF vars, ServerRestart, AgentIngests
<1> QED
  BY <1>2, <1>3, <1>4 DEF Next, Unmount, Kill

LEMMA AllFilesAlways == Spec => []AllFilesInv
<1>1. Init => AllFilesInv
  BY DEF Init, Nothing, AllFilesInv, FileInv, CacheSound, ServedSound, Undisturbed
<1> QED
  BY <1>1, AllFilesStep, TypeInvAlways, PTL DEF Spec

\* What is cached for an inode was reconstructed from the file hash the inode
\* has, never from an earlier one: for any number of mounts, whatever agents
\* register, and whatever fails.  (It is the right file as far as reconstruct
\* returned the right file.)
THEOREM CachesAreCoherent == Spec => []CacheCoherent
<1>1. AllFilesInv => CacheCoherent
  BY DEF AllFilesInv, FileInv, CacheSound, CacheCoherent
<1> QED
  BY <1>1, AllFilesAlways, PTL

\* A read of a file for which no request has failed or returned other bytes is
\* served what was last written, over any sequence of requests on any number of
\* handles, and whatever agents, other mounts and restarts of the server do to
\* the catalog.
THEOREM ReadsAreCurrent == Spec => []ReadsCurrent
<1>1. AllFilesInv => ReadsCurrent
  BY DEF AllFilesInv, FileInv, ServedSound, ReadsCurrent
<1> QED
  BY <1>1, AllFilesAlways, PTL

\* Under the same conditions getattr reports the length of what a read gets.
THEOREM SizesAreServed == Spec => []SizeIsServed
<1>1. AllFilesInv => SizeIsServed
  BY DEF AllFilesInv, FileInv, ServedSound, SizeIsServed
<1> QED
  BY <1>1, AllFilesAlways, PTL

-----------------------------------------------------------------------------
(* What a mount has written back *)

\* The catalog has the file as applications left it, unless it is dirty or
\* somebody else has changed the entry.
Persisted(m, p) ==
    Undisturbed(m, p) /\ ~Dirty(m, p) /\ ~moved[m][p] => catalog[p] = user[m][p]

\* A step that leaves a file of a mount alone, and its catalog entry too or says
\* that it did not, keeps this.
LEMMA PersistedFrame ==
    ASSUME NEW m \in Mount, NEW p \in Path, Persisted(m, p),
           moved'[m][p] \/ (catalog'[p] = catalog[p] /\ moved'[m][p] = moved[m][p]),
           node'[m][p] = node[m][p], staging'[m][p] = staging[m][p],
           user'[m][p] = user[m][p], failed'[m][p] = failed[m][p]
    PROVE  Persisted(m, p)'
BY DEF Persisted, Undisturbed, Dirty

\* Only a write-back of a file changes its catalog entry, and every other mount
\* is told.
LEMMA RequestCatalog ==
    ASSUME TypeInv, NEW m \in Mount, NEW p \in Path, Request(m, p),
           NEW n \in Mount, NEW q \in Path, n # m \/ q # p
    PROVE  moved'[n][q] \/ (catalog'[q] = catalog[q] /\ moved'[n][q] = moved[n][q])
<1>1. CASE UNCHANGED <<catalog, moved>>
  BY <1>1
<1>2. CASE Dirty(m, p) /\ Registered(p, staging[m][p].buf, m)
  <2>1. staging[m][p].buf \in Seq(Byte)
    BY <1>2 DEF Dirty, Staging, TypeInv, TypeOK
  <2> QED
    BY <1>2, <2>1, RegisteredType
<1> QED
  BY <1>1, <1>2 DEF Request, Open, Create, Read, Write, SetSize, Edited,
                    Fsync, Release, FlushIfDirty, Flushed, FlushFailed

\* fsync, flush and release write back what is dirty, or remember that they
\* could not.
LEMMA FlushPersists ==
    ASSUME TypeInv, NEW m \in Mount, NEW p \in Path, node[m][p] # None, FileInv(m, p),
           Persisted(m, p), FlushIfDirty(m, p), ~failed'[m][p], ~moved'[m][p]
    PROVE  catalog'[p] = user[m][p]
<1>1. CASE Dirty(m, p) /\ Flushed(m, p)
  <2>1. failed' = failed /\ staging[m][p] # None /\ staging[m][p].buf \in Seq(Byte)
    BY <1>1 DEF Flushed, Dirty, Staging, TypeInv, TypeOK
  <2>2. catalog'[p] = staging[m][p].buf
    BY <1>1, <2>1, RegisteredType DEF Flushed
  <2> QED
    BY <2>1, <2>2 DEF FileInv, ServedSound, Undisturbed, Served
<1>2. ASSUME FlushFailed(m, p)
      PROVE  FALSE
  BY <1>2 DEF FlushFailed, TypeInv, TypeOK
<1>3. CASE ~Dirty(m, p) /\ UNCHANGED <<catalog, node, cache, failed, moved>>
  BY <1>3 DEF Persisted, Undisturbed
<1> QED
  BY <1>1, <1>2, <1>3 DEF FlushIfDirty

LEMMA RequestPersists ==
    ASSUME TypeInv, NEW m \in Mount, NEW p \in Path, FileInv(m, p), Persisted(m, p), Request(m, p)
    PROVE  Persisted(m, p)'
<1>1. CASE Open(m, p)
  BY <1>1, PersistedFrame DEF Open
<1>2. CASE Read(m, p)
  <2>1. PICK b \in Content : FileBytes(m, p, b)
    BY <1>2 DEF Read
  <2>2. ~failed'[m][p] => ~failed[m][p]
    BY <2>1 DEF FileBytes, TypeInv, TypeOK
  <2> QED
    BY <1>2, <2>2 DEF Read, Persisted, Undisturbed, Dirty
<1>3. ASSUME staging'[m][p] \in Staging, staging'[m][p].dirty
      PROVE  Persisted(m, p)'
  BY <1>3, XetfsAssumption DEF Persisted, Dirty
<1>4. CASE Create(m, p)
  <2>1. staging'[m][p] = [buf |-> <<>>, dirty |-> TRUE]
    BY <1>4 DEF Create, TypeInv, TypeOK
  <2> QED
    BY <1>3, <2>1, EmptySeq DEF Staging
<1>5. ASSUME NEW new \in Seq(Byte), Edited(m, p, new)
      PROVE  Persisted(m, p)'
  <2>1. staging'[m][p] = [buf |-> new, dirty |-> TRUE]
    BY <1>5 DEF Edited, TypeInv, TypeOK
  <2> QED
    BY <1>3, <2>1 DEF Staging
<1>6. ASSUME NEW off \in 0..MaxSize, NEW d \in Content, Write(m, p, off, d)
      PROVE  Persisted(m, p)'
  BY <1>5, <1>6, ContentIsSeq, OverwriteType DEF Write
<1>7. ASSUME NEW n \in 0..MaxSize, SetSize(m, p, n)
      PROVE  Persisted(m, p)'
  BY <1>5, <1>7, ContentIsSeq, ResizeType DEF SetSize
<1>8. CASE Fsync(m, p) \/ Release(m, p)
  <2>1. node[m][p] # None /\ FlushIfDirty(m, p) /\ user' = user
    BY <1>8 DEF Fsync, Release, TypeInv, TypeOK
  <2> QED
    BY <2>1, FlushPersists DEF Persisted, Undisturbed
<1> QED
  BY <1>1, <1>2, <1>4, <1>6, <1>7, <1>8 DEF Request

\* For any number of mounts: a file for which no request has failed or returned
\* other bytes is in the catalog as applications left it as soon as it is not
\* dirty, until an agent or another mount registers a file under its key or the
\* server restarts.
THEOREM CleanFilesArePersisted == Spec => []CleanIsPersisted
<1>1. Init => CleanIsPersisted
  BY DEF Init, Nothing, CleanIsPersisted, Undisturbed
<1>2. TypeInv /\ AllFilesInv /\ CleanIsPersisted /\ [Next]_vars => CleanIsPersisted'
  <2> SUFFICES ASSUME TypeInv, AllFilesInv, CleanIsPersisted, [Next]_vars,
                      NEW n \in Mount, NEW q \in Path
               PROVE  Persisted(n, q)'
    BY DEF CleanIsPersisted, Persisted
  <2>1. FileInv(n, q) /\ Persisted(n, q)
    BY DEF AllFilesInv, CleanIsPersisted, Persisted
  <2>2. ASSUME NEW m \in Mount, Connect(m)
        PROVE  Persisted(n, q)'
    <3>1. CASE n = m
      BY <2>2, <3>1 DEF Connect, Persisted, TypeInv, TypeOK
    <3>2. CASE n # m
      BY <2>1, <2>2, <3>2, PersistedFrame DEF Connect, TypeInv, TypeOK
    <3> QED
      BY <3>1, <3>2
  <2>3. ASSUME NEW m \in Mount, Gone(m)
        PROVE  Persisted(n, q)'
    <3>1. CASE n = m
      BY <2>3, <3>1 DEF Gone, Nothing, Persisted, Undisturbed, TypeInv, TypeOK
    <3>2. CASE n # m
      BY <2>1, <2>3, <3>2, PersistedFrame DEF Gone, TypeInv, TypeOK
    <3> QED
      BY <3>1, <3>2
  <2>4. ASSUME NEW m \in Mount, NEW p \in Path, Request(m, p)
        PROVE  Persisted(n, q)'
    <3>1. CASE n = m /\ q = p
      BY <2>1, <2>4, <3>1, RequestPersists
    <3>2. CASE n # m \/ q # p
      BY <2>1, <2>4, <3>2, RequestFrame, RequestCatalog, PersistedFrame
    <3> QED
      BY <3>1, <3>2
  <2>5. ASSUME NEW p \in Path, NEW hash \in Content, AgentIngests(p, hash)
        PROVE  Persisted(n, q)'
    <3>1. moved'[n][q] \/ (catalog'[q] = catalog[q] /\ moved'[n][q] = moved[n][q])
      <4>1. n # None
        BY XetfsAssumption
      <4> QED
        BY <2>5, <4>1, ContentIsSeq, RegisteredType DEF AgentIngests
    <3> QED
      BY <2>1, <2>5, <3>1, PersistedFrame DEF AgentIngests
  <2>6. CASE ServerRestart
    BY <2>1, <2>6, PersistedFrame DEF ServerRestart
  <2>7. CASE UNCHANGED vars
    BY <2>1, <2>7, PersistedFrame DEF vars
  <2> QED
    BY <2>2, <2>3, <2>4, <2>5, <2>6, <2>7 DEF Next, Unmount, Kill
<1> QED
  BY <1>1, <1>2, AllFilesAlways, TypeInvAlways, PTL DEF Spec
=============================================================================
