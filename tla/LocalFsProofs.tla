--------------------------- MODULE LocalFsProofs ---------------------------
(***************************************************************************)
(* Proofs about LocalFsBlobStore (module LocalFs), for any number of       *)
(* overlapping puts of a key, any number of writes per file, and the       *)
(* failures each theorem names.                                            *)
(***************************************************************************)
EXTENDS LocalFs, TLAPS

-----------------------------------------------------------------------------
(* Types *)

LEMMA InitType == Init => TypeOK
BY LocalFsAssumption DEF Init, TypeOK, Steps, Page

LEMMA NextType == TypeOK /\ [Next]_vars => TypeOK'
<1> SUFFICES ASSUME TypeOK, [Next]_vars PROVE TypeOK'
  OBVIOUS
<1> USE LocalFsAssumption DEF TypeOK, Steps, Page
<1>1. ASSUME NEW w \in Writer, Begin(w)
      PROVE  TypeOK'
  BY <1>1 DEF Begin
<1>2. ASSUME NEW w \in Writer, Check(w)
      PROVE  TypeOK'
  BY <1>2 DEF Check, Answer, Goto
<1>3. ASSUME NEW w \in Writer, Open(w)
      PROVE  TypeOK'
  BY <1>3 DEF Open, Free
<1>4. ASSUME NEW w \in Writer, Write(w)
      PROVE  TypeOK'
  <2>1. fd[w] \in Inode /\ written[w] + 1 \in 1..NPages
    BY <1>4 DEF Write
  <2>2. data' \in [Inode -> SUBSET (1..NPages)] /\ written' \in [Writer -> 0..NPages]
    BY <1>4, <2>1 DEF Write
  <2> QED
    BY <1>4, <2>2 DEF Write
<1>5. ASSUME NEW w \in Writer, Close(w)
      PROVE  TypeOK'
  BY <1>5 DEF Close, Goto
<1>6. ASSUME NEW w \in Writer, Rename(w) \/ RenameFails(w)
      PROVE  TypeOK'
  BY <1>6 DEF Rename, RenameFails, Answer, Goto
<1>7. ASSUME NEW w \in Writer, Recheck(w)
      PROVE  TypeOK'
  BY <1>7 DEF Recheck, Answer, Goto
<1>8. ASSUME NEW w \in Writer, Remove(w)
       PROVE  TypeOK'
  <2>1. tmp' \in {None, tmp}
    BY <1>8 DEF Remove
  <2> QED
    BY <1>8, <2>1 DEF Remove, Answer
<1>9. ASSUME NEW w \in Writer, WriteError(w) \/ Drop(w)
      PROVE  TypeOK'
  BY <1>9 DEF WriteError, Drop, Answer
<1>10. CASE Delete \/ Kill \/ UNCHANGED vars
  BY <1>10 DEF Delete, Kill, vars
<1> QED
  BY <1>1, <1>2, <1>3, <1>4, <1>5, <1>6, <1>7, <1>9, <1>10, <1>8 DEF Next, PutStep

\* Every variable keeps its type, whatever fails; in particular the final and
\* the temporary path never name the same file.
THEOREM LocalFsTypeCorrect == Spec => []TypeOK
BY InitType, NextType, PTL DEF Spec

-----------------------------------------------------------------------------
(* Overlapping puts settle on a complete object *)

\* A file that has a name is complete, or some writer has it open that has
\* seen no truncation since its own: everything it has written is there.
NamedSound ==
    \A i \in Inode : i \in {path, tmp} =>
        \/ data[i] = Page
        \/ \E w \in Writer : fd[w] = i /\ 1..written[w] \subseteq data[i]

\* NamedSound survives every step, as long as no write fails and the process
\* lives: a writer that leaves a file has written it to the end.  Probes and
\* renames may fail and callers go away.
LEMMA NamedSoundStep ==
    ASSUME "write_error" \notin Faults, "kill" \notin Faults
    PROVE  TypeOK /\ NamedSound /\ [Next]_vars => NamedSound'
<1> SUFFICES ASSUME TypeOK, NamedSound, [Next]_vars,
                    NEW i \in Inode, i \in {path', tmp'}
             PROVE  \/ data'[i] = Page
                    \/ \E w \in Writer : fd'[w] = i /\ 1..written'[w] \subseteq data'[i]
  BY DEF NamedSound
<1>1. \A w \in Writer : written[w] \in 0..NPages /\ NPages \in Nat
  BY LocalFsAssumption DEF TypeOK
<1>2. ASSUME NEW w \in Writer, Open(w)
      PROVE  \/ data'[i] = Page
             \/ \E v \in Writer : fd'[v] = i /\ 1..written'[v] \subseteq data'[i]
  <2>1. PICK j \in IF tmp = None THEN Free ELSE {tmp} :
           /\ tmp' = j
           /\ fd' = [fd EXCEPT ![w] = j]
           /\ data' = [data EXCEPT ![j] = {}]
    BY <1>2 DEF Open
  <2>2. written' = [written EXCEPT ![w] = 0] /\ path' = path /\ pc[w] = "open"
    BY <1>2 DEF Open
  <2>3. CASE i = j
    <3>1. fd'[w] = i /\ written'[w] = 0
      BY <2>1, <2>2, <2>3 DEF TypeOK
    <3>2. 1..0 \subseteq data'[i]
      OBVIOUS
    <3> QED
      BY <3>1, <3>2
  <2>4. CASE i # j
    <3>1. i = path /\ data'[i] = data[i]
      BY <2>1, <2>2, <2>4 DEF TypeOK
    <3>2. ASSUME NEW v \in Writer, fd[v] = i, 1..written[v] \subseteq data[i]
          PROVE  fd'[v] = i /\ 1..written'[v] \subseteq data'[i]
      <4>1. v # w
        BY <3>2, <2>2, LocalFsAssumption DEF TypeOK
      <4> QED
        BY <4>1, <3>1, <3>2, <2>1, <2>2 DEF TypeOK
    <3> QED
      BY <3>1, <3>2 DEF NamedSound
  <2> QED
    BY <2>3, <2>4
<1>3. ASSUME NEW w \in Writer, Write(w)
      PROVE  \/ data'[i] = Page
             \/ \E v \in Writer : fd'[v] = i /\ 1..written'[v] \subseteq data'[i]
  <2>1. /\ data' = [data EXCEPT ![fd[w]] = data[fd[w]] \cup {written[w] + 1}]
        /\ written' = [written EXCEPT ![w] = written[w] + 1]
        /\ written[w] + 1 \in Page
        /\ UNCHANGED <<path, tmp, fd>>
    BY <1>3, <1>1 DEF Write, Page
  <2>2. data[i] \subseteq data'[i] /\ (data[i] = Page => data'[i] = Page)
    BY <2>1 DEF TypeOK
  <2>3. ASSUME NEW v \in Writer, fd[v] = i, 1..written[v] \subseteq data[i]
        PROVE  1..written'[v] \subseteq data'[i]
    <3>1. CASE v = w
      <4>1. data'[i] = data[i] \cup {written[w] + 1} /\ written'[v] = written[w] + 1
        BY <3>1, <2>1, <2>3 DEF TypeOK
      <4>2. 1..(written[w] + 1) = 1..written[w] \cup {written[w] + 1}
        BY <1>1
      <4> QED
        BY <4>1, <4>2, <2>3, <3>1
    <3>2. CASE v # w
      BY <3>2, <2>1, <2>2, <2>3 DEF TypeOK
    <3> QED
      BY <3>1, <3>2
  <2> QED
    BY <2>1, <2>2, <2>3 DEF NamedSound
<1>4. ASSUME NEW w \in Writer, Close(w)
      PROVE  \/ data'[i] = Page
             \/ \E v \in Writer : fd'[v] = i /\ 1..written'[v] \subseteq data'[i]
  <2>1. /\ written[w] = NPages
        /\ fd' = [fd EXCEPT ![w] = None] /\ written' = [written EXCEPT ![w] = 0]
        /\ UNCHANGED <<path, tmp, data>>
    BY <1>4 DEF Close
  <2>2. CASE fd[w] = i /\ 1..written[w] \subseteq data[i]
    BY <2>1, <2>2 DEF TypeOK, Page
  <2>3. ASSUME NEW v \in Writer, v # w, fd[v] = i, 1..written[v] \subseteq data[i]
        PROVE  fd'[v] = i /\ 1..written'[v] \subseteq data'[i]
    BY <2>1, <2>3 DEF TypeOK
  <2> QED
    BY <2>1, <2>2, <2>3 DEF NamedSound
<1>5. ASSUME {path', tmp'} \subseteq {path, tmp, None}, UNCHANGED <<data, fd, written>>
      PROVE  \/ data'[i] = Page
             \/ \E v \in Writer : fd'[v] = i /\ 1..written'[v] \subseteq data'[i]
  BY <1>5, LocalFsAssumption DEF NamedSound
<1>6. ASSUME NEW w \in Writer, WriteError(w)
      PROVE  FALSE
  BY <1>6 DEF WriteError
<1>7. CASE Kill
  BY <1>7 DEF Kill
<1>8. ASSUME NEW w \in Writer, Remove(w)
      PROVE  {path', tmp'} \subseteq {path, tmp, None} /\ UNCHANGED <<data, fd, written>>
  BY <1>8 DEF Remove
<1> QED
  BY <1>2, <1>3, <1>4, <1>5, <1>6, <1>7, <1>8
  DEF Next, PutStep, Begin, Check, Rename, RenameFails, Recheck, Drop, Delete, vars

\* Whatever puts of a key overlap in the shared temporary file, are dropped by
\* their callers, fail to probe or to rename, or are undone by collections: once
\* nobody has the object open any more it is complete.
THEOREM PutsSettle ==
    ASSUME "write_error" \notin Faults, "kill" \notin Faults
    PROVE  Spec => []SettledComplete
<1>1. Init => NamedSound
  BY LocalFsAssumption DEF Init, NamedSound
<1>2. TypeOK /\ NamedSound /\ [Next]_vars => NamedSound'
  BY NamedSoundStep
<1>3. TypeOK /\ NamedSound => SettledComplete
  BY DEF TypeOK, NamedSound, SettledComplete
<1> QED
  BY <1>1, <1>2, <1>3, LocalFsTypeCorrect, PTL DEF Spec

-----------------------------------------------------------------------------
(* No temporary file is left behind *)

\* Every put under way has a caller, and a temporary file has a put that will
\* rename it.
TmpInv ==
    /\ \A w \in Writer : pc[w] # "idle" => answer[w] = "busy"
    /\ tmp # None => \E w \in Writer : pc[w] \in {"write", "rename"}

\* If nothing but probes of the object fails, the last put of a key to end
\* leaves no temporary file, however many shared it.
THEOREM PutsCleanUp ==
    ASSUME Faults \subseteq {"stat_error"}
    PROVE  Spec => []NoTmpLeft
<1>1. Init => TmpInv
  BY DEF Init, TmpInv
<1>2. TypeOK /\ TmpInv /\ [Next]_vars => TmpInv'
  <2> SUFFICES ASSUME TypeOK, TmpInv, [Next]_vars PROVE TmpInv'
    OBVIOUS
  <2> USE LocalFsAssumption DEF TmpInv, TypeOK, Steps
  <2>1. ASSUME NEW w \in Writer, Begin(w) \/ Check(w) \/ Recheck(w)
        PROVE  TmpInv'
    BY <2>1 DEF Begin, Check, Recheck, Answer, Goto
  <2>2. ASSUME NEW w \in Writer, Open(w)
        PROVE  TmpInv'
    BY <2>2 DEF Open
  <2>3. ASSUME NEW w \in Writer, Write(w) \/ Close(w)
        PROVE  TmpInv'
    BY <2>3 DEF Write, Close, Goto
  <2>4. ASSUME NEW w \in Writer, Rename(w) \/ RenameFails(w) \/ Remove(w)
        PROVE  TmpInv'
    BY <2>4 DEF Rename, RenameFails, Remove, Answer, Goto
  <2>5. CASE Delete \/ UNCHANGED vars
    BY <2>5 DEF Delete, vars
  <2> QED
    BY <2>1, <2>2, <2>3, <2>4, <2>5 DEF Next, PutStep, WriteError, Drop, Kill
<1>3. TmpInv => NoTmpLeft
  BY DEF TmpInv, NoTmpLeft
<1> QED
  BY <1>1, <1>2, <1>3, LocalFsTypeCorrect, PTL DEF Spec

-----------------------------------------------------------------------------
(* Overlapping puts give way to each other *)

\* A put that has lost its rename and found the object, and one that has
\* acknowledged it, can rely on the object.
Relied ==
    /\ \A w \in Writer : pc[w] = "remove" => path # None
    /\ \A w \in Writer : answer[w] \in {"true", "false"} => path # None

LEMMA ReliedInit == Init => Relied
BY DEF Init, Relied

\* Whatever fails: only a collection takes an object away.
LEMMA ReliedStep ==
    ASSUME ~Deletes
    PROVE  TypeOK /\ Relied /\ [Next]_vars => Relied'
<1> SUFFICES ASSUME TypeOK, Relied, [Next]_vars PROVE Relied'
  OBVIOUS
<1> USE LocalFsAssumption DEF Relied, TypeOK, Steps
<1>1. ASSUME NEW w \in Writer, Begin(w) \/ Check(w)
      PROVE  Relied'
  BY <1>1 DEF Begin, Check, Answer, Goto
<1>2. ASSUME NEW w \in Writer, Open(w) \/ Write(w) \/ Close(w)
      PROVE  Relied'
  BY <1>2 DEF Open, Write, Close, Goto
<1>3. ASSUME NEW w \in Writer, Rename(w) \/ RenameFails(w)
      PROVE  Relied'
  BY <1>3 DEF Rename, RenameFails, Answer, Goto
<1>4. ASSUME NEW w \in Writer, Recheck(w) \/ Remove(w)
      PROVE  Relied'
  BY <1>4 DEF Recheck, Remove, Answer, Goto
<1>5. ASSUME NEW w \in Writer, WriteError(w) \/ Drop(w)
      PROVE  Relied'
  BY <1>5 DEF WriteError, Drop, Answer
<1>6. CASE Kill \/ UNCHANGED vars
  BY <1>6 DEF Kill, vars
<1> QED
  BY <1>1, <1>2, <1>3, <1>4, <1>5, <1>6 DEF Next, PutStep, Delete

\* A put that has opened the temporary file finds it or the object, and one that
\* has lost it finds the object.
GivesWay ==
    /\ Relied
    /\ \A w \in Writer : pc[w] \in {"write", "rename"} => tmp # None \/ path # None
    /\ \A w \in Writer : pc[w] = "recheck" => path # None
    /\ OverlappingPutsSucceed

\* GivesWay survives every step, as long as no file operation fails on its own
\* and nothing deletes the key.
LEMMA GivesWayStep ==
    ASSUME Faults \subseteq {"drop", "kill"}, ~Deletes
    PROVE  TypeOK /\ GivesWay /\ [Next]_vars => GivesWay'
<1> SUFFICES ASSUME TypeOK, GivesWay, [Next]_vars PROVE GivesWay'
  OBVIOUS
<1>1. Relied /\ Relied'
  BY ReliedStep DEF GivesWay
<1> USE <1>1, LocalFsAssumption DEF GivesWay, OverlappingPutsSucceed, TypeOK, Steps
<1>2. ASSUME NEW w \in Writer, Begin(w) \/ Check(w)
      PROVE  GivesWay'
  BY <1>2 DEF Begin, Check, Answer, Goto
<1>3. ASSUME NEW w \in Writer, Open(w)
      PROVE  GivesWay'
  BY <1>3 DEF Open, Free
<1>4. ASSUME NEW w \in Writer, Write(w) \/ Close(w)
      PROVE  GivesWay'
  BY <1>4 DEF Write, Close, Goto
<1>5. ASSUME NEW w \in Writer, Rename(w) \/ RenameFails(w)
      PROVE  GivesWay'
  BY <1>5 DEF Rename, RenameFails, Answer, Goto
<1>6. ASSUME NEW w \in Writer, Recheck(w) \/ Remove(w)
      PROVE  GivesWay'
  BY <1>6 DEF Recheck, Remove, Answer, Goto, Relied
<1>7. ASSUME NEW w \in Writer, Drop(w)
      PROVE  GivesWay'
  BY <1>7 DEF Drop
<1>8. CASE Kill \/ UNCHANGED vars
  BY <1>8 DEF Kill, vars
<1> QED
  BY <1>2, <1>3, <1>4, <1>5, <1>6, <1>7, <1>8 DEF Next, PutStep, WriteError, Delete

LEMMA GivesWayInit == Init => GivesWay
BY ReliedInit DEF Init, GivesWay, OverlappingPutsSucceed

\* While nothing deletes the key and no file operation fails on its own, no put
\* answers with an error, although others rename and remove its temporary file:
\* dropped callers and kills of the process included.
THEOREM OverlapsGiveWay ==
    ASSUME Faults \subseteq {"drop", "kill"}, ~Deletes
    PROVE  Spec => []OverlappingPutsSucceed
<1>1. TypeOK /\ GivesWay /\ [Next]_vars => GivesWay'
  BY GivesWayStep
<1>2. GivesWay => OverlappingPutsSucceed
  BY DEF GivesWay
<1> QED
  BY <1>1, <1>2, GivesWayInit, LocalFsTypeCorrect, PTL DEF Spec

-----------------------------------------------------------------------------
(* One put at a time implements the trait *)

\* With a single writer: a put that has found the key absent still finds it so
\* when it renames, unless the probe can fail; it writes into the file the
\* temporary path names, and what it renames is complete; a put whose caller is
\* gone goes on with nothing but the operation it awaited.
SoleInv(w) ==
    /\ "stat_error" \notin Faults /\ pc[w] \in {"open", "write", "rename", "recheck"} => path = None
    /\ pc[w] = "write" => fd[w] = tmp /\ data[tmp] = 1..written[w]
    /\ pc[w] = "rename" => tmp # None /\ data[tmp] = Page
    /\ pc[w] \in {"check", "recheck"} => answer[w] = "busy"
    /\ answer[w] = "busy" => pc[w] # "idle"
    /\ path # None => data[path] = Page

LEMMA SoleInvStep ==
    ASSUME NEW w, Writer = {w}
    PROVE  TypeOK /\ SoleInv(w) /\ [Next]_vars => SoleInv(w)'
<1> SUFFICES ASSUME TypeOK, SoleInv(w), [Next]_vars PROVE SoleInv(w)'
  OBVIOUS
<1> USE LocalFsAssumption DEF SoleInv, TypeOK, Steps
<1>1. ASSUME Begin(w) \/ Check(w)
      PROVE  SoleInv(w)'
  BY <1>1 DEF Begin, Check, Answer, Goto
<1>2. ASSUME Open(w)
      PROVE  SoleInv(w)'
  BY <1>2 DEF Open, Free
<1>3. ASSUME Write(w)
      PROVE  SoleInv(w)'
  <2>1. /\ fd[w] = tmp /\ tmp \in Inode /\ (path # None => path # tmp) /\ pc[w] = "write"
        /\ data' = [data EXCEPT ![tmp] = 1..written[w] \cup {written[w] + 1}]
        /\ written'[w] = written[w] + 1
        /\ UNCHANGED <<path, tmp, fd, pc, answer>>
    BY <1>3 DEF Write
  <2>2. 1..(written[w] + 1) = 1..written[w] \cup {written[w] + 1}
    OBVIOUS
  <2> QED
    BY <2>1, <2>2
<1>4. ASSUME Close(w)
      PROVE  SoleInv(w)'
  BY <1>4 DEF Close, Goto, Page
<1>5. ASSUME Rename(w) \/ RenameFails(w)
      PROVE  SoleInv(w)'
  BY <1>5 DEF Rename, RenameFails, Answer, Goto
<1>6. ASSUME Recheck(w) \/ Remove(w)
      PROVE  SoleInv(w)'
  BY <1>6 DEF Recheck, Remove, Answer, Goto
<1>7. ASSUME WriteError(w) \/ Drop(w)
      PROVE  SoleInv(w)'
  BY <1>7 DEF WriteError, Drop, Answer
<1>8. CASE Delete \/ Kill \/ UNCHANGED vars
  BY <1>8 DEF Delete, Kill, vars
<1> QED
  BY <1>1, <1>2, <1>3, <1>4, <1>5, <1>6, <1>7, <1>8 DEF Next, PutStep

LEMMA SoleInvInit == ASSUME NEW w, Writer = {w} PROVE Init => SoleInv(w)
BY DEF Init, SoleInv

\* Every step of a single put, of a collection and of a failure is a step of
\* the trait's contract or none: the object appears at the rename and nowhere
\* else, and a put that gives way does so when it has found the object.
LEMMA SoleStepRefines ==
    ASSUME NEW w, Writer = {w}, TypeOK, SoleInv(w), [Next]_vars
    PROVE  [Abstract!Next]_<<Published, Told, Renaming>>
<1> USE LocalFsAssumption DEF SoleInv, TypeOK, Steps, Published, Told, Renaming
<1>1. ASSUME Begin(w)
      PROVE  Abstract!Begin(w)
  BY <1>1 DEF Begin, Abstract!Begin
<1>2. ASSUME Check(w)
      PROVE  Abstract!Existed(w) \/ UNCHANGED <<Published, Told, Renaming>>
  BY <1>2 DEF Check, Answer, Goto, Abstract!Existed, Page
<1>3. ASSUME Open(w) \/ Write(w) \/ Close(w)
      PROVE  UNCHANGED <<Published, Told, Renaming>>
  BY <1>3 DEF Open, Free, Write, Close, Goto
<1>4. ASSUME Rename(w)
      PROVE  Abstract!Inserted(w) \/ Abstract!Landed
  BY <1>4 DEF Rename, Answer, Abstract!Inserted, Abstract!Landed
<1>5. ASSUME RenameFails(w) \/ Remove(w)
      PROVE  Abstract!Lost \/ UNCHANGED <<Published, Told, Renaming>>
  BY <1>5 DEF RenameFails, Remove, Answer, Goto, Abstract!Lost
<1>6. ASSUME Recheck(w)
      PROVE  Abstract!Existed(w) \/ Abstract!Failed(w)
  <2>1. pc[w] = "recheck" /\ answer[w] = "busy" /\ UNCHANGED <<path, data>>
    BY <1>6 DEF Recheck
  <2>2. CASE path # None /\ Goto(w, "remove")
    <3>1. pc' = [pc EXCEPT ![w] = "remove"] /\ answer' = answer
      BY <2>1, <2>2 DEF Goto
    <3>2. Told[w] = "busy" /\ Told' = [Told EXCEPT ![w] = "false"]
      BY <2>1, <3>1
    <3>3. Published' = Published /\ Published # None
      BY <2>1, <2>2 DEF Page
    <3>4. Renaming = FALSE /\ Renaming' = FALSE
      BY <2>1, <3>1
    <3> QED
      BY <3>2, <3>3, <3>4, Zenon DEF Abstract!Existed
  <2>3. CASE Answer(w, "error")
    BY <2>1, <2>3 DEF Answer, Abstract!Failed
  <2> QED
    BY <1>6, <2>2, <2>3 DEF Recheck
<1>7. ASSUME WriteError(w)
      PROVE  Abstract!Failed(w) \/ UNCHANGED <<Published, Told, Renaming>>
  BY <1>7 DEF WriteError, Answer, Abstract!Failed
<1>8. ASSUME Delete
      PROVE  Abstract!Delete
  BY <1>8 DEF Delete, Abstract!Delete
<1>9. ASSUME Kill
      PROVE  Abstract!Crash
  BY <1>9 DEF Kill, Abstract!Crash
<1>10. ASSUME Drop(w)
       PROVE  Abstract!Dropped(w)
  BY <1>10 DEF Drop, Abstract!Dropped
<1>11. ASSUME UNCHANGED vars
       PROVE  UNCHANGED <<Published, Told, Renaming>>
  BY <1>11 DEF vars
<1> QED
  BY <1>1, <1>2, <1>3, <1>4, <1>5, <1>6, <1>7, <1>8, <1>9, <1>11, <1>10
  DEF Next, PutStep, Abstract!Next

\* As long as the puts of a key come one at a time, each after the end of all
\* file operations of the one before (also those that outlive a caller that went
\* away), LocalFsBlobStore implements the trait's contract, although directories,
\* files and renames fail, callers go away, the process is killed and collections
\* delete: an object is there in full or not at all, and put answers true only if
\* it made it.  If probes of the object fail, too, true may also mean that it
\* replaced one.
THEOREM SolePutsImplementBlobStore ==
    ASSUME NEW w, Writer = {w}
    PROVE  Spec => ImplementsBlobStore
<1>1. Init => Abstract!Init
  BY DEF Init, Abstract!Init, Published, Told, Renaming
<1>2. TypeOK /\ SoleInv(w) /\ [Next]_vars => [Abstract!Next]_<<Published, Told, Renaming>>
  BY SoleStepRefines
<1>3. TypeOK /\ SoleInv(w) /\ [Next]_vars => SoleInv(w)'
  BY SoleInvStep
<1>4. Init => SoleInv(w)
  BY SoleInvInit
<1> QED
  BY <1>1, <1>2, <1>3, <1>4, LocalFsTypeCorrect, PTL DEF Spec, ImplementsBlobStore, Abstract!Spec
=============================================================================
