---------------------------- MODULE ServeProofs ----------------------------
(***************************************************************************)
(* Proofs about the two blob stores behind one interface (Backends) and    *)
(* about the handlers that read an object while it is put, collected and   *)
(* damaged (Serve).                                                        *)
(***************************************************************************)
EXTENDS Serve, LocalFsProofs, NatFacts, SequenceTheorems

-----------------------------------------------------------------------------
(* What a step of the whole system is to each store *)

\* A step of the system is a step of the store that was chosen, and leaves the
\* other one alone; the readers' own steps leave both alone.
LEMMA StoreStepOf ==
    ASSUME [ServeNext]_serveVars
    PROVE  /\ backend' = backend
           /\ \/ backend = "local_fs" /\ [Next]_vars /\ UNCHANGED s3Vars
              \/ backend = "s3" /\ [S3Store!Next]_s3Vars /\ UNCHANGED vars
              \/ UNCHANGED <<vars, s3Vars>>
<1>1. CASE BackendsNext
  <2>1. CASE \E w \in Writer : PutStarts(w) \/ PutGoesOn(w)
    BY <1>1, <2>1 DEF BackendsNext, PutStarts, PutGoesOn, Next, S3Store!Next
  <2>2. CASE Collect
    BY <1>1, <2>2 DEF BackendsNext, Collect, Next, S3Store!Next
  <2>3. CASE StoreFault
    BY <1>1, <2>3 DEF BackendsNext, StoreFault, Next, S3Store!Next
  <2> QED
    BY <1>1, <2>1, <2>2, <2>3 DEF BackendsNext
<1>2. CASE UNCHANGED backendVars
  BY <1>2 DEF backendVars
<1> QED
  BY <1>1, <1>2
  DEF ServeNext, serveVars, StoreStep, Rot, Missing, Refused, Found, Fetched, ReadError, Ask

LEMMA StoresProject ==
    ASSUME [ServeNext]_serveVars
    PROVE  [Next]_vars /\ [S3Store!Next]_s3Vars
BY StoreStepOf DEF vars, s3Vars

LEMMA ServeInitParts == ServeInit => Init /\ S3Store!Init /\ backend \in {"local_fs", "s3"}
BY DEF ServeInit, BackendsInit

\* Whatever is proved of LocalFsBlobStore alone holds of it inside the server.
THEOREM ServeIsLocalFs == ServeSpec => Spec
<1>1. [ServeNext]_serveVars => [Next]_vars
  BY StoresProject
<1> QED
  BY <1>1, ServeInitParts, PTL DEF ServeSpec, Spec

-----------------------------------------------------------------------------
(* S3BlobStore *)

\* A put that is under way is the one that has not answered.
S3Inv ==
    /\ S3Store!TypeOK
    /\ \A w \in Writer : s3pc[w] # "idle" <=> s3answer[w] = "busy"

LEMMA S3InvInit == S3Store!Init => S3Inv
BY DEF S3Store!Init, S3Inv, S3Store!TypeOK

LEMMA S3InvStep == S3Inv /\ [S3Store!Next]_s3Vars => S3Inv'
<1> SUFFICES ASSUME S3Inv, [S3Store!Next]_s3Vars PROVE S3Inv'
  OBVIOUS
<1> USE DEF S3Inv, S3Store!TypeOK
<1>1. ASSUME NEW w \in Writer, S3Store!Begin(w)
      PROVE  S3Inv'
  BY <1>1 DEF S3Store!Begin
<1>2. ASSUME NEW w \in Writer, S3Store!PutStep(w)
      PROVE  S3Inv'
  BY <1>2
  DEF S3Store!PutStep, S3Store!HeadFound, S3Store!HeadNotOk, S3Store!PutObject, S3Store!Answer
<1>3. ASSUME NEW w \in Writer, S3Store!PutError(w) \/ S3Store!Drop(w)
      PROVE  S3Inv'
  BY <1>3 DEF S3Store!PutError, S3Store!Drop, S3Store!Answer
<1>4. CASE S3Store!Land \/ S3Store!Delete \/ S3Store!Kill
  BY <1>4 DEF S3Store!Land, S3Store!Delete, S3Store!Kill
<1>5. CASE UNCHANGED s3Vars
  BY <1>5 DEF s3Vars
<1> QED
  BY <1>1, <1>2, <1>3, <1>4, <1>5 DEF S3Store!Next

\* Every step of S3BlobStore and of the service is a step of the trait's
\* contract or none; what a put does shows at its PutObject.
LEMMA S3StepRefines ==
    ASSUME S3Inv, [S3Store!Next]_s3Vars
    PROVE  [Remote!Next]_<<object, s3answer, stray>>
<1> USE DEF S3Inv, S3Store!TypeOK
<1>1. ASSUME NEW w \in Writer, S3Store!Begin(w)
      PROVE  Remote!Begin(w)
  BY <1>1 DEF S3Store!Begin, Remote!Begin
<1>2. ASSUME NEW w \in Writer, S3Store!HeadFound(w)
      PROVE  Remote!Existed(w)
  BY <1>2 DEF S3Store!HeadFound, S3Store!Answer, Remote!Existed
<1>3. ASSUME NEW w \in Writer, S3Store!HeadNotOk(w)
      PROVE  UNCHANGED <<object, s3answer, stray>>
  BY <1>3 DEF S3Store!HeadNotOk
<1>4. ASSUME NEW w \in Writer, S3Store!PutObject(w)
      PROVE  Remote!Inserted(w)
  BY <1>4 DEF S3Store!PutObject, S3Store!Answer, Remote!Inserted
<1>5. ASSUME NEW w \in Writer, S3Store!PutError(w)
      PROVE  Remote!Failed(w)
  BY <1>5 DEF S3Store!PutError, S3Store!Answer, Remote!Failed
<1>6. ASSUME NEW w \in Writer, S3Store!Drop(w)
      PROVE  Remote!Dropped(w)
  BY <1>6 DEF S3Store!Drop, S3Store!Answer, Remote!Dropped
<1>7. ASSUME S3Store!Land
      PROVE  Remote!Landed
  BY <1>7 DEF S3Store!Land, Remote!Landed
<1>8. ASSUME S3Store!Delete
      PROVE  Remote!Delete
  BY <1>8 DEF S3Store!Delete, Remote!Delete
<1>9. ASSUME S3Store!Kill
      PROVE  Remote!Crash
  BY <1>9 DEF S3Store!Kill, Remote!Crash
<1>10. ASSUME UNCHANGED s3Vars
       PROVE  UNCHANGED <<object, s3answer, stray>>
  BY <1>10 DEF s3Vars
<1> QED
  BY <1>1, <1>2, <1>3, <1>4, <1>5, <1>6, <1>7, <1>8, <1>9, <1>10
  DEF S3Store!Next, S3Store!PutStep, Remote!Next

LEMMA S3InvAlways == ServeSpec => []S3Inv
<1>1. ServeInit => S3Inv
  BY ServeInitParts, S3InvInit
<1>2. S3Inv /\ [ServeNext]_serveVars => S3Inv'
  BY StoresProject, S3InvStep
<1> QED
  BY <1>1, <1>2, PTL DEF ServeSpec

\* S3BlobStore implements the trait's contract for any number of overlapping
\* puts, lost requests and replies, dropped callers, kills and collections, but
\* for the meaning of true.
THEOREM S3StoreImplementsBlobStore == ServeSpec => S3ImplementsBlobStore
<1>1. ServeInit => Remote!Init
  BY ServeInitParts DEF S3Store!Init, Remote!Init
<1>2. S3Inv /\ [ServeNext]_serveVars => [Remote!Next]_<<object, s3answer, stray>>
  BY StoresProject, S3StepRefines
<1> QED
  BY <1>1, <1>2, S3InvAlways, PTL DEF ServeSpec, S3ImplementsBlobStore, Remote!Spec

-----------------------------------------------------------------------------
(* Types *)

\* A function over 1..n is a sequence of length n.
LEMMA LenOfFunction ==
    ASSUME NEW n \in Nat, NEW f, DOMAIN f = 1..n
    PROVE  Len(f) = n
OBVIOUS

\* The length that head answers is that of the object.
LEMMA BytesLength ==
    ASSUME BackendsTypeOK
    PROVE  Stored # None => Len(Bytes) \in 0..NPages
<1> SUFFICES ASSUME Stored # None PROVE Len(Bytes) \in 0..NPages
  OBVIOUS
<1>1. Stored \subseteq Page
  BY LocalFsAssumption DEF BackendsTypeOK, TypeOK, S3Store!TypeOK, Stored, Published
<1>2. NPages \in Nat /\ Stored \cup {0} \subseteq 0..NPages
  BY <1>1, LocalFsAssumption DEF Page
<1>3. Max(Stored \cup {0}) \in 0..NPages
  BY <1>2, MaxOfBounded
<1>4. DOMAIN Bytes = 1..Max(Stored \cup {0})
  BY DEF Bytes
<1> QED
  BY <1>3, <1>4, LenOfFunction

LEMMA BackendsTypeStep == BackendsTypeOK /\ S3Inv /\ [ServeNext]_serveVars => BackendsTypeOK'
<1> SUFFICES ASSUME BackendsTypeOK, S3Inv, [ServeNext]_serveVars PROVE BackendsTypeOK'
  OBVIOUS
<1>1. TypeOK' /\ S3Store!TypeOK'
  BY StoresProject, NextType, S3InvStep DEF BackendsTypeOK, S3Inv
<1>2. /\ backend' = backend
      /\ backend = "s3" => path' = path /\ tmp' = tmp
      /\ backend = "local_fs" => object' = object
  BY StoreStepOf DEF vars, s3Vars
<1> QED
  BY <1>1, <1>2 DEF BackendsTypeOK

LEMMA ServeTypeInit == ServeInit => ServeTypeOK
<1> SUFFICES ASSUME ServeInit PROVE ServeTypeOK
  OBVIOUS
<1>1. BackendsTypeOK
  BY InitType, S3InvInit DEF ServeInit, BackendsInit, BackendsTypeOK, S3Inv, Init, S3Store!Init
<1>2. NoRange \in Headers /\ 0 \in 0..NPages
  BY LocalFsAssumption DEF Headers
<1> QED
  BY <1>1, <1>2 DEF ServeInit, ServeTypeOK

LEMMA ServeTypeStep == ServeTypeOK /\ S3Inv /\ [ServeNext]_serveVars => ServeTypeOK'
<1> SUFFICES ASSUME ServeTypeOK, S3Inv, [ServeNext]_serveVars PROVE ServeTypeOK'
  OBVIOUS
<1>1. BackendsTypeOK'
  BY BackendsTypeStep DEF ServeTypeOK
<1> USE <1>1, LocalFsAssumption DEF ServeTypeOK
<1>2. CASE StoreStep
  BY <1>2 DEF StoreStep
<1>3. CASE Rot
  BY <1>3 DEF Rot, backendVars, vars
<1>4. ASSUME NEW r \in Reader, Missing(r) \/ Refused(r) \/ Fetched(r) \/ ReadError(r)
      PROVE  ServeTypeOK'
  <2>1. /\ rpc' = [rpc EXCEPT ![r] = "idle"]
        /\ calm' = calm \/ calm' = [calm EXCEPT ![r] = FALSE]
        /\ UNCHANGED <<path, rotten, rkind, header, len>>
    BY <1>4 DEF Missing, Refused, Fetched, ReadError, GiveUp, Answered, backendVars, vars
  <2> QED
    BY <2>1
<1>5. ASSUME NEW r \in Reader, Found(r)
      PROVE  ServeTypeOK'
  BY <1>5, BytesLength DEF Found, backendVars, vars
<1>6. ASSUME NEW r \in Reader, NEW kind \in {"data", "scrub"}, NEW h \in Headers, Ask(r, kind, h)
      PROVE  ServeTypeOK'
  BY <1>6 DEF Ask, backendVars, vars
<1>7. CASE UNCHANGED serveVars
  BY <1>7 DEF serveVars, readVars, backendVars, vars
<1> QED
  BY <1>2, <1>3, <1>4, <1>5, <1>6, <1>7 DEF ServeNext

\* The stores and the readers keep their types, and the store that was not
\* chosen stays empty; in particular the length a reader remembers is never
\* larger than the object, also when several puts of it overlap.
THEOREM ServeTypeCorrect == ServeSpec => []ServeTypeOK
BY ServeTypeInit, ServeTypeStep, S3InvAlways, PTL DEF ServeSpec

-----------------------------------------------------------------------------
(* An acknowledged object is stored *)

\* The store that was not chosen answers nobody, and S3 acknowledges only an
\* object that is there.
AckInv ==
    /\ backend = "s3" => \A w \in Writer : answer[w] = "none"
    /\ backend = "local_fs" => \A w \in Writer : s3answer[w] = "none"
    /\ \A w \in Writer : s3answer[w] \in {"true", "false"} => object # None

LEMMA AckInvStep ==
    ASSUME ~Deletes
    PROVE  S3Inv /\ AckInv /\ [ServeNext]_serveVars => AckInv'
<1> SUFFICES ASSUME S3Inv, AckInv, [ServeNext]_serveVars PROVE AckInv'
  OBVIOUS
<1>1. /\ backend' = backend
      /\ backend = "s3" => answer' = answer
      /\ backend = "local_fs" => s3answer' = s3answer
  BY StoreStepOf DEF vars, s3Vars
<1>2. \A w \in Writer : s3answer'[w] \in {"true", "false"} => object' # None
  <2> USE LocalFsAssumption DEF AckInv, S3Inv, S3Store!TypeOK, Page
  <2>1. ASSUME NEW v \in Writer, S3Store!Begin(v)
        PROVE  \A w \in Writer : s3answer'[w] \in {"true", "false"} => object' # None
    BY <2>1 DEF S3Store!Begin
  <2>2. ASSUME NEW v \in Writer, S3Store!PutStep(v)
        PROVE  \A w \in Writer : s3answer'[w] \in {"true", "false"} => object' # None
    BY <2>2
    DEF S3Store!PutStep, S3Store!HeadFound, S3Store!HeadNotOk, S3Store!PutObject, S3Store!Answer
  <2>3. ASSUME NEW v \in Writer, S3Store!PutError(v) \/ S3Store!Drop(v)
        PROVE  \A w \in Writer : s3answer'[w] \in {"true", "false"} => object' # None
    BY <2>3 DEF S3Store!PutError, S3Store!Drop, S3Store!Answer
  <2>4. CASE S3Store!Land \/ S3Store!Kill
    BY <2>4 DEF S3Store!Land, S3Store!Kill
  <2>5. CASE UNCHANGED s3Vars
    BY <2>5 DEF s3Vars
  <2> QED
    BY <2>1, <2>2, <2>3, <2>4, <2>5, StoresProject DEF S3Store!Next, S3Store!Delete
<1> QED
  BY <1>1, <1>2 DEF AckInv

\* As long as nothing deletes the key, no local write fails and the process is
\* not killed while it writes a local file: an object that any put, on either
\* store, has acknowledged is stored in full once the puts are over.  Probes and
\* renames of local files may fail, S3 may lose requests and replies, and
\* callers may go away.
THEOREM AcknowledgedObjectsAreStored ==
    ASSUME "write_error" \notin Faults, "kill" \notin Faults, ~Deletes
    PROVE  ServeSpec => []AcknowledgedIsStored
<1>1. ServeInit => AckInv /\ NamedSound /\ Relied
  BY ServeInitParts, ReliedInit, LocalFsAssumption DEF Init, S3Store!Init, AckInv, NamedSound
<1>2. S3Inv /\ AckInv /\ [ServeNext]_serveVars => AckInv'
  BY AckInvStep
<1>3. ServeTypeOK /\ NamedSound /\ Relied /\ [ServeNext]_serveVars => NamedSound' /\ Relied'
  BY StoresProject, NamedSoundStep, ReliedStep DEF ServeTypeOK, BackendsTypeOK
<1>4. ServeTypeOK /\ AckInv /\ NamedSound /\ Relied => AcknowledgedIsStored
  <2> SUFFICES ASSUME ServeTypeOK, AckInv, NamedSound, Relied, Idle, Acknowledged
               PROVE  Stored = Page
    BY DEF AcknowledgedIsStored
  <2> USE DEF ServeTypeOK, BackendsTypeOK
  <2>1. PICK w \in Writer : answer[w] \in {"true", "false"} \/ s3answer[w] \in {"true", "false"}
    BY DEF Acknowledged
  <2>2. CASE backend = "s3"
    BY <2>1, <2>2 DEF AckInv, Stored, S3Store!TypeOK
  <2>3. CASE backend = "local_fs"
    <3>1. path # None /\ path \in Inode
      BY <2>1, <2>3 DEF AckInv, Relied, TypeOK
    <3>2. \A v \in Writer : fd[v] = None
      BY DEF Idle, TypeOK
    <3>3. data[path] = Page
      BY <3>1, <3>2, LocalFsAssumption DEF NamedSound
    <3> QED
      BY <2>3, <3>1, <3>3 DEF Stored, Published
  <2> QED
    BY <2>2, <2>3
<1> QED
  BY <1>1, <1>2, <1>3, <1>4, S3InvAlways, ServeTypeCorrect, PTL DEF ServeSpec

-----------------------------------------------------------------------------
(* Reads of an object that is there in full or not at all *)

\* Either the object is at S3, or the puts of the key come one at a time, each
\* after the end of what the one before has left behind.
OneByOne(w) == backend = "s3" \/ Writer = {w}

Orderly(w) == backend = "s3" \/ (OneByOne(w) /\ SoleInv(w))

\* What is stored under the key is all of the object.
StoredWhole == Stored \in {None, Page}

LEMMA OrderlyStep ==
    ASSUME NEW w
    PROVE  ServeTypeOK /\ Orderly(w) /\ [ServeNext]_serveVars => Orderly(w)'
<1>1. [ServeNext]_serveVars => backend' = backend
  BY StoreStepOf
<1>2. ASSUME Writer = {w}, ServeTypeOK, SoleInv(w), [ServeNext]_serveVars
      PROVE  SoleInv(w)'
  BY <1>2, StoresProject, SoleInvStep DEF ServeTypeOK, BackendsTypeOK
<1> QED
  BY <1>1, <1>2 DEF Orderly, OneByOne

LEMMA OrderlyIsWhole == ASSUME NEW w PROVE ServeTypeOK /\ Orderly(w) => StoredWhole
BY DEF ServeTypeOK, BackendsTypeOK, S3Store!TypeOK, Orderly, SoleInv, StoredWhole, Stored, Published

LEMMA WholeAlways ==
    ASSUME NEW w
    PROVE  ServeSpec /\ OneByOne(w) => []StoredWhole
<1>1. ServeInit /\ OneByOne(w) => Orderly(w)
  BY ServeInitParts, SoleInvInit DEF Orderly, OneByOne
<1>2. ServeTypeOK /\ Orderly(w) /\ [ServeNext]_serveVars => Orderly(w)'
  BY OrderlyStep
<1>3. ServeTypeOK /\ Orderly(w) => StoredWhole
  BY OrderlyIsWhole
<1> QED
  BY <1>1, <1>2, <1>3, ServeTypeCorrect, PTL DEF ServeSpec

\* The bytes of an object that is there, in their places but for a bad one.
LEMMA WholeBytes ==
    ASSUME Stored = Page
    PROVE  /\ Len(Bytes) = NPages
           /\ Bytes \in Seq(Nat)
           /\ \A k \in 1..NPages : Bytes[k] \in {k, Hole}
<1> USE LocalFsAssumption
<1>1. Max(Stored \cup {0}) = NPages
  <2> DEFINE S == Stored \cup {0}
  <2>1. S \subseteq 0..NPages /\ S # {} /\ NPages \in S
    BY DEF Page
  <2>2. Max(S) \in S /\ \A y \in S : Max(S) >= y
    BY <2>1, MaxOfBounded
  <2>3. Max(S) \in 0..NPages /\ Max(S) >= NPages
    BY <2>1, <2>2
  <2> QED
    BY <2>3
<1>2. DOMAIN Bytes = 1..NPages /\ \A k \in 1..NPages : Bytes[k] \in {k, Hole}
  BY <1>1 DEF Bytes
<1>3. \A k \in 1..NPages : Bytes[k] \in Nat
  BY <1>2 DEF Hole
<1>4. Bytes = [k \in 1..NPages |-> Bytes[k]]
  BY <1>1 DEF Bytes
<1>5. Bytes \in Seq(Nat)
  BY <1>3, <1>4
<1> QED
  BY <1>2, <1>5, LenOfFunction

\* parse_range accepts a header if and only if it asks for bytes of the object,
\* and makes of it a range inside the object.
LEMMA ParseRangeExact ==
    ASSUME NPages < U64, NEW h \in Headers
    PROVE  /\ ParseRange(h, NPages) # NoRange <=> Satisfiable(h)
           /\ Satisfiable(h) =>
                LET p == ParseRange(h, NPages)
                IN  /\ p.start \in 0..(NPages - 1) /\ p.end \in p.start..(NPages - 1)
                    /\ h # NoRange => p.start = h.start /\ p.end <= h.end
                    /\ h # NoRange /\ h.end >= NPages => p.end = NPages - 1
                    /\ h # NoRange /\ h.end < NPages => p.end = h.end
                    /\ h = NoRange => p.start = 0 /\ p.end = NPages - 1
<1> USE LocalFsAssumption, RangesAssumption
    DEF ParseRange, LastByte, EndOf, Least, Unparsed, OpenEnd, Satisfiable
<1>1. CASE h = NoRange
  BY <1>1
<1>2. CASE h # NoRange
  <2>1. /\ h.start \in 0..NPages \cup {U64 - 1, U64}
        /\ h.end \in 0..NPages \cup {U64 - 1, U64, U64 + 1}
    BY <1>2 DEF Headers
  <2>2. CASE h.start = U64 \/ h.end = U64 \/ h.start >= NPages
    BY <1>2, <2>1, <2>2
  <2>3. CASE h.start # U64 /\ h.end # U64 /\ h.start < NPages
    BY <1>2, <2>1, <2>3
  <2> QED
    BY <2>1, <2>2, <2>3
<1> QED
  BY <1>1, <1>2

\* get_range cuts out exactly the range it is asked for, without wrapping.
LEMMA GetRangeExact ==
    ASSUME NPages < U64, Stored = Page, NEW s \in 0..(NPages - 1), NEW e \in s..(NPages - 1)
    PROVE  /\ Len(GetRange(Bytes, s, e)) = e - s + 1
           /\ \A k \in 1..(e - s + 1) : GetRange(Bytes, s, e)[k] \in {s + k, Hole}
           /\ s = 0 /\ e = NPages - 1 => GetRange(Bytes, s, e) = Bytes
<1> USE LocalFsAssumption, RangesAssumption
<1>1. Len(Bytes) = NPages /\ Bytes \in Seq(Nat) /\ \A k \in 1..NPages : Bytes[k] \in {k, Hole}
  BY WholeBytes
<1>2. (e + 1) % U64 = e + 1
  OBVIOUS
<1>3. GetRange(Bytes, s, e) = SubSeq(Bytes, s + 1, e + 1)
  <2>1. Least(s, Len(Bytes)) = s /\ Least((e + 1) % U64, Len(Bytes)) = e + 1
    BY <1>1, <1>2 DEF Least
  <2> QED
    BY <2>1, Zenon DEF GetRange
<1>4. \A i \in (s + 1)..(e + 1) : Bytes[i] \in Nat
  BY <1>1
<1>5. /\ Len(SubSeq(Bytes, s + 1, e + 1)) = e - s + 1
      /\ \A k \in 1..(e - s + 1) : SubSeq(Bytes, s + 1, e + 1)[k] = Bytes[s + k]
  BY <1>1, <1>4
<1>6. s = 0 /\ e = NPages - 1 => SubSeq(Bytes, s + 1, e + 1) = Bytes
  BY <1>1, SubSeqFull
<1> QED
  BY <1>1, <1>3, <1>5, <1>6

\* Readers that know the length know that of the object and have a range inside
\* it, a scrub asks for all of it, and what was served is exact.
ReadInv ==
    /\ DOMAIN reply = Reader
    /\ \A r \in Reader : rkind[r] = "scrub" => header[r] = NoRange
    /\ \A r \in Reader : rpc[r] = "get" => len[r] = NPages /\ Satisfiable(header[r])
    /\ RangeReplyExact

\* What is fetched is the range the header asked for.
LEMMA FetchedExact ==
    ASSUME NPages < U64, ServeTypeOK, ReadInv, Stored = Page,
           NEW r \in Reader, rpc[r] = "get"
    PROVE  LET p == Asked(r)
               body == GetRange(Bytes, p.start, p.end)
               h == header[r]
           IN  /\ h # NoRange => p.start = h.start /\ p.end <= h.end
               /\ h # NoRange /\ h.end >= NPages => p.end = NPages - 1
               /\ h # NoRange /\ h.end < NPages => p.end = h.end
               /\ h = NoRange => p.start = 0 /\ p.end = NPages - 1
               /\ Len(body) = p.end - p.start + 1
               /\ \A k \in 1..Len(body) : body[k] \in {p.start + k, Hole}
               /\ h = NoRange => body = Bytes
<1> DEFINE p == ParseRange(header[r], NPages)
           h == header[r]
<1>1. Asked(r) = p /\ h \in Headers /\ Satisfiable(h)
  BY DEF Asked, ReadInv, ServeTypeOK
<1>2. /\ p.start \in 0..(NPages - 1) /\ p.end \in p.start..(NPages - 1)
      /\ h # NoRange => p.start = h.start /\ p.end <= h.end
      /\ h # NoRange /\ h.end >= NPages => p.end = NPages - 1
      /\ h # NoRange /\ h.end < NPages => p.end = h.end
      /\ h = NoRange => p.start = 0 /\ p.end = NPages - 1
  BY <1>1, ParseRangeExact, Zenon
<1> HIDE DEF p, h
<1>3. /\ Len(GetRange(Bytes, p.start, p.end)) = p.end - p.start + 1
      /\ \A k \in 1..(p.end - p.start + 1) : GetRange(Bytes, p.start, p.end)[k] \in {p.start + k, Hole}
      /\ p.start = 0 /\ p.end = NPages - 1 => GetRange(Bytes, p.start, p.end) = Bytes
  BY <1>2, GetRangeExact
<1> QED
  BY <1>1, <1>2, <1>3 DEF h

LEMMA ReadInvStep ==
    ASSUME NPages < U64
    PROVE  ServeTypeOK /\ StoredWhole /\ ReadInv /\ [ServeNext]_serveVars => ReadInv'
<1> SUFFICES ASSUME ServeTypeOK, StoredWhole, ReadInv, [ServeNext]_serveVars PROVE ReadInv'
  OBVIOUS
<1>1. ASSUME UNCHANGED <<rpc, rkind, header, len, reply>>
      PROVE  ReadInv'
  BY <1>1 DEF ReadInv, RangeReplyExact
<1>2. ASSUME NEW r \in Reader, NEW a, a.status # 206, Answered(r, a), UNCHANGED <<rkind, header, len>>
      PROVE  ReadInv'
  BY <1>2 DEF Answered, ReadInv, RangeReplyExact, ServeTypeOK
<1>3. ASSUME NEW r \in Reader, Missing(r) \/ ReadError(r)
      PROVE  ReadInv'
  <2>1. PICK a : a.status # 206 /\ Answered(r, a)
    BY <1>3 DEF Missing, ReadError, GiveUp, Quarantined
  <2> QED
    BY <1>2, <1>3, <2>1 DEF Missing, ReadError
<1>4. ASSUME NEW r \in Reader, Refused(r)
      PROVE  ReadInv'
  <2>1. Answered(r, [status |-> 416]) /\ [status |-> 416].status # 206
    BY <1>4 DEF Refused
  <2> QED
    BY <1>2, <1>4, <2>1 DEF Refused
<1>5. ASSUME NEW r \in Reader, Found(r)
      PROVE  ReadInv'
  <2>1. Len(Bytes) = NPages
    BY <1>5, WholeBytes DEF Found, StoredWhole
  <2>2. Satisfiable(header[r])
    <3>1. CASE rkind[r] = "scrub"
      BY <3>1 DEF ReadInv, Satisfiable
    <3>2. CASE rkind[r] = "data"
      BY <3>2, <1>5, <2>1, ParseRangeExact DEF Found, ServeTypeOK
    <3> QED
      BY <3>1, <3>2 DEF ServeTypeOK
  <2>3. /\ rpc' = [rpc EXCEPT ![r] = "get"]
        /\ len' = [len EXCEPT ![r] = NPages]
        /\ UNCHANGED <<rkind, header, reply>>
    BY <1>5, <2>1 DEF Found
  <2> QED
    BY <2>2, <2>3 DEF ReadInv, RangeReplyExact, ServeTypeOK
<1>6. ASSUME NEW r \in Reader, Fetched(r)
      PROVE  ReadInv'
  <2> DEFINE body == GetRange(Bytes, Asked(r).start, Asked(r).end)
  <2>1. Stored = Page /\ rpc[r] = "get" /\ Answered(r, Verdict(r, body)) /\ UNCHANGED <<rkind, header, len>>
    BY <1>6 DEF Fetched, StoredWhole
  <2>2. CASE rkind[r] = "scrub"
    <3>1. Verdict(r, body).status # 206
      BY <2>2 DEF Verdict, Sound, Quarantined
    <3> QED
      BY <3>1, <2>1, <1>2
  <2>3. CASE rkind[r] # "scrub"
    <3> DEFINE a == [status |-> 206, range |-> Asked(r), total |-> len[r], body |-> body]
    <3>1. Verdict(r, body) = a
      BY <2>3 DEF Verdict
    <3>2. a.status = 206 /\ a.range = Asked(r) /\ a.total = NPages /\ a.body = body
      BY <2>1 DEF ReadInv
    <3>3. LET p == Asked(r)
              h == header[r]
          IN  /\ Satisfiable(h)
              /\ h # NoRange => p.start = h.start /\ p.end <= h.end
              /\ h # NoRange /\ h.end >= NPages => p.end = NPages - 1
              /\ h # NoRange /\ h.end < NPages => p.end = h.end
              /\ h = NoRange => p.start = 0 /\ p.end = NPages - 1
              /\ Len(body) = p.end - p.start + 1
              /\ \A k \in 1..Len(body) : body[k] \in {p.start + k, Hole}
      BY <2>1, FetchedExact, Zenon DEF ReadInv
    <3> HIDE DEF a, body
    <3>4. reply' = [reply EXCEPT ![r] = a] /\ rpc' = [rpc EXCEPT ![r] = "idle"]
      BY <2>1, <3>1 DEF Answered
    <3>5. reply'[r] = a /\ \A q \in Reader : q # r => reply'[q] = reply[q] /\ rpc'[q] = rpc[q]
      BY <3>4 DEF ReadInv, ServeTypeOK
    <3>6. RangeReplyExact'
      BY <2>1, <3>2, <3>3, <3>5 DEF ReadInv, RangeReplyExact
    <3> QED
      BY <2>1, <3>4, <3>5, <3>6 DEF ReadInv, ServeTypeOK
  <2> QED
    BY <2>2, <2>3
<1>7. ASSUME NEW r \in Reader, NEW kind \in {"data", "scrub"}, NEW h \in Headers, Ask(r, kind, h)
      PROVE  ReadInv'
  BY <1>7 DEF Ask, ReadInv, RangeReplyExact, ServeTypeOK, NoReply
<1> QED
  BY <1>1, <1>3, <1>4, <1>5, <1>6, <1>7
  DEF ServeNext, serveVars, readVars, StoreStep, Rot

\* ReadInv holds as long as objects are there in full or not at all.
LEMMA ReadInvAlways ==
    ASSUME NEW w, NPages < U64
    PROVE  ServeSpec /\ OneByOne(w) => []ReadInv
<1>1. ServeInit => ReadInv
  BY DEF ServeInit, ReadInv, RangeReplyExact, NoReply
<1>2. ServeTypeOK /\ StoredWhole /\ ReadInv /\ [ServeNext]_serveVars => ReadInv'
  BY ReadInvStep
<1>3. ServeSpec /\ OneByOne(w) => []StoredWhole
  BY WholeAlways
<1> QED
  BY <1>1, <1>2, <1>3, ServeTypeCorrect, PTL DEF ServeSpec

\* A range that is served is the range the header asks for and holds the
\* object's bytes, although the object may be collected, put again, or go bad
\* between the request for its length and that for its bytes: for any number of
\* overlapping puts at S3, and on a local disk for puts that come one at a
\* time (OneByOne).  An object has fewer bytes than a u64 has values.
THEOREM RangesServedAreExact ==
    ASSUME NEW w, NPages < U64
    PROVE  ServeSpec /\ OneByOne(w) => []RangeReplyExact
<1>1. ReadInv => RangeReplyExact
  BY DEF ReadInv
<1> QED
  BY <1>1, ReadInvAlways, PTL

\* Under the same conditions, a request whose object is there and does not
\* change, whose header asks for bytes of it and whose requests to the store
\* all work, is answered with the bytes.
THEOREM CalmRangesAreServed ==
    ASSUME NEW w, NPages < U64
    PROVE  ServeSpec /\ OneByOne(w) => CalmRangeIsServed
<1> DEFINE P == \A r \in Reader :
                  /\ rkind[r] = "data" /\ Waiting(r) /\ rpc'[r] = "idle" /\ calm[r] /\ calm'[r]
                  /\ Stored # None /\ Satisfiable(header[r])
                  => reply'[r].status = 206
<1>1. ServeTypeOK /\ StoredWhole /\ ReadInv /\ [ServeNext]_serveVars => [P]_serveVars
  <2> SUFFICES ASSUME ServeTypeOK, StoredWhole, ReadInv, ServeNext,
                      NEW r \in Reader, rkind[r] = "data", Waiting(r), rpc'[r] = "idle",
                      calm'[r], Stored # None, Satisfiable(header[r])
               PROVE  reply'[r].status = 206
    OBVIOUS
  <2>1. ASSUME NEW q \in Reader, q # r,
               Missing(q) \/ Refused(q) \/ Found(q) \/ Fetched(q) \/ ReadError(q)
        PROVE  FALSE
    BY <2>1 DEF Missing, Refused, Found, Fetched, ReadError, GiveUp, Answered, Waiting, ServeTypeOK
  <2>2. ASSUME NEW q \in Reader, NEW kind \in {"data", "scrub"}, NEW h \in Headers, Ask(q, kind, h)
        PROVE  FALSE
    BY <2>2 DEF Ask, Waiting, ServeTypeOK
  <2>3. CASE StoreStep \/ Rot
    BY <2>3 DEF StoreStep, Rot, Waiting
  <2>4. CASE Missing(r) \/ Found(r) \/ ReadError(r)
    BY <2>4 DEF Missing, Found, ReadError, ServeTypeOK
  <2>5. ~Refused(r)
    BY WholeBytes, ParseRangeExact DEF Refused, StoredWhole, ServeTypeOK
  <2>6. CASE Fetched(r)
    <3>1. reply' = [reply EXCEPT ![r] = [status |-> 206, range |-> Asked(r), total |-> len[r],
                       body |-> GetRange(Bytes, Asked(r).start, Asked(r).end)]]
      BY <2>6 DEF Fetched, Answered, Verdict
    <3> QED
      BY <3>1 DEF ReadInv
  <2> QED
    BY <2>1, <2>2, <2>3, <2>4, <2>5, <2>6 DEF ServeNext
<1>2. ServeSpec /\ OneByOne(w) => []StoredWhole /\ []ReadInv
  BY WholeAlways, ReadInvAlways, PTL
<1> QED
  BY <1>1, <1>2, ServeTypeCorrect, PTL DEF ServeSpec, CalmRangeIsServed

\* Under the same conditions, a xorb that passes a scrub is intact when the
\* scrub has read it, and one that a scrub nothing interferes with quarantines
\* is not.
THEOREM ScrubsAreRight ==
    ASSUME NEW w, NPages < U64
    PROVE  ServeSpec /\ OneByOne(w) => ScrubVerdict
<1> DEFINE P == \A r \in Reader :
                  rkind[r] = "scrub" /\ Waiting(r) /\ rpc'[r] = "idle" =>
                    LET intact == Stored # None /\ Bytes = Whole
                    IN  /\ reply'[r] = Sound => intact
                        /\ reply'[r] = Quarantined /\ calm[r] /\ calm'[r] => ~intact
<1>1. ServeTypeOK /\ StoredWhole /\ ReadInv /\ [ServeNext]_serveVars => [P]_serveVars
  <2> SUFFICES ASSUME ServeTypeOK, StoredWhole, ReadInv, ServeNext,
                      NEW r \in Reader, rkind[r] = "scrub", Waiting(r), rpc'[r] = "idle"
               PROVE  LET intact == Stored # None /\ Bytes = Whole
                      IN  /\ reply'[r] = Sound => intact
                          /\ reply'[r] = Quarantined /\ calm'[r] => ~intact
    OBVIOUS
  <2>1. Sound # Quarantined
    BY DEF Sound, Quarantined
  <2>2. ASSUME NEW q \in Reader, q # r,
               Missing(q) \/ Refused(q) \/ Found(q) \/ Fetched(q) \/ ReadError(q)
        PROVE  FALSE
    BY <2>2 DEF Missing, Refused, Found, Fetched, ReadError, GiveUp, Answered, Waiting, ServeTypeOK
  <2>3. ASSUME NEW q \in Reader, NEW kind \in {"data", "scrub"}, NEW h \in Headers, Ask(q, kind, h)
        PROVE  FALSE
    BY <2>3 DEF Ask, Waiting, ServeTypeOK
  <2>4. ~StoreStep /\ ~Rot /\ ~Refused(r) /\ ~Found(r)
    BY DEF StoreStep, Rot, Waiting, Refused, Found, ServeTypeOK
  <2>5. CASE Missing(r)
    BY <2>1, <2>5 DEF Missing, GiveUp, Answered, ReadInv
  <2>6. CASE ReadError(r)
    BY <2>1, <2>6 DEF ReadError, GiveUp, Answered, ReadInv, ServeTypeOK
  <2>7. CASE Fetched(r)
    <3> DEFINE body == GetRange(Bytes, Asked(r).start, Asked(r).end)
    <3>1. Stored = Page /\ Stored # None /\ rpc[r] = "get" /\ header[r] = NoRange
      BY <2>7 DEF Fetched, StoredWhole, ReadInv
    <3>2. body = Bytes
      BY <3>1, FetchedExact, Zenon
    <3>3. reply' = [reply EXCEPT ![r] = IF body = Whole THEN Sound ELSE Quarantined]
      BY <2>7 DEF Fetched, Answered, Verdict, Valid
    <3>4. reply'[r] = IF Bytes = Whole THEN Sound ELSE Quarantined
      BY <3>2, <3>3 DEF ReadInv
    <3> QED
      BY <2>1, <3>1, <3>4
  <2> QED
    BY <2>2, <2>3, <2>4, <2>5, <2>6, <2>7 DEF ServeNext
<1>2. ServeSpec /\ OneByOne(w) => []StoredWhole /\ []ReadInv
  BY WholeAlways, ReadInvAlways, PTL
<1> QED
  BY <1>1, <1>2, ServeTypeCorrect, PTL DEF ServeSpec, ScrubVerdict
=============================================================================
