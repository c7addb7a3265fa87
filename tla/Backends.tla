------------------------------ MODULE Backends ------------------------------
(***************************************************************************)
(* The blob store of a running xetd, for one key: main opens the store     *)
(* that --backend names, LocalFsBlobStore or S3BlobStore, and every put    *)
(* and delete of the process goes to it.                                   *)
(***************************************************************************)
EXTENDS LocalFs

CONSTANT S3Faults       \* the failures of S3 this instance exhibits

VARIABLES backend,                          \* --backend
          object, s3pc, s3answer, stray     \* the variables of module S3

s3Vars == <<object, s3pc, s3answer, stray>>
backendVars == <<vars, s3Vars, backend>>

S3Store == INSTANCE S3 WITH pc <- s3pc, answer <- s3answer, Faults <- S3Faults

ASSUME BackendsAssumption == S3Faults \subseteq S3Store!FaultKinds

\* Every variable keeps its type, and the store that was not chosen is unused.
BackendsTypeOK ==
    /\ TypeOK
    /\ S3Store!TypeOK
    /\ backend \in {"local_fs", "s3"}
    /\ backend = "s3" => path = None /\ tmp = None
    /\ backend = "local_fs" => object = None

BackendsInit ==
    /\ Init
    /\ S3Store!Init
    /\ backend \in {"local_fs", "s3"}

PutStarts(w) ==
    \/ backend = "local_fs" /\ Begin(w) /\ UNCHANGED s3Vars
    \/ backend = "s3" /\ S3Store!Begin(w) /\ UNCHANGED vars

PutGoesOn(w) ==
    \/ backend = "local_fs" /\ PutStep(w) /\ UNCHANGED s3Vars
    \/ backend = "s3" /\ S3Store!PutStep(w) /\ UNCHANGED vars

\* A collection deletes the object.
Collect ==
    \/ backend = "local_fs" /\ Delete /\ UNCHANGED s3Vars
    \/ backend = "s3" /\ S3Store!Delete /\ UNCHANGED vars

StoreFault ==
    \/ /\ backend = "local_fs"
       /\ Kill \/ \E w \in Writer : WriteError(w) \/ Drop(w)
       /\ UNCHANGED s3Vars
    \/ /\ backend = "s3"
       /\ S3Store!Kill \/ S3Store!Land \/ \E w \in Writer : S3Store!PutError(w) \/ S3Store!Drop(w)
       /\ UNCHANGED vars

BackendsNext ==
    /\ \/ \E w \in Writer : PutStarts(w) \/ PutGoesOn(w)
       \/ Collect
       \/ StoreFault
    /\ UNCHANGED backend

\* A put that is under way goes on.
BackendsFairness == \A w \in Writer : WF_backendVars(PutGoesOn(w) /\ UNCHANGED backend)

-----------------------------------------------------------------------------
\* The bytes of the object, whichever store holds it.
Stored == IF backend = "s3" THEN object ELSE Published

Remote == INSTANCE BlobStore WITH blob <- object, answer <- s3answer, Exact <- FALSE

\* S3BlobStore implements the trait's contract for any number of overlapping
\* puts, deletes and failures, but for the meaning of true: put may have
\* written an object that was there.
S3ImplementsBlobStore == Remote!Spec

Idle == \A w \in Writer : pc[w] = "idle" /\ s3pc[w] = "idle"

Acknowledged == \E w \in Writer : {answer[w], s3answer[w]} \cap {"true", "false"} # {}

\* As long as nothing deletes the key and no local write fails, an object that
\* any put has acknowledged, newly written or found, is stored in full once the
\* puts are over.  (put_xorb indexes the xorb after a true and relies on it
\* after a false.)
AcknowledgedIsStored == Idle /\ Acknowledged => Stored = Page

\* Every put answers, on either store.
EveryPutReturns ==
    \A w \in Writer : (pc[w] # "idle" \/ s3pc[w] # "idle") ~> (pc[w] = "idle" /\ s3pc[w] = "idle")
=============================================================================
