--------------------------------- MODULE S3 ---------------------------------
(***************************************************************************)
(* S3BlobStore::put and ::delete on one key of the bucket.  put asks for   *)
(* the object and, if the answer is not that it is there, writes it with   *)
(* one PutObject, which the service applies to the whole object at once.   *)
(*                                                                         *)
(* Between the two requests, and after the reply, the object may change    *)
(* under other puts and collections.  A PutObject that the client has      *)
(* given up on is still on its way: the service may apply it later.        *)
(***************************************************************************)
CONSTANTS Writer,       \* concurrent calls of put
          Page,         \* the parts of the object's bytes
          None,
          Faults,       \* the failures this instance exhibits
          Deletes       \* whether collections delete the key

VARIABLES
    object,     \* at the service: the object's bytes, or None
    pc,         \* per writer: the request put awaits next
    answer,     \* per writer: result of its last put
    stray       \* at the service: an abandoned PutObject may still arrive

vars == <<object, pc, answer, stray>>

FaultKinds == {"head_error", "put_error", "drop", "kill"}

TypeOK ==
    /\ object \in {None, Page}
    /\ pc \in [Writer -> {"idle", "head", "put"}]
    /\ answer \in [Writer -> {"none", "busy", "true", "false", "error"}]
    /\ stray \in BOOLEAN

Init ==
    /\ object = None
    /\ pc = [w \in Writer |-> "idle"]
    /\ answer = [w \in Writer |-> "none"]
    /\ stray = FALSE

-----------------------------------------------------------------------------
Answer(w, result) ==
    /\ pc' = [pc EXCEPT ![w] = "idle"]
    /\ answer' = [answer EXCEPT ![w] = result]

Begin(w) ==
    /\ pc[w] = "idle"
    /\ pc' = [pc EXCEPT ![w] = "head"]
    /\ answer' = [answer EXCEPT ![w] = "busy"]
    /\ UNCHANGED <<object, stray>>

\* head_object(..).is_ok()
HeadFound(w) ==
    /\ pc[w] = "head"
    /\ object # None
    /\ Answer(w, "false")
    /\ UNCHANGED <<object, stray>>

\* Not found; but any other failure of the request counts as not found, too.
HeadNotOk(w) ==
    /\ pc[w] = "head"
    /\ object = None \/ "head_error" \in Faults
    /\ pc' = [pc EXCEPT ![w] = "put"]
    /\ UNCHANGED <<object, answer, stray>>

\* A plausible slip: put answers without waiting for the PutObject.
PutObjectDetached(w) ==
    /\ pc[w] = "put"
    /\ stray' = TRUE
    /\ Answer(w, "true")
    /\ UNCHANGED object

PutObject(w) ==
    /\ pc[w] = "put"
    /\ object' = Page
    /\ Answer(w, "true")
    /\ UNCHANGED stray

\* The request or its reply is lost, also to the retries of the SDK.
PutError(w) ==
    /\ "put_error" \in Faults
    /\ pc[w] = "put"
    /\ stray' = TRUE
    /\ Answer(w, "error")
    /\ UNCHANGED object

\* The caller is gone and the future of put is dropped at its await.
Drop(w) ==
    /\ "drop" \in Faults
    /\ pc[w] # "idle"
    /\ stray' = (stray \/ pc[w] = "put")
    /\ Answer(w, "none")
    /\ UNCHANGED object

\* An abandoned PutObject arrives; there may be others.
Land ==
    /\ stray
    /\ object' = Page
    /\ stray' \in BOOLEAN
    /\ UNCHANGED <<pc, answer>>

\* S3BlobStore::delete
Delete ==
    /\ Deletes
    /\ object # None
    /\ object' = None
    /\ UNCHANGED <<pc, answer, stray>>

\* xetd dies; the service does not.
Kill ==
    /\ "kill" \in Faults
    /\ stray' = (stray \/ \E w \in Writer : pc[w] = "put")
    /\ pc' = [w \in Writer |-> "idle"]
    /\ answer' = [w \in Writer |-> "none"]
    /\ UNCHANGED object

-----------------------------------------------------------------------------
PutStep(w) == HeadFound(w) \/ HeadNotOk(w) \/ PutObject(w)

Next ==
    \/ \E w \in Writer : Begin(w) \/ PutStep(w) \/ PutError(w) \/ Drop(w)
    \/ Land
    \/ Delete
    \/ Kill

Spec == Init /\ [][Next]_vars
=============================================================================
