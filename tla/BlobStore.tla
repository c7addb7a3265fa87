----------------------------- MODULE BlobStore -----------------------------
(***************************************************************************)
(* What the trait BlobStore promises of one key: put is an atomic,         *)
(* idempotent write of a complete object, which answers true when it wrote *)
(* the object and false when it found it there; an object is there in full *)
(* or not at all.                                                          *)
(*                                                                         *)
(* A put that answers with an error, is dropped, or is cut off by a crash, *)
(* has written nothing yet, but what it was doing may be on its way and    *)
(* take effect later.                                                      *)
(***************************************************************************)
CONSTANTS Writer,       \* callers of put
          Page,         \* the parts of the object's bytes
          Exact,        \* whether true also means that the object was new
          None

VARIABLES blob,         \* the object's bytes, or None
          answer,       \* per writer: "busy" during a put, otherwise its result
          stray         \* an abandoned put may still take effect

Answers == {"none", "busy", "true", "false", "error"}

Init ==
    /\ blob = None
    /\ answer = [w \in Writer |-> "none"]
    /\ stray = FALSE

Begin(w) ==
    /\ answer[w] # "busy"
    /\ answer' = [answer EXCEPT ![w] = "busy"]
    /\ UNCHANGED <<blob, stray>>

Inserted(w) ==
    /\ answer[w] = "busy"
    /\ Exact => blob = None
    /\ blob' = Page
    /\ answer' = [answer EXCEPT ![w] = "true"]
    /\ UNCHANGED stray

Existed(w) ==
    /\ answer[w] = "busy"
    /\ blob # None
    /\ answer' = [answer EXCEPT ![w] = "false"]
    /\ UNCHANGED <<blob, stray>>

Failed(w) ==
    /\ answer[w] = "busy"
    /\ answer' = [answer EXCEPT ![w] = "error"]
    /\ stray' \in BOOLEAN
    /\ UNCHANGED blob

\* The caller does not wait for the answer any more, or goes away before it has
\* heard that the object was there.
Dropped(w) ==
    /\ \/ answer[w] = "busy" /\ stray' \in BOOLEAN
       \/ answer[w] = "false" /\ UNCHANGED stray
    /\ answer' = [answer EXCEPT ![w] = "none"]
    /\ UNCHANGED blob

Landed ==
    /\ stray
    /\ blob' = Page
    /\ stray' \in BOOLEAN
    /\ UNCHANGED answer

\* What was on its way comes to nothing.
Lost ==
    /\ stray
    /\ stray' = FALSE
    /\ UNCHANGED <<blob, answer>>

Delete ==
    /\ blob' = None
    /\ UNCHANGED <<answer, stray>>

\* The process dies: no put that was under way answers.
Crash ==
    /\ answer' = [w \in Writer |-> "none"]
    /\ stray' \in BOOLEAN
    /\ UNCHANGED blob

Next ==
    \/ \E w \in Writer : Begin(w) \/ Inserted(w) \/ Existed(w) \/ Failed(w) \/ Dropped(w)
    \/ Landed
    \/ Lost
    \/ Delete
    \/ Crash

Spec == Init /\ [][Next]_<<blob, answer, stray>>
=============================================================================
