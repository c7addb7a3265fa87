----------------------------- MODULE FileStore -----------------------------
(***************************************************************************)
(* What the store as a whole promises its users while nothing is           *)
(* collected: a set of files that read back as themselves, and a catalog   *)
(* of names for them.  A file becomes readable and gets its name in one    *)
(* step, at its registration; a file that is readable stays readable, with *)
(* the one exception that a server that restarts has forgotten everything. *)
(***************************************************************************)
CONSTANTS Contents,     \* file contents
          Path,         \* catalog keys
          None

VARIABLES readable,     \* the files that can be read back
          catalog       \* catalog key -> file, or None

Init ==
    /\ readable = {}
    /\ catalog = [p \in Path |-> None]

Publish(f, p) ==
    /\ catalog' = [catalog EXCEPT ![p] = f]
    /\ readable' = readable \cup {f}

Forget ==
    /\ catalog' = [p \in Path |-> None]
    /\ readable' = {}

Next == (\E f \in Contents, p \in Path : Publish(f, p)) \/ Forget

Spec == Init /\ [][Next]_<<readable, catalog>>
=============================================================================
