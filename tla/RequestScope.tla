---------------------------- MODULE RequestScope ----------------------------
(***************************************************************************)
(* What the extension promises PHP about everything it creates for one     *)
(* script: PHP opens a request, the script acquires resources, and when    *)
(* the request ends nothing it acquired is held any more.  PHP is a        *)
(* process that serves one request after another, so a resource that       *)
(* survives its request refers to memory the next request reuses.          *)
(*                                                                         *)
(* The components implement this with a hash table initialised by their    *)
(* PHP_RINIT_FUNCTION and destroyed by their PHP_RSHUTDOWN_FUNCTION.       *)
(***************************************************************************)
CONSTANT Resource          \* whatever must not outlive a request

VARIABLES open,            \* a request is being served
          held             \* the resources acquired and not yet given back

vars == <<open, held>>

TypeOK ==
    /\ open \in BOOLEAN
    /\ held \subseteq Resource

Init ==
    /\ open = FALSE
    /\ held = {}

\* PHP_RINIT_FUNCTION(gobject): the request starts with an empty table.
Begin ==
    /\ ~open
    /\ open' = TRUE
    /\ held' = {}

\* The script acquires resources: never outside a request.
Acquire ==
    /\ open
    /\ \E new \in SUBSET Resource : held' = held \cup new
    /\ UNCHANGED open

\* Resources may also be given back before the request ends.
Release ==
    /\ open
    /\ held' \in SUBSET held
    /\ UNCHANGED open

\* PHP_RSHUTDOWN_FUNCTION(gobject), or the death of the process.
End ==
    /\ open
    /\ open' = FALSE
    /\ held' = {}

Next == Begin \/ Acquire \/ Release \/ End

Spec == Init /\ [][Next]_vars

\* Between two requests nothing is held.
Scoped == ~open => held = {}
=============================================================================
