------------------------------ MODULE FxEffect ------------------------------
(***************************************************************************)
(* What a provider promises of one effect through FxControl, whatever the  *)
(* effect is and however it is run: an abstract life cycle that providers  *)
(* are shown to implement.                                                 *)
(***************************************************************************)
EXTENDS Naturals

CONSTANTS
    Instances,  \* what fx_start starts: processes, containers, machines
    None        \* no instance

VARIABLES
    last,      \* the instance that was started last, None if there is none
    up,        \* it runs
    handle,    \* the instance of the handle that the caller has, or None
    destroyed  \* the last call was a destroy that returned Ok

vars == <<last, up, handle, destroyed>>

Init == last = None /\ ~up /\ handle = None /\ ~destroyed

\* fx_start starts an instance only when none runs, and it may end at once.
Spawn ==
    /\ ~up
    /\ last' \in Instances \ {last} /\ up' \in BOOLEAN
    /\ UNCHANGED <<handle, destroyed>>

\* fx_start returns a handle for that instance or, if it is called again, for
\* the one it finds: never for another.
Attach ==
    /\ last # None
    /\ handle' = last /\ ~destroyed'
    /\ UNCHANGED <<last, up>>

\* The instance ends: by itself, because of fx_stop, or because of fx_destroy.
End == up /\ ~up' /\ UNCHANGED <<last, handle, destroyed>>

\* fx_destroy returns Ok when the instance of the handle does not run; it may
\* have ended just now.
Destroyed ==
    /\ handle # None
    /\ up' \in {up, FALSE} /\ ~(up' /\ handle = last)
    /\ destroyed'
    /\ UNCHANGED <<last, handle>>

\* A call begins, or the handle is dropped.  Neither ends the instance.
Call ==
    /\ handle' \in {handle, None} /\ ~destroyed'
    /\ UNCHANGED <<last, up>>

\* A crash of the caller may come before the instance is recorded, and then it
\* runs on and nobody knows of it.
Lose == up /\ last' = None /\ ~up' /\ handle' = None /\ ~destroyed'

Next == Spawn \/ Attach \/ End \/ Destroyed \/ Call \/ Lose

Spec == Init /\ [][Next]_vars

=============================================================================
