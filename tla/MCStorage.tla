----------------------------- MODULE MCStorage -----------------------------
EXTENDS Storage

\* Bound: the threads cross, where the system mounts a medium twice, or one kind
\* of mishap happens, a failing startUsb with or without a failing undo; what
\* follows a medium's removal, or a stopUsb that fails, is left out.
OneTrouble ==
    \/ mishaps = {} /\ (crossed => ~exclusive)
    \/ ~crossed /\ mishaps \in {{"busy"}, {"unreadable"}, {"start"}, {"start", "undo"}}

\* Bound: media are put in and taken out between presses.
MediaAtRest == present' # present => todo["UI"] = <<>>
=============================================================================
