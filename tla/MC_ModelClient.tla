--------------------------- MODULE MC_ModelClient ---------------------------
(* Values for the models of ModelClient that TLC checks.                   *)
EXTENDS ModelClient

\* No hint, one below the floor, one above the ceiling, one that overflowed.
SomeHints == {0, 1, 9, -4}

\* Of the jev client: none, a few, and fewer than none.
SomeRetries == {0, 3, -1}
=============================================================================
