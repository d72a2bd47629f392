--------------------------- MODULE MCControlLoop ---------------------------
(* Small instances of ControlLoop for TLC. *)
EXTENDS ControlLoop

\* The process dies; its writes fail; cycles and portfolio reads fail.
AllRegimes == {{"crash"}, {"io"}, {"raise", "fetch"}}

NothingFails == {{}}
OnlyCrashes == {{"crash"}}
=============================================================================
