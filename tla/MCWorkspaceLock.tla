--------------------------- MODULE MCWorkspaceLock ---------------------------
(* Instances of WorkspaceLock for TLC. *)
EXTENDS WorkspaceLock, TLC

\* Processes whose pids are not reused are interchangeable.
Interchangeable == Permutations(Servers \ Recycled)
=============================================================================
