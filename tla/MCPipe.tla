------------------------------- MODULE MCPipe -------------------------------
(* Pipe.tla for TLC: readers are interchangeable, and so are watchers.      *)
EXTENDS Pipe, TLC

ReaderSymmetry == Permutations(Readers) \cup Permutations(Watchers)

=============================================================================
