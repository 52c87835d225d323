------------------------------- MODULE MCHeap -------------------------------
(***************************************************************************)
(* The heap with the constants of alloc.cpp, a skip list of few levels and *)
(* few pages: a bin of three cells, a bin of one, big blocks of one to     *)
(* three pages.                                                            *)
(***************************************************************************)
EXTENDS Heap
=============================================================================
