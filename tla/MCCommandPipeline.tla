------------------------- MODULE MCCommandPipeline -------------------------
(***************************************************************************)
(* CommandPipeline with a few transactions and queues of one entry.        *)
(***************************************************************************)
EXTENDS CommandPipeline

(* The transaction ids are interchangeable.                                *)
Symmetric == Permutations(Ids)

=============================================================================
