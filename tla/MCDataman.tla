------------------------------ MODULE MCDataman ------------------------------
(* Instances of the data manager: the cache's client and one other client. *)
EXTENDS DatamanCache

MCItems == {"wp"}
MCIndices == 1 .. 2
MCNavKeys == {<<"wp", 1>>}
MCOps == {OpOf("clear", "wp", 1, Empty)}
=============================================================================
