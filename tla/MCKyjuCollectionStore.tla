------------------------ MODULE MCKyjuCollectionStore ------------------------
(* KyjuCollectionStore with small batches; a page is full with two entries. *)
EXTENDS KyjuCollectionStore, TLC

CONSTANTS c1, c2, c3, create, reader, delete

MCBatch == (c1 :> <<"a1">>) @@ (c2 :> <<"b1", "b2">>) @@ (c3 :> <<"c1">>)
             @@ (create :> <<"n1">>)
===============================================================================
