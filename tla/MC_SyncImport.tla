---------------------------- MODULE MC_SyncImport ----------------------------
(* Six keys listed two per page, so the listing takes three pages and two  *)
(* markers.  Key 3 is a directory entry; the cfg makes key 4 a common     *)
(* prefix of a directory listing.  Between them the two segments            *)
(* read an object whose first chunk inflates to less than the out buffer,   *)
(* one that leaves output pending past the out buffer, and an empty one.    *)
(* Every chunk of every object inflates to at least one unit.               *)
EXTENDS SyncImport

MCComp ==
  (1 :> <<0, 1, 2, 0>>) @@ (2 :> <<0, 3, 1, 0>>) @@ (3 :> <<>>) @@
  (4 :> <<0, 1, 1, 0>>) @@ (5 :> <<0, 2>>) @@ (6 :> <<>>)

(* The same objects, but object 1 is three units long: its second chunk is *)
(* its trailer alone, from which inflate makes nothing.                     *)
MCCompTrailerChunk == [MCComp EXCEPT ![1] = <<0, 2, 0>>]

MCObjectLength == [k \in DOMAIN MCComp |-> Len(MCComp[k])]

MCObjectLengthTrailerChunk == [k \in DOMAIN MCCompTrailerChunk |-> Len(MCCompTrailerChunk[k])]
=============================================================================
