--------------------------- MODULE MC_AsyncReader ---------------------------
(***************************************************************************)
(* Model-checking instance of AsyncReader.  READ_UNIT_SIZE is one abstract *)
(* unit of 2 bytes; the ring starts at 4 read units (16 in the code) so    *)
(* that wraparound, the one-slot gap and a regrowth all happen within a    *)
(* 10-byte stream, longer than the ring.  A request of 3 bytes forces the  *)
(* ring to grow to 12.  The second object is empty, as a listed           *)
(* zero-length object is.  As gzip objects, the decoder's two-unit chunks  *)
(* inflate to the same 10 bytes; the first chunk of object 1 makes more     *)
(* than the out buffer holds, so output stays pending into the next chunk.  *)
(***************************************************************************)
EXTENDS AsyncReader

MCReadUnit == 2
MCInitialBufLen == 8
MCComp == << <<1, 2, 1, 0>>, <<>>, <<0, 2, 1>>, <<1, 1, 1>> >>
MCFileLengths == [k \in DOMAIN MCComp |-> Len(MCComp[k])]
MCChunkSize == 2
MCRequests == {1, 2, 3}
=============================================================================
