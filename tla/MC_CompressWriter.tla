------------------------- MODULE MC_CompressWriter -------------------------
(* Seven one-unit rows, pipe_block_size 2 and file_max_size 3: the third   *)
(* row flushes the engine's buffer, the fourth and seventh roll over to a new      *)
(* object, the close flushes the last.  The uploader buffers two tokens,   *)
(* so every object is appended in more than one piece; the pipes hold one *)
(* chunk and two tokens, so every actor blocks on another at some point.   *)
EXTENDS CompressWriter

MCRowSizes == <<1, 1, 1, 1, 1, 1, 1>>

(* The sixth row is larger than pipe_block_size: compress_write shuts the  *)
(* pipeline down and raises ERROR after one object has been completed.     *)
MCRowSizesOversize == <<1, 1, 1, 1, 1, 3>>
\* One query that ends normally, and one that fails on its oversize row.
MCRowTables == {MCRowSizes, MCRowSizesOversize}

MCRowTablesNormal == {MCRowSizes}
=============================================================================
