---------------------------- MODULE MC_PlainWriter ----------------------------
(* Five segments exporting into one bucket, flush_block 2 and             *)
(* file_max_size 3 (in units of rows' sizes).  Names are suffixes          *)
(* fileindex * 5 + segment; objects ".6" and ".7" exist beforehand.        *)
(*   segment 0, rows 1 2 1 1: two flushes fill its first object, the      *)
(*     closing flush rolls over to ".5";                                   *)
(*   segment 1, rows 2 2: the closing flush needs ".6", which exists: the  *)
(*     ERROR, then the abort callback's flush rolls on to ".11";           *)
(*   segment 2, rows 2 2 2: a flush before a row needs ".7": refused;      *)
(*   segment 3, row 3: larger than flush_block;                            *)
(*   segment 4 exports no rows and closes an empty buffer.                 *)
EXTENDS PlainWriter

MCRowSizes ==
  (0 :> <<1, 2, 1, 1>>) @@ (1 :> <<2, 2>>) @@ (2 :> <<2, 2, 2>>) @@ (3 :> <<3>>)
    @@ (4 :> <<>>)

MCPreExisting == {<<6>>, <<7>>}
=============================================================================
