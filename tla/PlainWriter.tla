----------------------------- MODULE PlainWriter -----------------------------
(***************************************************************************)
(* The uncompressed export path of oss_ext.c, for every segment of the     *)
(* cluster at once: each segment's oss_export names its first object      *)
(* (oss_wirte_next_file), buffers rows up to flush_block (SourceWrite) and *)
(* appends the buffer to the current object, rolling over to a new object *)
(* when the object would pass file_max_size (flush_and_switch_to_next_file,*)
(* flush_ossfile); the last call or a transaction abort flushes what is   *)
(* left (WriteSourceClose).  Segments share one bucket.                   *)
(*                                                                         *)
(* A row is represented by <<segment, index>> and its size comes from      *)
(* RowSizes; sizes are in abstract units (WRITE_UNIT_SIZE in the code).    *)
(***************************************************************************)
EXTENDS Integers, Sequences, SequencesExt, ObjectStore

CONSTANTS
  NumSegments,     \* getgpsegmentCount()
  RowSizes,        \* RowSizes[s]: the sizes of the rows segment s exports, in order
  FlushBlock,      \* flush_block (oss_flush_block_size)
  FileMax,         \* file_max_size (oss_file_max_size)
  PreExisting,     \* names of objects that exist before the export starts
  AppendStatuses   \* the statuses an append may end with after the SDK's retries

Segments == 0..(NumSegments - 1)

ASSUME /\ NumSegments \in Nat \ {0}
       /\ RowSizes \in [Segments -> Seq(Nat \ {0})]
       /\ FlushBlock \in Nat \ {0} /\ FileMax \in Nat /\ FlushBlock <= FileMax
       /\ AppendStatuses \subseteq Statuses /\ "ok" \in AppendStatuses

VARIABLES
  bucket,      \* the bucket: object name -> appended chunks
  wstate,      \* per segment: "init", "open", "error", "closed", "aborted"
  fileindex,   \* myData->fileindex
  cur,         \* myData->currentfile
  ffo,         \* myData->file_flush_offset
  wbuf,        \* the rows in myData->buffer; their sizes sum to myData->offset
  pos          \* the index of the next row the engine hands to oss_export

vars == <<bucket, wstate, fileindex, cur, ffo, wbuf, pos>>

\* Content of a pre-existing object: a chunk written by no segment.
Foreign == <<-1, 0>>

Writer(chunk) == chunk[1]

SizeOf(chunk) == IF chunk = Foreign THEN 1 ELSE RowSizes[chunk[1]][chunk[2]]

Bytes(chunks) == FoldLeft(LAMBDA acc, c : acc + SizeOf(c), 0, chunks)

-----------------------------------------------------------------------------
(* Mutant: the segment index only enters the suffix, so every segment's  *)
(* first object gets the bare name.                                       *)
NameFirstForAll(fi, seg) ==
  IF fi = 0 THEN <<>> ELSE <<fi * NumSegments + seg>>

(* oss_wirte_next_file's object name: "<prefix><rel>_<T>" for the first   *)
(* object of segment 0, "<prefix><rel>_<T>.<fileindex*numsegments+seg>"   *)
(* otherwise.  The common part is dropped: a name is <<>> or <<suffix>>.   *)
Name(fi, seg) ==
  IF fi = 0 /\ seg = 0 THEN <<>> ELSE <<fi * NumSegments + seg>>

Init ==
  /\ bucket = [n \in PreExisting |-> <<Foreign>>]
  /\ wstate = [s \in Segments |-> "init"]
  /\ fileindex = [s \in Segments |-> 0]
  /\ cur = [s \in Segments |-> <<>>]
  /\ ffo = [s \in Segments |-> 0]
  /\ wbuf = [s \in Segments |-> <<>>]
  /\ pos = [s \in Segments |-> 1]

(* oss_export's first call: oss_wirte_next_file names the object and       *)
(* probes it; an existing object aborts the export before the writer is   *)
(* registered, otherwise CreateOssWriteSource.                             *)
Open(s) ==
  /\ wstate[s] = "init"
  /\ LET name == Name(0, s) IN
     /\ fileindex' = [fileindex EXCEPT ![s] = 1]
     /\ cur' = [cur EXCEPT ![s] = name]
     /\ wstate' = [wstate EXCEPT ![s] =
                     IF IsOssFileExist(bucket, name) THEN "aborted" ELSE "open"]
  /\ UNCHANGED <<bucket, ffo, wbuf, pos>>

-----------------------------------------------------------------------------
(* flush_and_switch_to_next_file.                                          *)

\* Mutant: the rollover test ignores the bytes about to be flushed.
NeedsRolloverLate(s) == ffo[s] > FileMax

NeedsRollover(s) == ffo[s] + Bytes(wbuf[s]) > FileMax

RolloverTarget(s) == Name(fileindex[s], s)

\* oss_wirte_next_file finds the next name taken: elog(ERROR) after it has
\* already moved currentfile and fileindex, before file_flush_offset = 0.
RolloverRefused(s) ==
  NeedsRollover(s) /\ IsOssFileExist(bucket, RolloverTarget(s))

(* Rollover if needed, then flush_ossfile appends the buffer and adds it   *)
(* to file_flush_offset; rest is what the buffer holds afterwards.        *)
FlushTo(s, status, rest) ==
  LET roll == NeedsRollover(s)
      name == IF roll THEN RolloverTarget(s) ELSE cur[s]
      ok   == AppendAccepted(status)
  IN /\ ~RolloverRefused(s)
     /\ bucket' = OssAppend(bucket, name, wbuf[s], status)
     /\ fileindex' = [fileindex EXCEPT ![s] = IF roll THEN @ + 1 ELSE @]
     /\ cur' = [cur EXCEPT ![s] = name]
     /\ ffo' = [ffo EXCEPT ![s] =
                  IF ok THEN (IF roll THEN 0 ELSE @) + Bytes(wbuf[s])
                  ELSE IF roll THEN 0 ELSE @]
     /\ wbuf' = [wbuf EXCEPT ![s] = IF ok THEN rest ELSE @]

RefuseRollover(s) ==
  /\ RolloverRefused(s)
  /\ fileindex' = [fileindex EXCEPT ![s] = @ + 1]
  /\ cur' = [cur EXCEPT ![s] = RolloverTarget(s)]
  /\ UNCHANGED <<bucket, ffo, wbuf>>

-----------------------------------------------------------------------------
(* SourceWrite.                                                            *)

Row(s) == <<s, pos[s]>>

RowSize(s) == RowSizes[s][pos[s]]

HasRow(s) == pos[s] <= Len(RowSizes[s])

\* The row fits in the buffer: memcpy at offset.
BufferRow(s) ==
  /\ wstate[s] = "open" /\ HasRow(s)
  /\ RowSize(s) <= FlushBlock
  /\ Bytes(wbuf[s]) + RowSize(s) <= FlushBlock
  /\ wbuf' = [wbuf EXCEPT ![s] = Append(@, Row(s))]
  /\ pos' = [pos EXCEPT ![s] = @ + 1]
  /\ UNCHANGED <<bucket, wstate, fileindex, cur, ffo>>

\* Mutant: the row-size check is missing; an oversize row is copied into
\* the freshly flushed buffer.
FlushRowUnchecked(s) ==
  /\ wstate[s] = "open" /\ HasRow(s)
  /\ Bytes(wbuf[s]) + RowSize(s) > FlushBlock
  /\ \E st \in AppendStatuses :
       /\ FlushTo(s, st, <<Row(s)>>)
       /\ wstate' = [wstate EXCEPT ![s] = IF AppendAccepted(st) THEN "open" ELSE "error"]
       /\ pos' = [pos EXCEPT ![s] = IF AppendAccepted(st) THEN @ + 1 ELSE @]

\* The row does not fit: flush (rolling over if needed), then the row
\* starts the buffer.
FlushRow(s) ==
  /\ wstate[s] = "open" /\ HasRow(s)
  /\ RowSize(s) <= FlushBlock
  /\ Bytes(wbuf[s]) + RowSize(s) > FlushBlock
  /\ \E st \in AppendStatuses :
       /\ FlushTo(s, st, <<Row(s)>>)
       /\ wstate' = [wstate EXCEPT ![s] = IF AppendAccepted(st) THEN "open" ELSE "error"]
       /\ pos' = [pos EXCEPT ![s] = IF AppendAccepted(st) THEN @ + 1 ELSE @]

\* The flush before the row finds the next object name taken.
FlushRowRefused(s) ==
  /\ wstate[s] = "open" /\ HasRow(s)
  /\ RowSize(s) <= FlushBlock
  /\ Bytes(wbuf[s]) + RowSize(s) > FlushBlock
  /\ RefuseRollover(s)
  /\ wstate' = [wstate EXCEPT ![s] = "error"]
  /\ UNCHANGED pos

\* A row larger than flush_block: elog(ERROR).
RowTooBig(s) ==
  /\ wstate[s] = "open" /\ HasRow(s)
  /\ RowSize(s) > FlushBlock
  /\ wstate' = [wstate EXCEPT ![s] = "error"]
  /\ UNCHANGED <<bucket, fileindex, cur, ffo, wbuf, pos>>

-----------------------------------------------------------------------------
(* WriteSourceClose, from the last call or (after an ERROR) from the       *)
(* abort callback's free_data: a non-empty buffer is flushed first.       *)

\* Mutant: the last call frees the buffer without flushing it.
CloseNoFlush(s) ==
  /\ wstate[s] = "open" /\ ~HasRow(s)
  /\ wstate' = [wstate EXCEPT ![s] = "closed"]
  /\ UNCHANGED <<bucket, fileindex, cur, ffo, wbuf, pos>>

Close(s) ==
  /\ wstate[s] = "open" /\ ~HasRow(s)
  /\ \/ /\ wbuf[s] = <<>>
        /\ wstate' = [wstate EXCEPT ![s] = "closed"]
        /\ UNCHANGED <<bucket, fileindex, cur, ffo, wbuf>>
     \/ /\ wbuf[s] # <<>>
        /\ \E st \in AppendStatuses :
             /\ FlushTo(s, st, <<>>)
             /\ wstate' = [wstate EXCEPT ![s] =
                             IF AppendAccepted(st) THEN "closed" ELSE "error"]
     \/ /\ wbuf[s] # <<>>
        /\ RefuseRollover(s)
        /\ wstate' = [wstate EXCEPT ![s] = "error"]
  /\ UNCHANGED pos

\* The abort callback closes the writer once more; an ERROR inside it
\* ends the cleanup.
AbortClose(s) ==
  /\ wstate[s] = "error"
  /\ wstate' = [wstate EXCEPT ![s] = "aborted"]
  /\ \/ /\ wbuf[s] = <<>>
        /\ UNCHANGED <<bucket, fileindex, cur, ffo, wbuf>>
     \/ /\ wbuf[s] # <<>>
        /\ \E st \in AppendStatuses : FlushTo(s, st, <<>>)
     \/ /\ wbuf[s] # <<>>
        /\ RefuseRollover(s)
  /\ UNCHANGED pos

Finished == \A s \in Segments : wstate[s] \in {"closed", "aborted"}

Done == Finished /\ UNCHANGED vars

Next ==
  \/ \E s \in Segments :
       \/ Open(s) \/ BufferRow(s) \/ FlushRow(s) \/ FlushRowRefused(s)
       \/ RowTooBig(s) \/ Close(s) \/ AbortClose(s)
  \/ Done

Spec == Init /\ [][Next]_vars

-----------------------------------------------------------------------------
(* Properties.                                                             *)

TypeOK ==
  /\ wstate \in [Segments -> {"init", "open", "error", "closed", "aborted"}]
  /\ fileindex \in [Segments -> Nat]
  /\ ffo \in [Segments -> Nat]
  /\ \A s \in Segments : Bytes(wbuf[s]) <= FlushBlock
  /\ pos \in [Segments -> Nat \ {0}]

(* Every object the export creates stays within oss_file_max_size, however *)
(* the rows of each segment fall into flushes and rollovers.              *)
ObjectSizeBound ==
  \A n \in DOMAIN bucket \ PreExisting : Bytes(bucket[n]) <= FileMax

(* No object ever holds data of two writers: the segments' names never     *)
(* collide, and no segment appends to an object that existed before.      *)
ObjectsNeverShared ==
  \A n \in DOMAIN bucket :
    \A i, j \in DOMAIN bucket[n] : Writer(bucket[n][i]) = Writer(bucket[n][j])

\* The objects of segment s in fileindex order, concatenated.
Exported(s) ==
  FlattenSeq([k \in 1..fileindex[s] |->
                IF Name(k - 1, s) \in DOMAIN bucket THEN bucket[Name(k - 1, s)] ELSE <<>>])

(* A segment whose last call returned normally has every row the engine   *)
(* handed it in its objects, in order, each exactly once.                 *)
ExportComplete ==
  \A s \in Segments :
    wstate[s] = "closed" =>
      Exported(s) = [i \in 1..Len(RowSizes[s]) |-> <<s, i>>]

=============================================================================
