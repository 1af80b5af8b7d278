----------------------------- MODULE SyncImport -----------------------------
(* The synchronous import of every segment (async 'false'): the planner    *)
(* of FilePlanner, then oss_import's calls of base.read, which is           *)
(* SourceRead for plain objects and z_decompress_read for gzip ones, whose  *)
(* steps are the operators of ObjectReader.  A plain object's i-th byte is  *)
(* <<k, i>>.                                                                *)
EXTENDS FilePlanner, ObjectReader

CONSTANTS
  ReadSizes,   \* datlen of a call of oss_import
  Modes,       \* compressiontype of the table: "none" or "gzip"
  GetStatuses  \* outcomes of oss_read_buffer's ranged GET after its retries

ASSUME /\ DOMAIN Comp = Keys
       /\ \A k \in Keys : ObjectLength[k] = Len(Comp[k])
       /\ Modes \subseteq {"none", "gzip"}
       /\ GetStatuses \subseteq {"ok", "error"}

VARIABLES
  mode,   \* file_opt.type
  rd,     \* segment -> currentfile (0 if none), length, offset, and the rest of filelist
  dec,    \* segment -> the z_decompress_reader: in, pend, out, outOffset, made
  got     \* segment -> every byte oss_import has returned so far

readerVars == <<mode, rd, dec, got>>

vars == <<plannerVars, readerVars>>

Init ==
  /\ InitPlanner
  /\ mode \in Modes
  /\ rd = [s \in Segments |-> [files |-> <<>>, cur |-> NoFile, length |-> -1, offset |-> 0]]
  /\ dec = [s \in Segments |-> ZOpen]
  /\ got = [s \in Segments |-> <<>>]

(* oss_read_buffer with async false: a failed aos_pool_create, options or  *)
(* header table, a GET still failing once its OSS_RETRY_COUNT retries are   *)
(* used (oss_api_throw_exception), and a body that is empty or longer than  *)
(* asked all raise ERROR.  A retried GET that succeeds reads the same range. *)
ReadBufferRaises(st) == st = "error"

-----------------------------------------------------------------------------
(* The first call of oss_import, after list_oss_file: oss_next_file, then  *)
(* CreateOssSource (for gzip, init_z_decompress_reader and                  *)
(* z_decompress_reader_open).  With no current file base.read stays NULL    *)
(* and every call returns 0, which is what a read at length -1 returns.     *)
Open(s) ==
  /\ lpc[s] = "open"
  /\ rd' = [rd EXCEPT ![s] = OssNextFile([files |-> files[s], cur |-> NoFile,
                                           length |-> -1, offset |-> 0])]
  /\ dec' = [dec EXCEPT ![s] = ZOpen]
  /\ lpc' = [lpc EXCEPT ![s] = "read"]
  /\ UNCHANGED <<src, marker, trunc, retries, fileindex, listed, files, mode, got>>

\* After a call returns, the next one is made unless it returned 0.
Returned(s, n) == lpc' = [lpc EXCEPT ![s] = IF n = 0 THEN "eof" ELSE "read"]

\* The call's GET raised ERROR: the query ends with the segment's reader.
Raised(s) == lpc' = [lpc EXCEPT ![s] = "error"] /\ UNCHANGED <<rd, dec, got>>

(* Mutant: a failed GET returns 0 to oss_import, which is end of data (as  *)
(* if the nread < 0 test, which a size_t never passes, were all that stood  *)
(* between a failure and the database).                                     *)
ReadPlainErrorAsEof(s) ==
  /\ lpc[s] = "read" /\ mode = "none"
  /\ \E len \in ReadSizes, st \in GetStatuses :
       LET c == SourceReadInternal(rd[s], len, TRUE)
       IN IF Fetched(rd[s], c.r) /\ ReadBufferRaises(st)
            THEN Returned(s, 0) /\ UNCHANGED <<rd, dec, got>>
            ELSE /\ rd' = [rd EXCEPT ![s] = c.r]
                 /\ got' = [got EXCEPT ![s] = @ \o [i \in 1 .. c.n |-> <<c.key, c.from + i>>]]
                 /\ Returned(s, c.n)
                 /\ UNCHANGED dec
  /\ UNCHANGED <<src, marker, trunc, retries, fileindex, listed, files, mode>>

\* A call of SourceRead: SourceRead_internal with auto_next_file.
ReadPlain(s) ==
  /\ lpc[s] = "read" /\ mode = "none"
  /\ \E len \in ReadSizes, st \in GetStatuses :
       LET c == SourceReadInternal(rd[s], len, TRUE)
       IN IF Fetched(rd[s], c.r) /\ ReadBufferRaises(st)
            THEN Raised(s)
            ELSE /\ rd' = [rd EXCEPT ![s] = c.r]
                 /\ got' = [got EXCEPT ![s] = @ \o [i \in 1 .. c.n |-> <<c.key, c.from + i>>]]
                 /\ Returned(s, c.n)
                 /\ UNCHANGED dec
  /\ UNCHANGED <<src, marker, trunc, retries, fileindex, listed, files, mode>>

\* A call of z_decompress_read.
ReadGzip(s) ==
  /\ lpc[s] = "read" /\ mode = "gzip"
  /\ \E len \in ReadSizes, st \in GetStatuses :
       LET c == ZDecompressInternal(rd[s], dec[s], len)
       IN IF Fetched(rd[s], c.r) /\ ReadBufferRaises(st)
            THEN Raised(s)
            ELSE /\ rd' = [rd EXCEPT ![s] = c.r]
                 /\ dec' = [dec EXCEPT ![s] = c.z]
                 /\ got' = [got EXCEPT ![s] = @ \o c.data]
                 /\ Returned(s, Len(c.data))
  /\ UNCHANGED <<src, marker, trunc, retries, fileindex, listed, files, mode>>

(* The last call (EXTPROTOCOL_IS_LAST_CALL): free_data, which closes the   *)
(* source.  It may come before a read returned 0, when the query stops      *)
(* early.                                                                   *)
LastCall(s) ==
  /\ lpc[s] \in {"read", "eof"}
  /\ lpc' = [lpc EXCEPT ![s] = "closed"]
  /\ UNCHANGED <<src, marker, trunc, retries, fileindex, listed, files, readerVars>>

Planner(s) == (ListObjects(s) \/ ProbeFile(s) \/ ShardFiles(s)) /\ UNCHANGED readerVars

Finished == \A s \in Segments : lpc[s] \in {"closed", "failed", "error"}

Done == Finished /\ UNCHANGED vars

Next ==
  \/ \E s \in Segments : Planner(s) \/ Open(s) \/ ReadPlain(s) \/ ReadGzip(s) \/ LastCall(s)
  \/ Done

(* Each segment runs list_oss_file on its own, to the end, and the         *)
(* database eventually makes the first call and the last call of every      *)
(* segment; nothing obliges it to read to the end.                          *)
Fairness ==
  \A s \in Segments : WF_vars(Planner(s)) /\ WF_vars(Open(s)) /\ WF_vars(LastCall(s))

Spec == Init /\ [][Next]_vars /\ Fairness

-----------------------------------------------------------------------------
Unit == Keys \X Nat

TypeOK ==
  /\ lpc \in [Segments -> {"list", "shard", "open", "read", "eof", "closed", "failed", "error"}]
  /\ marker \in [Segments -> 0 .. NumKeys]
  /\ trunc \in [Segments -> BOOLEAN]
  /\ retries \in [Segments -> 0 .. RetryCount]
  /\ src \in Sources
  /\ fileindex \in [Segments -> 0 .. NumKeys + 1]
  /\ listed \in [Segments -> Seq([key : Keys, len : 0 .. NumKeys * ChunkSize])]
  /\ files \in [Segments -> Seq([key : Keys, len : -1 .. NumKeys * ChunkSize])]
  \* a directory listing never yields a directory entry or a common prefix
  /\ src = "dir" => \A s \in Segments : \A f \in Range(files[s]) \cup Range(listed[s]) :
                      f.key \notin DirKeys \cup PrefixKeys
  /\ mode \in Modes
  /\ \A s \in Segments :
       /\ rd[s].cur \in Keys \cup {NoFile}
       /\ rd[s].length >= -1 /\ 0 <= rd[s].offset /\ rd[s].offset <= Max({rd[s].length, 0})
       /\ Len(dec[s].in) <= ChunkSize /\ Len(dec[s].out) <= ChunkSize
       /\ dec[s].off \in 0 .. Len(dec[s].out)
  /\ got \in [Segments -> Seq(Unit)]

(* The listing and sharding of all segments implement ShardPlan: each      *)
(* segment's filelist is its share of the one listing, with each object's   *)
(* length, so the segments read every object exactly once between them.     *)
(* It is about list_ossfiles_ondir's paging, marker and retry, the           *)
(* directory filter, list_ossfiles_usesegid's probing, and the              *)
(* count % numsegments test and HEAD of list_oss_file.                     *)
PlanRefinesShardPlan == Abstract!Spec

\* What a reader returns from one object of its filelist.
Content(f) ==
  CASE f.len <= 0      -> <<>>
    [] mode = "gzip"   -> [j \in 1 .. FoldLeft(+, 0, Comp[f.key]) |-> <<f.key, j>>]
    [] OTHER           -> [i \in 1 .. f.len |-> <<f.key, i>>]

(* When a call of oss_import returns 0, the segment has returned every     *)
(* byte of every object of its filelist, in order, decompressed for gzip:   *)
(* 0 means end of data to the database.  It is about SourceRead_internal's  *)
(* object switching, and z_decompress_internal, which returns whatever one   *)
(* inflate step made.                                                       *)
ImportComplete ==
  \A s \in Segments :
    lpc[s] = "eof" => got[s] = FlattenSeq([j \in 1 .. Len(files[s]) |-> Content(files[s][j])])
(* Every segment's planning ends, by a plan or by ERROR, and every         *)
(* segment's reader is closed: list_ossfiles_ondir's paging must move its   *)
(* marker forward and its retries are bounded, and the probing of            *)
(* list_ossfiles_usesegid stops at the first missing name.                   *)
ImportTerminates == <>Finished
=============================================================================
