---------------------------- MODULE CompressWriter ----------------------------
(***************************************************************************)
(* The gzip export path of one segment (compress_writer.c): the engine     *)
(* thread buffers rows up to pipe_block_size and writes the buffer into    *)
(* the stdin pipe of a pigz subprocess; pigz writes a gzip member into its *)
(* stdout pipe; the uploader thread (oss_write_main) reads it, gathers up  *)
(* to flush_block and appends to the current object.  Rolling over to a   *)
(* new object shuts the pipeline down (close stdin, waitpid, join) and    *)
(* starts a new one.  The uploader reports failure through the globals    *)
(* oss_writer_exit_witherr and oss_write_error_msg.                        *)
(*                                                                         *)
(* A chunk of the stdin pipe is the sequence of rows of one buffer write.  *)
(* pigz's output is a sequence of tokens: "H" (gzip header), a block       *)
(* <<"D", rows>> for each chunk it compressed, "T" (trailer and CRC).      *)
(***************************************************************************)
EXTENDS Integers, Sequences, SequencesExt, ObjectStore

CONSTANTS
  SegIndex, NumSegments,  \* this segment, getgpsegmentCount()
  RowTables,       \* the row sizes a query may hand to oss_export, one sequence per query
  PipeBlock,       \* pipe_block_size: the engine's buffer
  FileMax,         \* file_max_size, compared with uncompressed bytes
  UpBuf,           \* flush_block: the uploader's buffer, in tokens
  StdinCap,        \* chunks the stdin pipe holds before write() blocks
  StdoutCap,       \* tokens the stdout pipe holds before pigz blocks
  HeadStatuses,    \* outcomes of the HEAD inside each append
  PostStatuses,    \* outcomes of the POST inside each append
  MallocMayFail,   \* the uploader's two malloc calls may fail
  PigzMayFail,     \* pigz may exit with an error or be killed
  StartMayFail     \* pipe(), fork() and pthread_create() may fail

ASSUME /\ RowTables \subseteq Seq(Nat \ {0})
       /\ PipeBlock \in Nat \ {0} /\ FileMax \in Nat /\ UpBuf \in Nat \ {0}
       /\ StdinCap \in Nat \ {0} /\ StdoutCap \in Nat \ {0}
       /\ "ok" \in HeadStatuses /\ HeadStatuses \subseteq Statuses
       /\ "ok" \in PostStatuses /\ PostStatuses \subseteq Statuses
       /\ MallocMayFail \in BOOLEAN /\ PigzMayFail \in BOOLEAN
       /\ StartMayFail \in BOOLEAN

VARIABLES
  bucket,
  \* engine thread (oss_export, compress_write, compress_writer_close)
  pc, ret, fileindex, cur, ffo, ebuf, pos,
  \* stdin pipe: its content and whether the engine's write end is open
  stdin, stdinOpen,
  \* pigz: "none", "run", "exited" or "failed"; whether it has written the header
  zstate, zhdr,
  \* stdout pipe: its content and whether the read end is open
  stdout, readerOpen,
  \* uploader thread: "none", "starting", "run", "exited"; oss_file_name,
  \* its buffer
  ustate, uname, ubuf,
  \* the globals oss_writer_init and oss_writer_exit_witherr
  writerInit, exitWithErr,
  \* the sizes of the rows the query hands to oss_export
  rowSizes

engineVars == <<pc, ret, fileindex, cur, ffo, ebuf, pos>>
pipeVars == <<stdin, stdinOpen, zstate, zhdr, stdout, readerOpen>>
upVars == <<ustate, uname, ubuf, writerInit, exitWithErr>>
vars == <<bucket, engineVars, pipeVars, upVars, rowSizes>>

Rows == [i \in 1..Len(rowSizes) |-> i]

Bytes(rows) == FoldLeft(LAMBDA acc, r : acc + rowSizes[r], 0, rows)

(* oss_wirte_next_file's name for this segment (see PlainWriter).         *)
Name(fi) ==
  IF fi = 0 /\ SegIndex = 0 THEN <<>> ELSE <<fi * NumSegments + SegIndex>>

\* reset_global_variable: close what is left of old pipes, clear the flags.
ResetGlobalVariable == writerInit' = FALSE /\ exitWithErr' = FALSE

\* start_subprocess_open_pipe: fork pigz with fresh pipes.
StartPigz ==
  /\ stdin' = <<>> /\ stdinOpen' = TRUE
  /\ zstate' = "run" /\ zhdr' = FALSE
  /\ stdout' = <<>> /\ readerOpen' = TRUE
  /\ ResetGlobalVariable

\* pigz, then pthread_create of the uploader, which copies currentfile.
StartPipeline(name) ==
  /\ StartPigz
  /\ ustate' = "starting" /\ uname' = name /\ ubuf' = <<>>

\* What the pipeline is after the shutdown's resets.
Stopped ==
  /\ stdinOpen' = FALSE /\ zstate' = "none" /\ readerOpen' = FALSE
  /\ ustate' = "none" /\ writerInit' = FALSE /\ exitWithErr' = FALSE
  /\ UNCHANGED <<stdin, zhdr, stdout, uname, ubuf>>

\* Shut down, then continue at k ("error", "roll", "closed" or "aborted").
ToShutdown(k) == pc' = "sdclose" /\ ret' = k

(* Where the start can fail: pigz missing beside the postgres binary        *)
(* (file_exists), pipe(), fork(), pthread_create().                         *)
StartOutcomes ==
  IF StartMayFail THEN {"ok", "noexec", "nopipe", "nofork", "nothread"} ELSE {"ok"}

(* The pipeline's start in init_compress_writer, then the spin.  A missing *)
(* pigz or a failed pipe() raises ERROR inside start_subprocess_open_pipe; *)
(* a failed fork() closes the pipes and returns -5, and                    *)
(* init_compress_writer shuts down                                          *)
(* (nothing is running) and raises ERROR; a failed pthread_create shuts     *)
(* the started pigz down first.                                             *)
InitCompressWriter(name) ==
  \E r \in StartOutcomes :
    CASE r = "ok"       -> pc' = "spin" /\ StartPipeline(name) /\ UNCHANGED ret
      [] r = "nothread" -> /\ ToShutdown("error") /\ StartPigz
                          /\ ustate' = "none" /\ UNCHANGED <<uname, ubuf>>
      [] OTHER          -> pc' = "error" /\ Stopped /\ UNCHANGED ret

Init ==
  /\ bucket = [n \in {} |-> <<>>]
  /\ rowSizes \in RowTables
  /\ pc = "open" /\ ret = "none"
  /\ fileindex = 0 /\ cur = <<>> /\ ffo = 0 /\ ebuf = <<>> /\ pos = 1
  /\ stdin = <<>> /\ stdinOpen = FALSE
  /\ zstate = "none" /\ zhdr = FALSE
  /\ stdout = <<>> /\ readerOpen = FALSE
  /\ ustate = "none" /\ uname = <<>> /\ ubuf = <<>>
  /\ writerInit = FALSE /\ exitWithErr = FALSE

-----------------------------------------------------------------------------
(* Engine thread.                                                          *)

\* oss_export's first call: oss_wirte_next_file, then init_compress_writer,
\* which waits in "spin" for the uploader.
Open ==
  /\ pc = "open"
  /\ fileindex' = 1 /\ cur' = Name(0)
  /\ IF IsOssFileExist(bucket, Name(0))
       THEN pc' = "aborted" /\ UNCHANGED <<ret, pipeVars, upVars>>
       ELSE InitCompressWriter(Name(0))
  /\ UNCHANGED <<bucket, ffo, ebuf, pos>>

\* while (oss_writer_init == false) pg_usleep; then oss_writer_init = false.
Spin ==
  /\ pc = "spin" /\ writerInit
  /\ writerInit' = FALSE
  /\ pc' = IF ret = "roll" THEN "put" ELSE "idle"
  /\ ffo' = IF ret = "roll" THEN 0 ELSE ffo
  /\ ret' = "none"
  /\ UNCHANGED <<bucket, fileindex, cur, ebuf, pos, pipeVars, ustate, uname,
                 ubuf, exitWithErr>>

HasRow == pos <= Len(rowSizes)

RowSize == rowSizes[pos]

\* Mutant: the buffer test forgets the incoming row.
BufferFullIgnoresRow(r) == Bytes(ebuf) > PipeBlock

\* (offset + request_len) > pipe_block_size
BufferFull(r) == Bytes(ebuf) + r > PipeBlock

\* Mutant: the rollover test forgets the incoming row.
NeedsRolloverIgnoresRow(r) == ffo > FileMax

\* (file_flush_offset + request_len) > file_max_size, on uncompressed bytes.
NeedsRollover(r) == ffo + r > FileMax

(* compress_write's tests, in order: the uploader's error flag, the row    *)
(* size, the rollover test (on uncompressed bytes), the buffer test.      *)
WriteRow ==
  /\ pc = "idle" /\ HasRow
  /\ CASE exitWithErr            -> ToShutdown("error")
       [] RowSize > PipeBlock    -> ToShutdown("error")
       [] NeedsRollover(RowSize) -> pc' = "rollflush" /\ UNCHANGED ret
       [] BufferFull(RowSize)    -> pc' = "flush" /\ UNCHANGED ret
       [] OTHER                  -> pc' = "put" /\ UNCHANGED ret
  /\ UNCHANGED <<bucket, fileindex, cur, ffo, ebuf, pos, pipeVars, upVars>>

\* memcpy into the buffer; file_flush_offset += request_len.
Put ==
  /\ pc = "put"
  /\ ebuf' = Append(ebuf, pos)
  /\ ffo' = ffo + RowSize
  /\ pos' = pos + 1
  /\ pc' = "idle"
  /\ UNCHANGED <<bucket, ret, fileindex, cur, pipeVars, upVars>>

(* write_buffer_to_pipe: write() of the whole buffer, blocking while the   *)
(* pipe is full; nothing to do when the buffer is empty.  Once pigz has     *)
(* died the write fails (EPIPE; the backend ignores SIGPIPE): shut down,    *)
(* then ERROR.  Otherwise the caller goes on at next with ret' = k.         *)
PipeWrite(next, k) ==
  IF ebuf # <<>> /\ zstate = "failed"
    THEN ToShutdown("error") /\ UNCHANGED <<stdin, ebuf>>
    ELSE /\ ebuf = <<>> \/ Len(stdin) < StdinCap
         /\ stdin' = IF ebuf = <<>> THEN stdin ELSE Append(stdin, ebuf)
         /\ ebuf' = <<>>
         /\ pc' = next /\ ret' = k

Flush ==
  /\ pc = "flush"
  /\ PipeWrite("put", ret)
  /\ UNCHANGED <<bucket, fileindex, cur, ffo, pos, stdinOpen, zstate, zhdr,
                 stdout, readerOpen, upVars>>

RollFlush ==
  /\ pc = "rollflush"
  /\ PipeWrite("sdclose", "roll")
  /\ UNCHANGED <<bucket, fileindex, cur, ffo, pos, stdinOpen, zstate, zhdr,
                 stdout, readerOpen, upVars>>

(* shutdown_compress_main_env: close the stdin write end; waitpid for     *)
(* pigz; pthread_join the uploader; close a stdout read end it left open; *)
(* clear oss_writer_init, oss_writer_exit_witherr and the message.  Then  *)
(* the caller goes on: elog(ERROR), return from close, or (rollover)      *)
(* oss_wirte_next_file and init_compress_writer.                          *)

\* Mutant: the stdin pipe's write end stays open.
SdCloseKeepsStdin ==
  /\ pc = "sdclose"
  /\ pc' = "sdwait"
  /\ UNCHANGED <<bucket, ret, fileindex, cur, ffo, ebuf, pos, pipeVars, upVars>>

SdClose ==
  /\ pc = "sdclose"
  /\ stdinOpen' = FALSE
  /\ pc' = "sdwait"
  /\ UNCHANGED <<bucket, ret, fileindex, cur, ffo, ebuf, pos, stdin, zstate, zhdr,
                 stdout, readerOpen, upVars>>

(* waitpid returns once pigz has ended.  A failed pigz: pid_compress = -1 *)
(* and ERROR, before the uploader is joined and the globals are reset.     *)
SdWait ==
  /\ pc = "sdwait"
  /\ zstate # "run"
  /\ IF zstate = "failed"
       THEN pc' = "error" /\ zstate' = "none"
       ELSE pc' = "sdjoin" /\ UNCHANGED zstate
  /\ UNCHANGED <<bucket, ret, fileindex, cur, ffo, ebuf, pos, stdin, stdinOpen,
                 zhdr, stdout, readerOpen, upVars>>

\* Mutant: the join does not wait for the uploader.
SdJoinNoWait ==
  /\ pc = "sdjoin"
  /\ IF ret = "roll"
       THEN /\ fileindex' = fileindex + 1 /\ cur' = Name(fileindex)
            /\ IF IsOssFileExist(bucket, Name(fileindex))
                 THEN pc' = "error" /\ Stopped /\ UNCHANGED ret
                 ELSE InitCompressWriter(Name(fileindex))
       ELSE /\ pc' = ret /\ Stopped /\ UNCHANGED <<ret, fileindex, cur>>
  /\ UNCHANGED <<bucket, ffo, ebuf, pos>>

SdJoin ==
  /\ pc = "sdjoin"
  /\ ustate \in {"none", "exited"}
  /\ IF ret = "roll"
       THEN /\ fileindex' = fileindex + 1 /\ cur' = Name(fileindex)
            /\ IF IsOssFileExist(bucket, Name(fileindex))
                 THEN pc' = "error" /\ Stopped /\ UNCHANGED ret
                 ELSE InitCompressWriter(Name(fileindex))
       ELSE /\ pc' = ret /\ Stopped /\ UNCHANGED <<ret, fileindex, cur>>
  /\ UNCHANGED <<bucket, ffo, ebuf, pos>>

(* compress_writer_close from the last call: the error flag, then the     *)
(* buffer is written and the pipeline shut down.                           *)
CloseCheck ==
  /\ pc = "idle" /\ ~HasRow
  /\ IF exitWithErr THEN ToShutdown("error") ELSE pc' = "closeflush" /\ UNCHANGED ret
  /\ UNCHANGED <<bucket, fileindex, cur, ffo, ebuf, pos, pipeVars, upVars>>

\* Mutant: close shuts down without writing the buffer.
CloseFlushDropsBuffer ==
  /\ pc = "closeflush"
  /\ ebuf' = <<>> /\ pc' = "sdclose" /\ ret' = "closed"
  /\ UNCHANGED <<bucket, fileindex, cur, ffo, pos, pipeVars, upVars>>

CloseFlush ==
  /\ pc = "closeflush"
  /\ PipeWrite("sdclose", "closed")
  /\ UNCHANGED <<bucket, fileindex, cur, ffo, pos, stdinOpen, zstate, zhdr,
                 stdout, readerOpen, upVars>>

\* Mutant: the abort callback's close does not shut the pipeline down.
AbortCloseNoShutdown ==
  /\ pc = "error"
  /\ pc' = "aborted"
  /\ UNCHANGED <<bucket, ret, fileindex, cur, ffo, ebuf, pos, pipeVars, upVars>>

(* After an ERROR the abort callback calls compress_writer_close again.    *)
(* The stdin write end is closed by then, so whether the error flag is     *)
(* set, the buffer's write to fd -1 fails, or the buffer is empty, it runs *)
(* shutdown_compress_main_env once more, which joins an uploader the first *)
(* shutdown did not reach, and then raises ERROR or returns.               *)
AbortClose ==
  /\ pc = "error"
  /\ ToShutdown("aborted")
  /\ UNCHANGED <<bucket, fileindex, cur, ffo, ebuf, pos, pipeVars, upVars>>

-----------------------------------------------------------------------------
(* pigz -p n -l -f: reads its stdin to EOF and writes one gzip member to   *)
(* its stdout, blocking while the stdout pipe is full; exits 0 at EOF.     *)

H == <<"H", <<>>>>
T == <<"T", <<>>>>

StdoutFree == Len(stdout) < StdoutCap

PigzHeader ==
  /\ zstate = "run" /\ ~zhdr /\ StdoutFree
  /\ stdout' = Append(stdout, H) /\ zhdr' = TRUE
  /\ UNCHANGED <<bucket, engineVars, stdin, stdinOpen, zstate, readerOpen, upVars>>

PigzBlock ==
  /\ zstate = "run" /\ zhdr /\ stdin # <<>> /\ StdoutFree
  /\ stdout' = Append(stdout, <<"D", Head(stdin)>>)
  /\ stdin' = Tail(stdin)
  /\ UNCHANGED <<bucket, engineVars, stdinOpen, zstate, zhdr, readerOpen, upVars>>

\* pigz exits with an error, or a signal ends it: its pipe ends close.
PigzFail ==
  /\ PigzMayFail /\ zstate = "run"
  /\ zstate' = "failed"
  /\ UNCHANGED <<bucket, engineVars, stdin, stdinOpen, zhdr, stdout, readerOpen, upVars>>

PigzFinish ==
  /\ zstate = "run" /\ zhdr /\ stdin = <<>> /\ ~stdinOpen /\ StdoutFree
  /\ stdout' = Append(stdout, T) /\ zstate' = "exited"
  /\ UNCHANGED <<bucket, engineVars, stdin, stdinOpen, zhdr, readerOpen, upVars>>

-----------------------------------------------------------------------------
(* The uploader thread, oss_write_main.                                    *)

\* The two mallocs of its buffers; a failure jumps to oss_write_err before
\* oss_writer_init is set.
UploaderStart ==
  /\ ustate = "starting"
  /\ \E allocated \in IF MallocMayFail THEN BOOLEAN ELSE {TRUE} :
       IF allocated
         THEN ustate' = "run" /\ writerInit' = TRUE /\ UNCHANGED exitWithErr
         ELSE ustate' = "exited" /\ exitWithErr' = TRUE /\ UNCHANGED writerInit
  /\ UNCHANGED <<bucket, engineVars, pipeVars, uname, ubuf>>

(* piperead returns data: when it does not fit behind what is buffered,    *)
(* the buffer is appended first; a failed append jumps to oss_write_err,   *)
(* leaving the stdout read end open.                                       *)
UploaderRead ==
  /\ ustate = "run" /\ stdout # <<>>
  /\ stdout' = Tail(stdout)
  /\ IF Len(ubuf) + 1 > UpBuf
       THEN \E h \in HeadStatuses, p \in PostStatuses :
              LET r == OssAppendAsync(bucket, uname, ubuf, h, p) IN
              /\ bucket' = r.bucket
              /\ IF r.ok
                   THEN ubuf' = <<Head(stdout)>> /\ UNCHANGED <<ustate, exitWithErr>>
                   ELSE ubuf' = <<>> /\ ustate' = "exited" /\ exitWithErr' = TRUE
       ELSE /\ ubuf' = Append(ubuf, Head(stdout))
            /\ UNCHANGED <<bucket, ustate, exitWithErr>>
  /\ UNCHANGED <<engineVars, stdin, stdinOpen, zstate, zhdr, readerOpen, uname,
                 writerInit>>

(* piperead returns 0 (pigz has exited and the pipe is drained): close the *)
(* read end, append what is buffered, set oss_writer_exit_witherr to the   *)
(* outcome of that last append, and return.                                *)
UploaderEof ==
  /\ ustate = "run" /\ stdout = <<>> /\ zstate # "run"
  /\ readerOpen' = FALSE
  /\ ustate' = "exited"
  /\ ubuf' = <<>>
  /\ IF ubuf = <<>>
       THEN exitWithErr' = FALSE /\ UNCHANGED bucket
       ELSE \E h \in HeadStatuses, p \in PostStatuses :
              LET r == OssAppendAsync(bucket, uname, ubuf, h, p) IN
              /\ bucket' = r.bucket
              /\ exitWithErr' = ~r.ok
  /\ UNCHANGED <<engineVars, stdin, stdinOpen, zstate, zhdr, stdout, uname,
                 writerInit>>

-----------------------------------------------------------------------------

Finished == pc \in {"closed", "aborted"}

Done == Finished /\ UNCHANGED vars

Engine == /\ \/ Open \/ Spin \/ WriteRow \/ Put \/ Flush \/ RollFlush \/ SdClose
             \/ SdWait \/ SdJoin \/ CloseCheck \/ CloseFlush \/ AbortClose
          /\ UNCHANGED rowSizes

PigzWork == (PigzHeader \/ PigzBlock \/ PigzFinish) /\ UNCHANGED rowSizes

Pigz == PigzWork \/ (PigzFail /\ UNCHANGED rowSizes)

Uploader == (UploaderStart \/ UploaderRead \/ UploaderEof) /\ UNCHANGED rowSizes

Next == Engine \/ Pigz \/ Uploader \/ Done

(* The engine thread, the pigz process and the uploader thread each run    *)
(* whenever they are not blocked in read, write, waitpid or join.  pigz's   *)
(* failure is a fault that may or may not happen, so it has no fairness.   *)
Spec == Init /\ [][Next]_vars /\ WF_vars(Engine) /\ WF_vars(PigzWork) /\ WF_vars(Uploader)

-----------------------------------------------------------------------------
(* Properties.                                                             *)

TypeOK ==
  /\ pc \in {"open", "spin", "idle", "put", "flush", "rollflush", "sdclose",
             "sdwait", "sdjoin", "closeflush", "error", "closed", "aborted"}
  /\ Bytes(ebuf) <= PipeBlock
  /\ Len(stdin) <= StdinCap /\ Len(stdout) <= StdoutCap
  /\ Len(ubuf) <= UpBuf
  /\ zstate \in {"none", "run", "exited", "failed"}
  /\ ustate \in {"none", "starting", "run", "exited"}

\* A complete gzip member: header, blocks, trailer.
WellFormed(o) ==
  /\ Len(o) >= 2 /\ o[1] = H /\ o[Len(o)] = T
  /\ \A i \in 2..(Len(o) - 1) : o[i][1] = "D"

\* gunzip of a member: the rows of its blocks.
Inflate(o) == FoldLeft(LAMBDA acc, t : acc \o t[2], <<>>, o)

Member(k) == IF Name(k) \in DOMAIN bucket THEN bucket[Name(k)] ELSE <<>>

(* Once the engine has moved on to object k + 1, object k is a complete  *)
(* gzip member: the rollover's shutdown waited for pigz to finish and for *)
(* the uploader to append the trailer.                                    *)
EarlierObjectsComplete ==
  \A k \in 0..(fileindex - 2) : WellFormed(Member(k))

(* When the last call's close returns normally, the objects, each a       *)
(* complete gzip member, decompress to every row in order.                *)
ExportComplete ==
  pc = "closed" =>
    /\ \A k \in 0..(fileindex - 1) : WellFormed(Member(k))
    /\ FlattenSeq([k \in 1..fileindex |-> Inflate(Member(k - 1))]) = Rows

(* When the export has ended, by the last call's close or by the abort     *)
(* callback after an ERROR, neither the uploader thread nor pigz is still   *)
(* running: an uploader left behind would read memory of the ended query.   *)
(* It is about the shutdown's ERROR at waitpid for a failed pigz, which     *)
(* leaves the uploader unjoined, and the abort callback's second close.     *)
NoThreadOutlivesExport ==
  Finished => ustate \in {"none", "exited"} /\ zstate # "run"

(* No object holds more than file_max_size bytes of rows, counted before  *)
(* compression: the rollover test of compress_write, the buffer written     *)
(* into the old pipeline before its shutdown, and the reset of              *)
(* file_flush_offset once the new pipeline is up.  (The gzip output of      *)
(* incompressible rows is larger than the rows; the test cannot bound it.)  *)
ObjectRowsBound == \A n \in DOMAIN bucket : Bytes(Inflate(bucket[n])) <= FileMax

(* The export always ends: the last call returns or the ERROR is raised;  *)
(* no thread or process of the pipeline waits forever on another.         *)
ExportTerminates == <>Finished

=============================================================================
