----------------------------- MODULE AsyncReader -----------------------------
(***************************************************************************)
(* The asynchronous import path of oss_ext.c: a background producer thread *)
(* (AsyncOssSourceMain) fetches ranged GETs of the segment's objects into a *)
(* ring buffer, and the engine thread (AsyncSourceRead, called once per     *)
(* oss_import invocation) copies bytes out of it.  AsyncSourceClose ends    *)
(* the import.  For gzip objects the producer takes each span from the     *)
(* decoder of ObjectReader instead of a ranged GET.                        *)
(*                                                                         *)
(* Data abstraction: the byte at offset o of the i-th object of the list   *)
(* is represented by its position in the concatenated stream,              *)
(* Base(i) + o + 1 (for gzip, GzBase(i) + j for its j-th decompressed      *)
(* byte), so a slot of the ring holds a stream position and 0              *)
(* stands for a zero-filled slot.  Sizes are in abstract bytes.            *)
(*                                                                         *)
(* Atomicity: the producer holds self->lock for a whole loop iteration,    *)
(* fetch included, and the consumer only takes the lock to grow the ring,  *)
(* so one producer iteration is one step.  The consumer reads self->end    *)
(* and self->eof without the lock at two different points of its loop;    *)
(* those reads are separate steps.                                         *)
(***************************************************************************)
EXTENDS Integers, Sequences, Functions, ObjectReader

CONSTANTS
  ReadUnit,       \* READ_UNIT_SIZE
  InitialBufLen,  \* INITIAL_BUF_LEN
  FileLengths,    \* oss_file.length of the segment's objects, in list order
  Requests,       \* the datlen values the engine passes to oss_import
  FetchMayFail,   \* whether oss_read_buffer may fail after its retries
  Modes           \* file_opt.type of the table: "none" or "gzip"

ASSUME /\ ReadUnit \in Nat \ {0}
       /\ InitialBufLen \in Nat /\ InitialBufLen % ReadUnit = 0
       /\ InitialBufLen > 2 * ReadUnit
       /\ FileLengths \in Seq(Nat) /\ Len(FileLengths) >= 1
       /\ Requests \subseteq Nat \ {0}
       /\ FetchMayFail \in BOOLEAN
       /\ Modes \subseteq {"none", "gzip"}
       /\ DOMAIN Comp = 1..Len(FileLengths)
       /\ \A k \in DOMAIN Comp : Len(Comp[k]) = FileLengths[k]

VARIABLES
  buf, size, begin, end,   \* self->buffer, self->size, self->begin, self->end
  eof, errmsg,             \* self->eof; errmsg[0] # '\0'
  cur, nextFile,           \* index of self->currentfile (0 = NULL); head of filelist
  length, offset,          \* self->length, self->offset
  mode,                    \* self->file_opt.type
  dec,                     \* self->com_hd, the z_decompress_reader
  pstate,                  \* producer thread: "run" or "exited"
  cstate,                  \* engine thread: where it is in AsyncSourceRead/Close
  req, got, lend,          \* request_len, bytesread, the local copy of end
  out,                     \* history: stream positions handed to the engine
  raised                   \* history: the engine raised the producer's error

vars == <<buf, size, begin, end, eof, errmsg, cur, nextFile, length, offset,
          mode, dec, pstate, cstate, req, got, lend, out, raised>>

NumFiles == Len(FileLengths)

\* Stream position of the first byte of object i.
Base(i) == SumFunctionOnSet(FileLengths, 1..(i - 1))

\* Stream position of the first decompressed byte of object i.
GzBase(i) == SumFunctionOnSet([k \in 1..NumFiles |-> FoldLeft(+, 0, Comp[k])], 1..(i - 1))

Total == IF mode = "gzip" THEN GzBase(NumFiles + 1) ELSE Base(NumFiles + 1)

MinOf(a, b) == IF a < b THEN a ELSE b

-----------------------------------------------------------------------------
(* oss_next_file (ossapi.c): drop the current object, pop the next one.    *)
NextFile ==
  IF nextFile <= NumFiles
    THEN /\ cur' = nextFile
         /\ length' = FileLengths[nextFile]
         /\ offset' = 0
         /\ nextFile' = nextFile + 1
    ELSE /\ cur' = 0
         /\ length' = -1
         /\ offset' = 0
         /\ UNCHANGED nextFile

(* oss_import's first call: list_oss_file, oss_next_file, then             *)
(* CreateAsyncOssSource (which runs only when an object was found, and for  *)
(* gzip opens the decoder).                                                 *)
Init ==
  /\ size = InitialBufLen
  /\ buf = [i \in 0..(InitialBufLen - 1) |-> 0]
  /\ begin = 0 /\ end = 0
  /\ eof = FALSE /\ errmsg = FALSE
  /\ cur = 1 /\ nextFile = 2
  /\ length = FileLengths[1] /\ offset = 0
  /\ mode \in Modes
  /\ dec = ZOpen
  /\ pstate = "run"
  /\ cstate = "idle"
  /\ req = 0 /\ got = 0 /\ lend = 0
  /\ out = <<>>
  /\ raised = FALSE

-----------------------------------------------------------------------------
(* Producer: one iteration of the for(;;) loop of AsyncOssSourceMain.     *)

\* Mutant: the full-ring test lets a span of exactly ReadUnit through.
FreeSpanNoGap ==
  IF begin > end
    THEN IF begin - end < ReadUnit THEN 0 ELSE begin - end
    ELSE IF begin = 0 /\ size - end < ReadUnit THEN 0 ELSE size - end

\* The free contiguous span the producer may fill; 0 keeps one gap slot and
\* refuses spans of at most ReadUnit that would close the ring.
FreeSpan ==
  IF begin > end
    THEN IF begin - end <= ReadUnit THEN 0 ELSE begin - end
    ELSE IF begin = 0 /\ size - end <= ReadUnit THEN 0 ELSE size - end

FetchLen == MinOf(MinOf(FreeSpan, ReadUnit), length - offset)

ProducerFrame == UNCHANGED <<size, begin, mode, cstate, req, got, lend, out, raised>>

\* Mutant: a full ring is polled again without looking at eof.
ProducerIdleKeepsPolling ==
  /\ pstate = "run"
  /\ FreeSpan = 0 /\ eof
  /\ UNCHANGED vars

\* len == 0 and self->eof: break out of the loop.
ProducerIdleExit ==
  /\ pstate = "run"
  /\ FreeSpan = 0 /\ eof
  /\ pstate' = "exited"
  /\ ProducerFrame
  /\ UNCHANGED <<buf, end, eof, errmsg, cur, nextFile, length, offset, dec>>

\* self->length < 0: no current object, the stream has ended.
ProducerEndOfList ==
  /\ mode = "none"
  /\ pstate = "run"
  /\ FreeSpan # 0 /\ length < 0
  /\ eof' = TRUE
  /\ pstate' = "exited"
  /\ ProducerFrame
  /\ UNCHANGED <<buf, end, errmsg, cur, nextFile, length, offset, dec>>

\* self->length == 0, or nothing of the object is left: oss_next_file.
ProducerNextFile ==
  /\ mode = "none"
  /\ pstate = "run"
  /\ FreeSpan # 0 /\ length >= 0
  /\ FetchLen = 0
  /\ NextFile
  /\ ProducerFrame
  /\ UNCHANGED <<buf, end, eof, errmsg, pstate, dec>>

\* oss_read_buffer returns len bytes at data + end; end advances.
ProducerFetch ==
  /\ mode = "none"
  /\ pstate = "run"
  /\ FreeSpan # 0 /\ length > 0
  /\ FetchLen > 0
  /\ LET n == FetchLen
         newEnd == IF end + n = size THEN 0 ELSE end + n
     IN /\ buf' = [i \in DOMAIN buf |->
                    IF i >= end /\ i < end + n
                      THEN Base(cur) + offset + (i - end) + 1
                      ELSE buf[i]]
        /\ offset' = offset + n
        /\ end' = newEnd
        /\ pstate' = IF eof THEN "exited" ELSE "run"
  /\ ProducerFrame
  /\ UNCHANGED <<eof, errmsg, cur, nextFile, length, dec>>

\* Mutant: a failed fetch ends the stream as if the data had run out.
ProducerFetchFailSetsEof ==
  /\ mode = "none"
  /\ FetchMayFail
  /\ pstate = "run"
  /\ FreeSpan # 0 /\ length > 0
  /\ FetchLen > 0
  /\ errmsg' = TRUE
  /\ eof' = TRUE
  /\ pstate' = "exited"
  /\ ProducerFrame
  /\ UNCHANGED <<buf, end, cur, nextFile, length, offset, dec>>

\* oss_read_buffer fails after its retries: it writes the message and
\* returns 0; the thread returns without setting eof.
ProducerFetchFail ==
  /\ mode = "none"
  /\ FetchMayFail
  /\ pstate = "run"
  /\ FreeSpan # 0 /\ length > 0
  /\ FetchLen > 0
  /\ errmsg' = TRUE
  /\ pstate' = "exited"
  /\ ProducerFrame
  /\ UNCHANGED <<buf, end, eof, cur, nextFile, length, offset, dec>>

\* The thread's reader of ObjectReader: currentfile, length, offset and the
\* objects left in filelist.
Reader ==
  [files |-> [i \in 1..(NumFiles + 1 - nextFile) |->
                [key |-> nextFile + i - 1, len |-> FileLengths[nextFile + i - 1]]],
   cur |-> cur, length |-> length, offset |-> offset]

SetReader(r) ==
  /\ cur' = r.cur /\ length' = r.length /\ offset' = r.offset
  /\ nextFile' = NumFiles + 1 - Len(r.files)

\* The decoder's call of this iteration: z_decompress_internal into data + end.
GzRead == ZDecompressInternal(Reader, dec, MinOf(FreeSpan, ReadUnit))

(* The gzip branch: z_decompress_internal fills up to len bytes at         *)
(* data + end, itself moving to the next object when one is used up.  0    *)
(* bytes with no message is the end: eof is set and the thread returns.    *)
ProducerGzip ==
  /\ mode = "gzip"
  /\ pstate = "run"
  /\ FreeSpan # 0
  /\ \E c \in {GzRead} :
     LET n == Len(c.data)
     IN /\ SetReader(c.r)
        /\ dec' = c.z
        /\ IF n = 0
             THEN /\ eof' = TRUE
                  /\ pstate' = "exited"
                  /\ UNCHANGED <<buf, end>>
             ELSE /\ buf' = [i \in DOMAIN buf |->
                               IF i >= end /\ i < end + n
                                 THEN GzBase(c.data[i - end + 1][1]) + c.data[i - end + 1][2]
                                 ELSE buf[i]]
                  /\ end' = IF end + n = size THEN 0 ELSE end + n
                  /\ pstate' = IF eof THEN "exited" ELSE "run"
                  /\ UNCHANGED eof
  /\ ProducerFrame
  /\ UNCHANGED errmsg

(* A GET the decoder makes (SourceRead_internal, async) fails after its    *)
(* retries: the message is written, z_decompress and                       *)
(* z_decompress_internal return 0, and the thread returns without eof.     *)
(* The reader's state is dead from here on and is left as it was.           *)
ProducerGzipFail ==
  /\ mode = "gzip"
  /\ FetchMayFail
  /\ pstate = "run"
  /\ FreeSpan # 0
  /\ Fetched(Reader, GzRead.r)
  /\ errmsg' = TRUE
  /\ pstate' = "exited"
  /\ ProducerFrame
  /\ UNCHANGED <<buf, end, eof, cur, nextFile, length, offset, dec>>

-----------------------------------------------------------------------------
(* Engine thread.                                                          *)

ConsumerFrame == UNCHANGED <<eof, errmsg, cur, nextFile, length, offset, mode, dec, pstate>>

\* Smallest multiple of ReadUnit that holds 4 * n bytes.
GrownSize(n) == (4 * n - 1) - ((4 * n - 1) % ReadUnit) + ReadUnit

Readable == (end - begin + size) % size

\* oss_import with datlen = n > 0 calls AsyncSourceRead; when the ring is
\* smaller than 4 * n it is first regrown under the lock, the live bytes
\* moved to the front.
Call ==
  /\ cstate = "idle"
  /\ \E n \in Requests :
       /\ req' = n /\ got' = 0
       /\ IF size < 4 * n
            THEN LET ns == GrownSize(n) IN
                 /\ size' = ns
                 /\ buf' = [i \in 0..(ns - 1) |->
                              IF i < Readable THEN buf[(begin + i) % size] ELSE 0]
                 /\ begin' = 0
                 /\ end' = Readable
            ELSE UNCHANGED <<size, buf, begin, end>>
  /\ cstate' = "copy"
  /\ ConsumerFrame
  /\ UNCHANGED <<lend, out, raised>>

\* Mutant: a copy that reaches the end of the ring leaves begin at size.
CopyOutNoWrap ==
  /\ cstate = "copy"
  /\ ~errmsg
  /\ LET e == end
         n == IF begin < e THEN MinOf(req - got, e - begin)
              ELSE IF begin > e THEN MinOf(req - got, size - begin)
              ELSE 0
     IN /\ out' = out \o [k \in 1..n |-> buf[begin + k - 1]]
        /\ got' = got + n
        /\ lend' = e
        /\ begin' = begin + n
        /\ cstate' = "check"
  /\ ConsumerFrame
  /\ UNCHANGED <<buf, size, end, req, raised>>

\* retry: read end and errmsg[0] without the lock, then copy from
\* [begin, end) or [begin, size) and publish begin.  A copy that reaches
\* the end of the ring wraps begin to 0 and retries at once.
CopyOut ==
  /\ cstate = "copy"
  /\ ~errmsg
  /\ LET e == end
         n == IF begin < e THEN MinOf(req - got, e - begin)
              ELSE IF begin > e THEN MinOf(req - got, size - begin)
              ELSE 0
         b == begin + n
     IN /\ out' = out \o [k \in 1..n |-> buf[begin + k - 1]]
        /\ got' = got + n
        /\ lend' = e
        /\ begin' = IF b = size THEN 0 ELSE b
        /\ cstate' = IF b = size /\ got + n < req THEN "copy" ELSE "check"
  /\ ConsumerFrame
  /\ UNCHANGED <<buf, size, end, req, raised>>

\* errmsg[0] != '\0': lock/unlock, then ereport(ERROR); the abort callback
\* runs free_data, which calls AsyncSourceClose.
RaiseError ==
  /\ cstate = "copy"
  /\ errmsg
  /\ raised' = TRUE
  /\ eof' = TRUE
  /\ cstate' = "joining"
  /\ UNCHANGED <<buf, size, begin, end, errmsg, cur, nextFile, length, offset,
                 mode, dec, pstate, req, got, lend, out>>

\* Return when the request is satisfied or at eof with nothing left in
\* [begin, end); otherwise pg_usleep and goto retry.
Check ==
  /\ cstate = "check"
  /\ cstate' = IF got = req \/ (eof /\ begin = lend)
                 THEN IF got = 0 THEN "eof" ELSE "idle"
                 ELSE "copy"
  /\ ConsumerFrame
  /\ UNCHANGED <<buf, size, begin, end, req, got, lend, out, raised>>

\* The last call (after EOF, or earlier when the query stops reading):
\* free_data -> AsyncSourceClose sets eof and joins the thread.
Close ==
  /\ cstate \in {"idle", "eof"}
  /\ eof' = TRUE
  /\ cstate' = "joining"
  /\ UNCHANGED <<buf, size, begin, end, errmsg, cur, nextFile, length, offset,
                 mode, dec, pstate, req, got, lend, out, raised>>

\* pthread_join returns once the producer has left its loop.
Join ==
  /\ cstate = "joining"
  /\ pstate = "exited"
  /\ cstate' = "closed"
  /\ UNCHANGED <<buf, size, begin, end, eof, errmsg, cur, nextFile, length,
                 offset, mode, dec, pstate, req, got, lend, out, raised>>

Terminated == cstate = "closed" /\ pstate = "exited"

Done == Terminated /\ UNCHANGED vars

Producer == ProducerIdleExit \/ ProducerEndOfList \/ ProducerNextFile
            \/ ProducerFetch \/ ProducerFetchFail \/ ProducerGzip \/ ProducerGzipFail

Consumer == Call \/ CopyOut \/ RaiseError \/ Check \/ Close \/ Join

Next == Producer \/ Consumer \/ Done

(* Both threads are OS threads that run whenever they can; the engine      *)
(* keeps calling oss_import until it returns 0 or the query ends.          *)
Fairness ==
  /\ WF_vars(Producer)
  /\ WF_vars(CopyOut \/ RaiseError \/ Check \/ Join)
  /\ WF_vars(Call \/ Close)

Spec == Init /\ [][Next]_vars /\ Fairness

-----------------------------------------------------------------------------
(* Properties.                                                             *)

TypeOK ==
  /\ size \in Nat \ {0}
  /\ buf \in [0..(size - 1) -> 0..Total]
  /\ begin \in 0..(size - 1) /\ end \in 0..(size - 1)
  /\ eof \in BOOLEAN /\ errmsg \in BOOLEAN /\ raised \in BOOLEAN
  /\ cur \in 0..NumFiles /\ nextFile \in 2..(NumFiles + 1)
  /\ length \in {-1} \cup Nat /\ offset \in Nat
  /\ mode \in Modes
  /\ Len(dec.in) <= ChunkSize /\ Len(dec.out) <= ChunkSize /\ dec.off \in 0..Len(dec.out)
  /\ pstate \in {"run", "exited"}
  /\ cstate \in {"idle", "copy", "check", "eof", "joining", "closed"}
  /\ req \in {0} \cup Requests /\ got \in 0..req
  /\ out \in Seq(1..Total)

\* Bytes fetched so far by the producer.
\* For gzip, what the decoder has made less what it has not handed over yet.
Produced ==
  CASE cur = NoFile    -> Total
    [] mode = "gzip"   -> GzBase(cur) + dec.made - (Len(dec.out) - dec.off)
    [] OTHER           -> Base(cur) + offset

(* Across every interleaving of the producer's fetches, the engine's       *)
(* copies and the ring regrowth in AsyncSourceRead, the engine receives    *)
(* the objects' bytes in order, and the unread span [begin, end) of the    *)
(* ring holds exactly the fetched bytes it has not received yet: no fetch  *)
(* overwrites unread bytes and no regrowth drops or reorders them.         *)
NoByteLostOrReordered ==
  /\ \A k \in 1..Len(out) : out[k] = k
  /\ Len(out) + Readable = Produced
  /\ \A k \in 0..(Readable - 1) : buf[(begin + k) % size] = Len(out) + k + 1

(* An error the producer records in errmsg is never turned into a normal   *)
(* end of data: AsyncSourceRead does not return 0 once it is set.          *)
ErrorNeverMasked == errmsg => cstate # "eof"

(* The import always finishes: AsyncSourceRead returns, the last call's    *)
(* AsyncSourceClose finds the producer out of its loop and joins it.       *)
ImportTerminates == <>Terminated

(* When AsyncSourceRead returns 0, the engine has received every byte of   *)
(* every object (spec: bytes read out equal bytes written in at eof).      *)
EofMeansAllDelivered == cstate = "eof" => Len(out) = Total

=============================================================================
