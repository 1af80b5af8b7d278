---------------------------- MODULE ObjectReader ----------------------------
(* How a reader takes bytes out of its segment's filelist, shared by the   *)
(* synchronous and the asynchronous import: oss_next_file and               *)
(* SourceRead_internal of ossapi.c, and the gzip decoder of                 *)
(* decompress_reader.c.  A reader is a record of the current object (cur,   *)
(* NoFile if none), its length and offset, and the rest of filelist, a      *)
(* sequence of [key, len].                                                  *)
(*                                                                          *)
(* An object is a sequence of compressed units; Comp[k][i] is the number    *)
(* of output units the decoder makes from unit i (0 for header and          *)
(* trailer bytes).  A gzip object's j-th decompressed byte is <<k, j>>.     *)
(* The in and out buffers of the decoder hold ChunkSize units               *)
(* (OSS_ZIP_DECOMPRESS_CHUNKSIZE).                                           *)
EXTENDS Integers, Sequences, SequencesExt

CONSTANTS
  Comp,        \* key -> the object's units and what each inflates to
  ChunkSize    \* OSS_ZIP_DECOMPRESS_CHUNKSIZE

ASSUME ChunkSize \in Nat \ {0}

NoFile == 0

\* F(e), with e evaluated once: TLC evaluates a LET definition again at each
\* of its uses when it computes ENABLED, which fairness makes it do.
Once(e, F(_)) == CHOOSE y \in {F(v) : v \in {e}} : TRUE

\* What init_z_decompress_reader and z_decompress_reader_open leave.
ZOpen == [in |-> <<>>, pend |-> 0, out |-> <<>>, off |-> 0, made |-> 0]

(* oss_next_file: take the head of filelist, or set length -1 when the     *)
(* list is empty.                                                           *)
OssNextFile(r) ==
  IF r.files = <<>>
    THEN [r EXCEPT !.cur = NoFile, !.length = -1, !.offset = 0]
    ELSE [files |-> Tail(r.files), cur |-> Head(r.files).key,
          length |-> Head(r.files).len, offset |-> 0]

(* SourceRead_internal: length < 0 is the end; an empty or finished object *)
(* moves to the next one (goto retry) only when auto_next_file is set;      *)
(* otherwise up to len units are read at offset (oss_read_buffer).          *)
(* Returns the reader, the object read and the units [from+1, from+n].      *)
RECURSIVE SourceReadInternal(_, _, _)
SourceReadInternal(r, len, autoNext) ==
  LET datlen == IF r.offset + len > r.length THEN r.length - r.offset ELSE len
  IN CASE r.length < 0 -> [r |-> r, key |-> r.cur, from |-> r.offset, n |-> 0]
       [] r.length = 0 \/ datlen = 0 ->
            IF autoNext THEN SourceReadInternal(OssNextFile(r), len, autoNext)
                        ELSE [r |-> r, key |-> r.cur, from |-> r.offset, n |-> 0]
       [] OTHER -> [r |-> [r EXCEPT !.offset = @ + datlen],
                    key |-> r.cur, from |-> r.offset, n |-> datlen]

(* inflate(Z_NO_FLUSH): decode input while no output is pending, write     *)
(* pending output while there is room; stop when the output is full with   *)
(* output pending, or when the input is used up.  n counts the units made.  *)
RECURSIVE InflateStep(_, _, _, _)
InflateStep(in, pend, room, n) ==
  IF pend > 0
    THEN IF room = 0 THEN [in |-> in, pend |-> pend, n |-> n]
         ELSE LET e == Min({pend, room}) IN InflateStep(in, pend - e, room - e, n + e)
    ELSE IF in = <<>> THEN [in |-> in, pend |-> 0, n |-> n]
         ELSE InflateStep(Tail(in), Head(in), room, n)

\* inflate into the emptied out buffer; the units made belong to currentfile.
Inflate(r, z) ==
  LET st == InflateStep(z.in, z.pend, ChunkSize, 0)
  IN [r |-> r,
      z |-> [z EXCEPT !.in = st.in, !.pend = st.pend, !.made = @ + st.n,
                      !.out = [j \in 1 .. st.n |-> <<r.cur, z.made + j>>]]]

(* z_decompress from retry_next: read a chunk without moving to the next   *)
(* object; at 0 take the next object, reopen the stream and try again, or  *)
(* return with nothing when there is none.                                  *)
RECURSIVE ZFill(_, _)
ZFill(r, z) ==
  LET z0 == [z EXCEPT !.out = <<>>]
      Filled(c) ==
        IF c.n = 0
          THEN LET r2 == OssNextFile(c.r)
               IN IF r2.cur # NoFile THEN ZFill(r2, ZOpen) ELSE [r |-> r2, z |-> z0]
          ELSE Inflate(c.r, [z0 EXCEPT !.in = [i \in 1 .. c.n |-> Comp[c.key][c.from + i]]])
  IN Once(SourceReadInternal(r, ChunkSize, FALSE), Filled)

\* z_decompress: refill when avail_in is 0, else inflate what is left.
ZDecompress(r, z) ==
  IF z.in = <<>> THEN ZFill(r, z) ELSE Inflate(r, [z EXCEPT !.out = <<>>])

(* z_decompress_internal's copy: Min(remaining, bufSize) units from        *)
(* outOffset, which moves past them.                                        *)
ZCopy(d, bufSize) ==
  LET count == Min({Len(d.z.out) - d.z.off, bufSize})
  IN [r |-> d.r, z |-> [d.z EXCEPT !.off = @ + count],
      data |-> SubSeq(d.z.out, d.z.off + 1, d.z.off + count)]

\* Mutant: outOffset is not restarted after a new out buffer is made.
ZDecompressInternalNoReset(r, z, bufSize) ==
  Once(IF Len(z.out) - z.off = 0 THEN ZDecompress(r, z) ELSE [r |-> r, z |-> z],
       LAMBDA d : ZCopy(d, bufSize))

(* z_decompress_internal: when the out buffer is used up, decompress and   *)
(* restart outOffset; then copy.                                            *)
ZDecompressInternal(r, z, bufSize) ==
  Once(IF Len(z.out) - z.off = 0
         THEN [ZDecompress(r, z) EXCEPT !.z.off = 0]
         ELSE [r |-> r, z |-> z],
       LAMBDA d : ZCopy(d, bufSize))

(* A call reached oss_read_buffer: it read the current object, so its     *)
(* offset moved past where the call found it (oss_next_file restarts at 0). *)
Fetched(r1, r2) == r2.offset > 0 /\ (r2.cur # r1.cur \/ r2.offset # r1.offset)

=============================================================================
