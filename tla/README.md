# TLA+ models of aliyun_oss_ext

This directory holds TLA+ specifications of the Greenplum/PostgreSQL external-table
protocol `oss://` in `src/`. The protocol reads objects of an Aliyun OSS bucket into a
query (import) and writes query output into new objects (export). Each module is
written from the C source and names the functions it models. `PROJECT.json` maps
every modelled definition to its source lines, and lists the TLC runs, the mutants
that show each property can fail, the findings and the hazards.

## The system

| Part | Source | Concurrency and state |
|---|---|---|
| Import entry `oss_import` | `oss_ext.c` 79-172 | first call: parse the URL, list objects, start a reader; then one `read` per call; last call or abort: `free_data` |
| Object list, sharding | `oss_ext.c` 213-349, `ossapi.c` 290-382 | paged LIST, `count % numsegments == segindex`, HEAD for each length |
| Async reader | `oss_ext.c` 355-628 | a fetch thread (`AsyncOssSourceMain`) and the engine thread (`AsyncSourceRead`) share a ring buffer; the fetch thread holds the lock for a whole iteration, including the HTTP read; the engine reads `end`, `eof` and `errmsg` without it |
| Sync reader, gzip decoder | `ossapi.c` 702-778, `decompress_reader.c` | inflate in 2 MiB chunks, crossing object boundaries |
| Object client | `ossapi.c` 104-629 | HEAD, ranged GET, append with position negotiation, retries |
| Export entry `oss_export` | `oss_ext.c` 648-745 | first call names the first object and checks it is free; then one `write` per row |
| Plain writer | `oss_ext.c` 747-849, `ossapi.c` 814-846 | buffer up to `flush_block`, append, roll over past `file_max_size`; every segment writes into the same bucket |
| Compressed writer | `compress_writer.c` | engine → pipe → `pigz` subprocess → pipe → uploader thread → append; shared flags `oss_writer_init` and `oss_writer_exit_witherr` |
| Options | `oss_ext.c` 873-1333 | `parse_oss_protocol` on the first call: `get_opt_oss` finds each option with `strstr`, then every check ends in ERROR |
| SDK wrapper | `lib/oss_object.c` | HTTP; always returns a status object |

The abort callback `oss_ext_abort_callback` runs `free_data` on the current reader or
writer after any ERROR. For a writer, that flushes the buffer once more.

## Modules

- **AsyncReader**: the async import path, for plain and gzip tables (`Modes`).
  - State: the ring (`buf`, `size`, `begin`, `end`), `eof`, `errmsg`, and the fetch
    thread's cursor (`cur`, `nextFile`, `length`, `offset`). The engine's state is a
    program counter `cstate` plus the locals of `AsyncSourceRead`: `req`, `got`, and
    `lend`, which is the snapshot of `end`.
  - Actions: one per branch of an iteration of the fetch loop (`ProducerIdleExit`,
    `ProducerEndOfList`, `ProducerNextFile`, `ProducerFetch`, `ProducerFetchFail`),
    and for gzip `ProducerGzip` (`z_decompress_internal` into the ring, 0 bytes
    setting `eof`) and `ProducerGzipFail` (a GET of the decoder fails). The gzip
    branch hands the cursor to ObjectReader as a reader record (`Reader`,
    `SetReader`) and keeps the decoder in `dec`.
  - The engine's work is split at each point where it reads shared state without the
    lock: `Call` (the request and the ring growth under the lock), `CopyOut` (read
    `end`, copy, publish `begin`), `Check` (the return test), `RaiseError`, and
    `Close`/`Join` (`AsyncSourceClose`).
  - A byte is represented by its position in the concatenated stream (of the
    decompressed objects, for gzip), so the ring's content is checkable.
- **ObjectReader**: how a reader takes bytes out of its file list, shared by both
  import paths: `OssNextFile`, `SourceReadInternal`, and the gzip decoder
  (`ZDecompressInternal`, `ZCopy`, `ZDecompress`, `ZFill`, `Inflate`,
  `InflateStep`). `Fetched` tells whether a call reached `oss_read_buffer`. `Once`
  evaluates a value once for the operators that use it many times, since TLC
  re-evaluates a LET definition at each use when it computes ENABLED for
  AsyncReader's fairness.
- **ObjectStore**: the bucket as a function from object name to the sequence of
  appended chunks. It provides `is_ossfile_exist`, the append-position negotiation and
  the acceptance test of `oss_append_file_from_buffer` as operators. Transport retries
  are folded into the final status of a call.
- **PlainWriter**: every segment's uncompressed export.
  - Per segment: `wstate`, `fileindex`, `cur`, `ffo` (`file_flush_offset`), `wbuf`
    (the buffered rows) and `pos` (the next row).
  - Actions:
    - `Open`: the first call of `oss_export`;
    - `BufferRow`, `FlushRow`, `FlushRowRefused` and `RowTooBig`: the paths of
      `SourceWrite`;
    - `Close`: `WriteSourceClose` from the last call;
    - `AbortClose`: the same close from the abort callback.
  - A row is `<<segment, index>>` with a size from a constant table.
  - `FlushTo` is the whole of `flush_and_switch_to_next_file` followed by
    `flush_ossfile`. `RefuseRollover` is `oss_wirte_next_file` finding its name taken.
- **CompressWriter**: one segment's gzip export, modelled as four actors that block
  on one another:
  - the engine thread. Its program counter `pc` walks through the blocking points:
    - `compress_write` (`WriteRow`, `Put`, `Flush`, `RollFlush`);
    - `shutdown_compress_main_env` (`SdClose`, `SdWait` for waitpid, `SdJoin`,
      followed by the caller's continuation `ret`);
    - `init_compress_writer` (`InitCompressWriter`, then `Spin`). Its start
      (`StartPigz`, `StartPipeline`) can fail, with the outcome chosen from
      `StartOutcomes`: a missing pigz binary (`file_exists`) or a failed `pipe` or
      `fork` returns an error, and a failed
      `pthread_create` goes to the shutdown first. `ResetGlobalVariable` clears the
      shared flags;
    - `compress_writer_close` (`CloseCheck`, `CloseFlush`), and the abort callback's
      second close (`AbortClose`), which runs the shutdown again;
  - the stdin pipe, bounded by `StdinCap` chunks;
  - pigz, which emits one gzip member: `H`, one `<<"D", rows>>` block per chunk read,
    then `T` at stdin EOF. It blocks while the stdout pipe (`StdoutCap` tokens) is
    full. `PigzFail` is pigz exiting with an error: a later pipe write returns an
    error (`PipeWrite`), and `SdWait` raises ERROR at the `waitpid` checks, before
    the join;
  - the uploader thread `oss_write_main`. `UploaderStart` covers the mallocs and
    `oss_writer_init`. `UploaderRead` appends when its `flush_block` buffer would
    overflow. `UploaderEof` is the final flush, which sets `oss_writer_exit_witherr`.

  The uploader's appends go through `ObjectStore!OssAppendAsync`: a failed HEAD
  returns false, and a failed POST is accepted because of the `||` at
  `ossapi.c:550`. The uploader reads one token per `read()`. That is one of the
  behaviours of a pipe read, which returns whatever is available.
- **FilePlanner**: every segment's `list_oss_file`.
  - State: `src`, the URL's file option (`"dir"` or `"path"`), chosen in `Init`.
    Per segment: `lpc` (`"list"`, `"shard"`, then the reader's states, or
    `"failed"`), `marker`, `trunc` (the local `truncated`), `retries`, `fileindex`,
    `listed` (the entries returned to `list_oss_file`, with lengths) and `files`
    (`myData->filelist`).
  - `ListObjects` is one trip round the paging loop, with the LIST outcome chosen from
    `ListStatuses`: a page, 404, a retryable error (the `continue` that tests the
    previous page's `truncated`) or ERROR. `NextMarker` moves the marker to the
    page's last key. `ProbeFile` is one HEAD of `list_ossfiles_usesegid`, probing
    `path`, `path.1`, and so on until a 404. `ShardFiles` is the `count % numsegments`
    foreach, with a HEAD outcome for each kept object whose length is still 0
    (`HeadLength`: the length, or -1 on 404). A HEAD that still fails after the
    retries of `oss_get_file_metainfo` raises ERROR (`HeadRaises`).
  - With the `/` delimiter of a directory URL, a sub-directory comes back as one
    common prefix (`PrefixKeys`). It takes a place in a page but is not in
    `object_list` (`InObjectList`, `ObjectList`). After a truncated page the marker is
    `filename`, the last key of the page's `object_list` (`NextMarker`). A page with
    no `object_list` keeps the old marker. On the first page `filename` is still
    NULL, and the backend crashes in `strlen` (`MarkerIsNull`, modelled as
    `"failed"`). The prefix option runs the same loop without the delimiter, so it
    has no common prefixes.
  - Keys are `1..K` in listing order. The server side (`Page`, `MoreAfter`) returns
    the next `PageSize` keys after the marker. `ListBound` stops a listing at
    `NumKeys` entries. Paging that moves forward never reaches that bound. It keeps
    the state space finite when the marker does not move.
- **ShardPlan**: the abstract planner. The URL names a source, fixed for the query,
  and each segment once decides its plan: the
  objects at listing positions `i` with `(i - 1) % NumSegments = s`, each with its
  HEAD length. Or the query fails. FilePlanner refines it through `Abstract`. The
  source's listing is the bucket's keys without directories, or every probed name
  for a path. A segment's plan is its `files` once it has left the planner states.
- **OssOptions**: `parse_oss_protocol` and its string helpers. A location is a
  sequence of atoms: a delimiter (`" "`, `"\n"`, `"\r"` and `"\t"` play the same
  part in `find_delimiter` and `oss_isblank`), the text `<key>=` of a recognised key,
  a number, or other text with neither a delimiter nor `=`. No key is a proper
  suffix of another, so `strstr` over the characters finds exactly the first
  `<key>=` atom, which `GetOptOss` looks for with `SelectInSubSeq`. A `char *` result
  is a set: `{}` for NULL. The variables are the host and option list the user wrote
  (`host`, `opts`), the direction (`isExport`), and the outcome (`parsed`, `oss`). The
  location `url` is built from them, and the parser sees only `url`. `Parse` is the
  first `oss_import` or `oss_export` call. Every check of `parse_oss_protocol` raises
  ERROR before any state is kept or any request is sent, and no check reads what an
  earlier one wrote, so `ParseOssProtocol` is the conjunction of `ImportOk`,
  `ExportOk` and `RequestOptions`, with the fields filled in as the code does:
  - a dir moves to the prefix on export;
  - gzip export forces `async`;
  - `speed_time` reads the key `oss_speed_limit` (spec: "sic");
  - `connect_timeout` stays 0 when absent, from the `memset`.
  `FlushProductMiB` models the overflow of `atoi(..) * WRITE_UNIT_SIZE` as a choice
  between the two builds: one that wraps (`-fwrapv`), and one that folds the test to
  `1 <= tmp <= 128`. `SpecValid` and `SpecConfig` restate section 6.1 and
  `ExportTuning` over `opts`; where the spec names no default, they use the header's.
  `SpecConfig` takes `speed_time` from `oss_speed_time`, as section 9 of the spec
  asks ("do not preserve the defect").
- **SyncImport** extends FilePlanner with the synchronous readers that `oss_import`
  calls after planning.
  - `Open` is the first call: `oss_next_file` and the reader's creation.
    `ReadPlain` is a call of `SourceRead`, and `ReadGzip` a call of
    `z_decompress_read`. `LastCall` is `free_data` on the last call, possibly before
    end of data.
  - A call that reaches `oss_read_buffer` (`Fetched`: the reader's offset moved)
    has its GET outcome chosen from `GetStatuses`. Every failure of the synchronous
    `oss_read_buffer` raises ERROR (`ReadBufferRaises`, `Raised`), and the segment
    ends in `"error"`. This covers a GET that still fails after `OSS_RETRY_COUNT`
    retries, and an empty or over-long body. A retried GET that succeeds reads the
    same range. `SourceRead_internal`'s own `nread < 0` test can never fire on a
    `size_t`.
  - The reading itself is ObjectReader's. `SourceReadInternal` is the `goto retry`
    loop of `SourceRead_internal`, as a RECURSIVE operator. `ZDecompressInternal`,
    `ZDecompress`, `ZFill` (the `retry_next` loop across objects) and `Inflate`
    model the decoder.
  - An object is `Comp[k]`, a sequence of compressed units, each naming how many
    output units `inflate` makes from it (0 for header and trailer bytes).
    `InflateStep` is `inflate(Z_NO_FLUSH)` on such input: it writes pending output
    while there is room and decodes more input only when nothing is pending.
  - `got` records every byte a segment's calls have returned: `<<k, i>>` is byte `i`
    of object `k`, or decompressed unit `i` for gzip.
- `MC_*` modules give the constants for TLC.

## Runs

| Run | Expect | What it shows |
|---|---|---|
| `async_reader` | pass | Plain and gzip tables, chosen in `Init`. `NoByteLostOrReordered`: the engine receives bytes (decompressed, for gzip) in order and the ring's unread span is exactly the fetched-but-unread bytes, across all interleavings, wraparound, the one-slot gap and regrowth. `ErrorNeverMasked`: a fetch error, in either branch, is never returned as end of data. `ImportTerminates`: the import always ends with the thread joined. |
| `async_reader_eof` | violation | `EofMeansAllDelivered` fails. The end-of-data test at `oss_ext.c:598` combines a fresh `eof` with a stale `end`. If the fetch thread delivers the last bytes and sets `eof` between the engine's read of `end` and its test, the engine returns 0 while bytes are still in the ring. |
| `plain_writer` | pass | `ObjectSizeBound`: objects stay within `file_max_size`. `ObjectsNeverShared`: no object holds rows of two writers, or of a writer and a pre-existing object. `ExportComplete`: a segment that closes normally has exported all its rows in order, when every append succeeds. |
| `compress_writer` | pass | Two queries, chosen in `Init`: seven small rows, or an oversize row after a rollover, which takes the ERROR path and the abort callback's second close. `EarlierObjectsComplete`: once the engine has moved to the next object, the previous one is a complete gzip member. `ExportComplete`: after a normal close, the objects decompress to every row in order. `NoThreadOutlivesExport`: once the export has ended, the uploader has exited and pigz is not running, also after pigz fails or the pipeline cannot start. `ObjectRowsBound`: no object decompresses to more than `file_max_size` bytes of rows (the rollover test counts uncompressed bytes, so the compressed size of incompressible rows is not bounded). `ExportTerminates`: no actor waits forever, under weak fairness of each. The run lets pigz fail and the start fail. |
| `compress_lost_error` | violation | `ExportComplete` fails when a HEAD can fail. The uploader fails while the engine is in the shutdown, and `compress_writer.c:217` clears the flag after the join, so close returns normally and data is missing. |
| `compress_hang` | violation | `ExportTerminates` fails through either of the uploader's error exits. After an append error the uploader exits without closing the stdout read end (`compress_writer.c:620`). pigz fills the pipe and blocks, and the engine waits in `waitpid` forever; this is the trace TLC prints. When a malloc of the uploader fails (`compress_writer.c:556`), `oss_writer_init` is never set, and the engine spins at line 112 forever; with `HeadStatuses = {"ok"}` that is the trace. |
| `sync_import` | pass | `PlanRefinesShardPlan`: the paged listing and sharding of both segments implement ShardPlan. `ImportComplete`: when a call returns 0, the segment has returned every byte of every object in its file list, in order and decompressed for gzip. `ImportTerminates`: every segment's planning ends and its reader is closed, or it raised ERROR. All three hold for directory and path URLs, in both modes and with 1- and 2-unit calls, with every LIST succeeding and any HEAD or GET able to raise ERROR. |
| `options` | violation | `OptionsAsSpecified`: `parse_oss_protocol` accepts a table exactly when section 6.1 and `ExportTuning` call its options valid, and then gives each option the value written: NULL options, defaults, the dir-to-prefix move, the compressor options and `speed_time` included. It fails on three kinds of input, each shown by TLC on its own. (1) Key text inside a value: `get_opt_oss` runs `strstr` over the whole option string (`oss_ext.c:932`), so `dir=a/id=b/` written before `id=a` gives ossid `b/`. This is the trace TLC prints. (2) `oss_flush_block_size=4097`: the product `tmp * WRITE_UNIT_SIZE` wraps to 1 MiB in a `-fwrapv` build and passes the bounds test (`oss_ext.c:1208`). (3) `oss_speed_limit=5` sets `speed_time` to 5, and `oss_speed_time=7` is ignored (`oss_ext.c:1297`). |
| `sync_list_retry` | violation | `PlanRefinesShardPlan` fails when a LIST can fail with a retryable error. The `continue` at `ossapi.c:342` jumps to `while (truncated == 1)`, which on the first page is still 0, so the segment gets an empty list and its share is never imported. |
| `sync_early_eof` | violation | `ImportComplete` fails when a read returns 0 with objects still unread, by either of two paths (TLC reports the shorter, the first). (1) In plain mode, with HEAD able to return 404: an object deleted after the LIST gets length -1 (`oss_ext.c:274`), and `SourceRead_internal` returns 0 for it (`ossapi.c:720-722`); no error is raised. (2) In gzip mode: an object whose last input chunk holds only the trailer inflates that chunk to nothing, and `z_decompress_internal` returns 0 (`decompress_reader.c:123`). With `Modes = {"gzip"}` and `HeadStatuses = {"ok"}` the cfg reaches path (2) alone. |
| `sync_prefixes` | violation | `ImportTerminates` fails. Keys 4 and 5 are common prefixes, so the third page holds no `object_list`. The marker (`ossapi.c:374`) stays at key 3, and `list_ossfiles_ondir` asks for the same page forever. |
| `plain_writer_lost_append` | violation | `ExportComplete` fails when an append can fail. `ossapi.c:550` tests `s != NULL \|\| ok`, so every failed append counts as success: it is never retried or reported, and its rows are lost. |

Each property of a passing run has a mutant in `PROJECT.json`. A mutant is a
plausible bug in a mapped definition, and TLC finds the property violated when the
mutant replaces that definition:
- a free-span test without the gap;
- a copy that does not wrap `begin`;
- a failed fetch that sets `eof`;
- a full ring that keeps polling after close;
- a missing row-size check;
- a rollover test that ignores the buffered bytes;
- object names without the segment index for the first object;
- a close without the final flush;
- a compress buffer test that ignores the incoming row;
- a compress rollover test that ignores the incoming row;
- a shutdown that does not wait for the uploader;
- a close that drops the buffer;
- a shutdown that leaves stdin open;
- an abort close that does not shut the pipeline down;
- a listing that keeps directory entries;
- a marker that does not move after a truncated page;
- a shard test that counts from 1;
- a decoder that does not restart `outOffset` after a new output buffer (it breaks
  both `ImportComplete` of the synchronous reader and `NoByteLostOrReordered` of the
  async one);
- a failed GET that returns 0 to `oss_import` instead of raising ERROR;

## Bounds

**AsyncReader** runs with:
- `READ_UNIT_SIZE` = 2 and a ring of 8 slots, growing to 12 on a 3-byte request;
- object lengths `<<4, 0, 3, 3>>`, including one empty object, for 10 bytes in all;
- as gzip objects, units `<<1,2,1,0>>`, `<<>>`, `<<0,2,1>>`, `<<1,1,1>>` in chunks
  of 2, which inflate to the same 10 bytes: the first chunk makes more than the
  output buffer holds, so output stays pending into the next chunk, and every chunk
  yields output (a chunk that yields nothing is the trailer finding of SyncImport,
  which the async branch shares at `oss_ext.c:443`);
- requests of 1, 2 or 3 bytes.

The stream is longer than the ring, so the fetch thread wraps and meets the gap, and
the engine's copy wraps. The growth happens with both layouts of the ring. The
mutants above fail only with a stream this long. A shorter one (7 bytes) let the
gap mutant pass.

**PlainWriter** runs with five segments, `flush_block` 2, `file_max_size` 3, and
objects `.6` and `.7` existing beforehand. Between them the segments:
- flush before a row;
- roll over at close;
- have the closing rollover refused, so the abort callback flushes into the next name;
- have a rollover before a row refused;
- write an oversize row;
- close with nothing buffered.

Every action and every disjunct fires.

**CompressWriter** runs with:
- seven one-unit rows, `pipe_block_size` 2 and `file_max_size` 3, giving two
  rollovers and mid-object buffer flushes;
- an uploader buffer of 2 tokens, so each object is appended in several pieces;
- pipes of 2 chunks and 3 tokens.

A second row table, `<<1, 1, 1, 1, 1, 3>>`, has an oversize sixth row after one
rollover. The main run chooses either table in `Init`; the violation runs use only
the first. `PigzMayFail` and `StartMayFail` are TRUE only in the main run, so the
violation runs show their hang without the fault paths.

The hang run uses a 1-token stdout pipe and `file_max_size` 6. The pigz output
that follows an upload failure must exceed the pipe's capacity, and in the real
system that is any output beyond 64 KiB.

**SyncImport** runs with two segments and six keys. A directory URL lists them two per
page, so each segment pages three times and meets the marker. A path URL probes all
six names and a seventh, missing one. Key 3 is a directory entry. Key 4 is a common
prefix, so the second page's marker is key 3 and the third page lists key 4 again. Keys 3 and 6
are empty objects. `RetryCount` is 1. In the main run any GET may fail. The decoder's chunk is 2 units,
and calls ask for 1 or 2 units. The objects' units are `<<0,1,2,0>>`, `<<0,3,1,0>>`,
`<<0,1,1,0>>` and `<<0,2>>`: headers and trailers that inflate to nothing, a unit
that inflates to more than the output buffer holds (so output stays pending across
calls), and an object that ends inside a chunk. In the main run every chunk also
yields output, which is what `ImportComplete` needs. The `sync_early_eof` run changes the
first object to `<<0, 2, 0>>`, whose second chunk is the trailer alone.

**OssOptions** runs with host `h`. Each location has a core, followed by two further
options. The core is:
- credentials, complete or missing `bucket` or `id`;
- none, one or two of `filepath`, `dir` (with or without its `/`) and `prefix`;
- no compression type, `gzip`, `text` or another word.

Each further option is absent, one of 30 edge values, or one of the two divergent
values below:
- `async` false or not a boolean;
- `mode` append or not;
- the flush block at 1, 8, 9, 128 and 129, and one that is not a number;
- the object budget at 7, 8, 4000 and 4001;
- threads, pipe block and level one below, at, and one above their bounds, and one
  thread count that is not a number;
- request options that are and are not numbers.

Two of them together reach the interplays: the default flush block against a small
budget, a flush of 9 against a budget of 8, gzip options on a plain table, and `mode`
on an import. Beside these come the inputs on which the code departs from the spec:
`oss_speed_time=7` and `oss_flush_block_size=4097` as further options, and one list with `dir=a/id=b/` ahead of the credentials.
That is 91,477 locations, each read and written. Without the divergent inputs, and with
`speed_time` left out of the comparison, every location
satisfies `OptionsAsSpecified`: the run took about 30 seconds before the divergent
inputs were added. With them, TLC stops at the first violation, so the module has no
passing run; its `Parse` action has one disjunct and fires in the failing run.

## Fairness

AsyncReader assumes weak fairness for:
- the fetch thread;
- the engine's steps inside `AsyncSourceRead` and the join;
- the engine's next call or close.

Both are OS threads that spin with `pg_usleep` and never block forever on anything
but the join. The engine keeps calling the protocol until it gets 0, or the query
ends and the last call closes. CompressWriter assumes weak fairness for each of its
three actors: the engine thread, the pigz process and the uploader thread. Each is
an independent OS thread or process whose only waits are the blocking `read`,
`write`, `waitpid` and `pthread_join` the model has as guards, and the spin on
`oss_writer_init`. The fairness is on pigz's normal steps only: pigz failing is a
fault that may or may not happen, and no fairness forces it. PlainWriter checks only safety, so it assumes no fairness. SyncImport assumes weak
fairness for each segment's planner steps, its first call and its last call. A
segment's `list_oss_file` runs on its own process without waiting on anyone, and the
database always makes the first and the last call of a query. The reads in between
have no fairness, because a query may stop reading early.

## Not modelled, and the plan

Next:
1. A bucket that changes between LIST pages, or between two segments' listings.

Out of scope:
- `is_oss_protocol`: it compares the protocol with `oss`, which every location the
  database hands this handler has. `boolin` and `int4in` are PostgreSQL's, and are
  modelled by what they accept. The sizes the parser accepts enter the writer
  models as constants; the composition of the two is not modelled.
- The HTTP layer and SDK (`lib/oss_object.c`): only a call's outcome matters. The
  GET retry of `oss_read_buffer` (`ossapi.c:229`) hands the same `ossbuffers` to every
  attempt. What is left in it after a failed attempt is decided by the SDK's list
  move (`lib/oss_object.c:114` calls into the SDK), whose code is not in this
  repository. A GET is therefore one step that returns the object's bytes.
- CompressWriter's stderr pipe. It carries only pigz's message into the ERROR text,
  and the parent closes its write end, so the read cannot block. The NULL test
  after `init_compress_writer`'s `palloc` is dead code, because `palloc` raises
  ERROR itself.
- `oss_validate_urls`, which runs at table creation: it logs each URL and refuses a
  readable table with more than one URL (its comment says two). It keeps no state.
- Logging, timing and the Windows branches.
