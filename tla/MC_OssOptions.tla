---------------------------- MODULE MC_OssOptions ----------------------------
(* Locations built from a core (credentials, one or more file options, a   *)
(* compression type) and up to two further options, each at the edges of   *)
(* its check: sizes one below, at and one above their bounds, words that   *)
(* are not numbers or booleans, and a default flush block larger than a    *)
(* small object budget.  Text values are the atom "a", a directory is      *)
(* "a" "/".  Beside those, the inputs on which the parser departs from    *)
(* the specification: a speed_time option, a flush block size whose byte  *)
(* count overflows an int, and a dir whose value holds the text "id=",    *)
(* written before the id option.                                           *)
EXTENDS OssOptions

O(k, v) == [key |-> k, val |-> v]
A == <<Txt("a")>>
D == <<Txt("a"), Txt("/")>>
N(n) == <<Num(n)>>

MCHosts == {<<Txt("h")>>}

Creds == {<<O("id", A), O("key", A), O("bucket", A)>>,
          <<O("id", A), O("key", A)>>,
          <<O("key", A), O("bucket", A)>>}

FileOpts == {<<>>, <<O("filepath", A)>>, <<O("dir", D)>>, <<O("dir", A)>>,
             <<O("prefix", D)>>, <<O("dir", D), O("prefix", D)>>,
             <<O("filepath", A), O("prefix", A)>>}

ComTypes == {<<>>, <<O("compressiontype", <<Txt("gzip")>>)>>,
             <<O("compressiontype", <<Txt("text")>>)>>,
             <<O("compressiontype", A)>>}

Extras ==
  {<<>>,
   <<O("async", <<Txt("false")>>)>>, <<O("async", A)>>,
   <<O("mode", <<Txt("append")>>)>>, <<O("mode", A)>>,
   <<O("oss_flush_block_size", A)>>, <<O("oss_flush_block_size", N(1))>>,
   <<O("oss_flush_block_size", N(128))>>, <<O("oss_flush_block_size", N(129))>>,
   <<O("oss_flush_block_size", N(8))>>, <<O("oss_flush_block_size", N(9))>>,
   <<O("oss_file_max_size", N(7))>>, <<O("oss_file_max_size", N(8))>>,
   <<O("oss_file_max_size", N(4000))>>, <<O("oss_file_max_size", N(4001))>>,
   <<O("num_parallel_worker", N(0))>>, <<O("num_parallel_worker", N(8))>>,
   <<O("num_parallel_worker", N(9))>>, <<O("num_parallel_worker", A)>>,
   <<O("pipe_block_size", N(8191))>>, <<O("pipe_block_size", N(8192))>>,
   <<O("pipe_block_size", N(8388608))>>, <<O("pipe_block_size", N(8388609))>>,
   <<O("compressionlevel", N(0))>>, <<O("compressionlevel", N(1))>>,
   <<O("compressionlevel", N(9))>>, <<O("compressionlevel", N(10))>>,
   <<O("oss_speed_limit", N(5))>>, <<O("oss_speed_limit", A)>>,
   <<O("oss_dns_cache_timeout", N(7))>>, <<O("oss_connect_timeout", A)>>,
   <<O("oss_speed_time", N(7))>>, <<O("oss_flush_block_size", N(4097))>>}

(* dir=a/id=b/ ahead of the credentials.                                    *)
KeyInValue ==
  <<O("dir", <<Txt("a"), Txt("/"), KeyEq("id"), Txt("b"), Txt("/")>>),
    O("id", A), O("key", A), O("bucket", A)>>

MCOptionLists ==
  {c \o f \o t \o e1 \o e2 : c \in Creds, f \in FileOpts, t \in ComTypes,
                             e1 \in Extras, e2 \in Extras}
  \cup {KeyInValue}
=============================================================================
