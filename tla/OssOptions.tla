----------------------------- MODULE OssOptions -----------------------------
(* The location string of an oss external table and parse_oss_protocol,   *)
(* which turns it into the ext_oss_t options of the table (oss_ext.c).     *)
(*                                                                         *)
(* A location is a sequence of atoms rather than of characters.  An atom   *)
(* is a delimiter (one of " ", "\n", "\r", "\t": find_delimiter and        *)
(* oss_isblank treat them alike), the text "<key>=" of a recognised        *)
(* option key, a number, or a piece of text holding neither a delimiter    *)
(* nor '='.  No key is a proper suffix of another key, so strstr(options,  *)
(* "<key>=") over the characters finds exactly the first "<key>=" atom.    *)
(*                                                                         *)
(* The user writes a host and a list of options; the location is those     *)
(* joined with delimiters behind "oss://".  The parser sees only the       *)
(* location.                                                               *)
EXTENDS Integers, Sequences, SequencesExt

CONSTANTS
  Hosts,        \* the hosts a location may name, as atom sequences
  OptionLists   \* the option lists a location may carry: sequences of
                \* [key |-> <option key>, val |-> <atom sequence>]

VARIABLES
  host,      \* what the user wrote between "oss://" and the first delimiter
  opts,      \* the options the user wrote, in order
  isExport,  \* parse_oss_protocol's is_export: writable or readable table
  parsed,    \* parse_oss_protocol has run
  oss        \* its outcome: [ok |-> FALSE] fields absent, or the options

vars == <<host, opts, isExport, parsed, oss>>

-----------------------------------------------------------------------------
(* Atoms.                                                                   *)

Txt(s) == [kind |-> "txt", name |-> s, num |-> 0]
Num(n) == [kind |-> "num", name |-> "", num |-> n]
KeyEq(k) == [kind |-> "key", name |-> k, num |-> 0]
Blank == [kind |-> "blank", name |-> "", num |-> 0]

Atom == [kind : {"txt", "num", "key", "blank"}, name : STRING, num : Int]

IsBlank(a) == a.kind = "blank"

(* The location: "oss://" host, then " <key>=<value>" for each option.      *)
Location(h, os) ==
  <<Txt("oss://")>> \o h \o
    FlattenSeq([i \in 1 .. Len(os) |-> <<Blank, KeyEq(os[i].key)>> \o os[i].val])

url == Location(host, opts)

-----------------------------------------------------------------------------
(* The string helpers of oss_ext.c.  A char * result is a set: {} is NULL, *)
(* {s} the string s.                                                        *)

(* find_delimiter: the first delimiter at or after position from, 0 if     *)
(* there is none.                                                           *)
FindDelimiter(u, from) == SelectInSubSeq(u, from, Len(u), IsBlank)

(* truncate_options: the location up to its first delimiter.              *)
TruncateOptions(u) ==
  LET d == FindDelimiter(u, 1) IN IF d = 0 THEN u ELSE SubSeq(u, 1, d - 1)

(* get_opt_oss: strstr for "<key>=" from the first delimiter on, blanks    *)
(* after it skipped, the value up to the next delimiter.                   *)
GetOptOss(u, k) ==
  LET options == FindDelimiter(u, 1)
      keyF    == IF options = 0 THEN 0
                 ELSE SelectInSubSeq(u, options, Len(u), LAMBDA a : a = KeyEq(k))
      valF    == IF keyF = 0 \/ keyF = Len(u) THEN 0
                 ELSE SelectInSubSeq(u, keyF + 1, Len(u), LAMBDA a : ~IsBlank(a))
      tail    == IF valF = 0 THEN 0 ELSE FindDelimiter(u, valF)
  IN IF valF = 0 THEN {}
     ELSE {SubSeq(u, valF, IF tail = 0 THEN Len(u) ELSE tail - 1)}

(* The one string a present option holds.                                  *)
Val(o) == CHOOSE v \in o : TRUE

(* atoi: the leading number, 0 if the text does not start with one.        *)
Atoi(v) == IF v # <<>> /\ v[1].kind = "num" THEN v[1].num ELSE 0

(* int4in accepts a string that is one number and raises otherwise.         *)
Int4Ok(v) == Len(v) = 1 /\ v[1].kind = "num"

(* boolin: the words for true and false, and 1 and 0; anything else raises. *)
TrueWords == {"true", "yes", "on"}
FalseWords == {"false", "no", "off"}
BoolOk(v) ==
  /\ Len(v) = 1
  /\ \/ v[1].kind = "txt" /\ v[1].name \in TrueWords \cup FalseWords
     \/ v[1].kind = "num" /\ v[1].num \in {0, 1}
BoolIn(v) == v[1].name \in TrueWords \/ (v[1].kind = "num" /\ v[1].num = 1)

-----------------------------------------------------------------------------
(* Sizes, in MiB (WRITE_UNIT_SIZE) for the flush block and object budget.  *)

FlushDefault == 10
FlushMin == 1
FlushMax == 128
FileMaxDefault == 1024
FileMaxMin == 8
FileMaxMax == 4000
NThreadDefault == 3
NThreadMin == 1
NThreadMax == 8
PipeDefault == 32 * 1024
PipeMin == 8 * 1024
PipeMax == 8 * 1024 * 1024
LevelDefault == 6
LevelMin == 1
LevelMax == 9
SpeedLimitDefault == 1024
SpeedTimeDefault == 15
DnsDefault == 60

(* `int tmp = atoi(..); tmp * WRITE_UNIT_SIZE` multiplies two ints.  Past  *)
(* 2047 MiB that overflows, which is undefined: built with -fwrapv (as      *)
(* PGXS builds) it wraps modulo 2^32, and a compiler that assumes no       *)
(* overflow compares tmp itself against 1 and 128.  In MiB the wrapped      *)
(* product is tmp modulo 4096 taken as a signed 12-bit number.             *)
IntOverflow == {"wrap", "fold"}
FlushProductMiB(tmp, ub) ==
  IF ub = "fold" THEN tmp
  ELSE LET m == tmp % 4096 IN IF m >= 2048 THEN m - 4096 ELSE m

-----------------------------------------------------------------------------
(* parse_oss_protocol(rel, url, is_export).  Every check ends in           *)
(* ereport(ERROR) before any ext_oss_t is handed back and before any       *)
(* network call, and none has a side effect the next one reads, so the     *)
(* outcome is the conjunction of the checks; ub is the build's reading of  *)
(* the flush-block multiplication.  The "://" and "missing path" checks    *)
(* pass for every location the database hands an oss:// table, the         *)
(* osshost == NULL test never fails (osshost is a pstrdup), and the         *)
(* empty-osspath/ossprefix tests never fail (a found value is never empty). *)
Rejected == [ok |-> FALSE]

(* A present ossdir must end with '/'.                                      *)
DirEndsInSlash(dir) == dir = {} \/ Last(Val(dir)) = Txt("/")

(* The checks made for both directions: credentials, compression type,     *)
(* async, one file option, bucket, and the ossdir's trailing '/'.          *)
ImportOk(u) ==
  LET O(k) == GetOptOss(u, k)
  IN /\ O("id") # {} /\ O("key") # {}
     /\ O("compressiontype") \subseteq {<<Txt("gzip")>>, <<Txt("text")>>}
     /\ O("async") = {} \/ BoolOk(Val(O("async")))
     /\ Cardinality({k \in {"filepath", "prefix", "dir"} : O(k) # {}}) = 1
     /\ O("bucket") # {}
     /\ DirEndsInSlash(O("dir"))

Gzip(u) == GetOptOss(u, "compressiontype") = {<<Txt("gzip")>>}

(* oss_flush_block_size: atoi, the int product with WRITE_UNIT_SIZE        *)
(* checked against 1 and 128 MiB, the default 10 MiB.                       *)
FlushBlock(u, ub) ==
  LET fb == GetOptOss(u, "oss_flush_block_size")
      t  == FlushProductMiB(Atoi(Val(fb)), ub)
  IN IF fb = {} THEN [ok |-> TRUE, n |-> FlushDefault]
     ELSE [ok |-> FlushMin <= t /\ t <= FlushMax, n |-> t]

(* oss_file_max_size: atoi into a uint64, checked against 8 and 4000 MiB,  *)
(* the default 1024 MiB.                                                    *)
FileMaxSize(u) ==
  LET fms == GetOptOss(u, "oss_file_max_size")
      t   == Atoi(Val(fms))
  IN IF fms = {} THEN [ok |-> TRUE, n |-> FileMaxDefault]
     ELSE [ok |-> FileMaxMin <= t /\ t <= FileMaxMax, n |-> t]

(* A compressor option read with int4in and checked against its bounds.   *)
Tuned(o, dflt, lo, hi) ==
  IF o = {} THEN [ok |-> TRUE, n |-> dflt]
  ELSE [ok |-> Int4Ok(Val(o)) /\ lo <= Val(o)[1].num /\ Val(o)[1].num <= hi,
        n |-> Val(o)[1].num]

GzipOptions(u) ==
  [nthread |-> Tuned(GetOptOss(u, "num_parallel_worker"), NThreadDefault, NThreadMin, NThreadMax),
   pipe_block_size |-> Tuned(GetOptOss(u, "pipe_block_size"), PipeDefault, PipeMin, PipeMax),
   compression_level |-> Tuned(GetOptOss(u, "compressionlevel"), LevelDefault, LevelMin, LevelMax)]

(* The checks of a writable table.                                          *)
ExportOk(u, ub) ==
  LET O(k) == GetOptOss(u, k)
  IN /\ O("mode") \subseteq {<<Txt("append")>>}
     /\ O("dir") # {} \/ O("prefix") # {}
     /\ FlushBlock(u, ub).ok /\ FileMaxSize(u).ok
     /\ FlushBlock(u, ub).n <= FileMaxSize(u).n
     /\ Gzip(u) => \A f \in DOMAIN GzipOptions(u) : GzipOptions(u)[f].ok

(* The request options, read with int4in; speed_time reads the key         *)
(* "oss_speed_limit" as well, and connect_timeout keeps the 0 of the       *)
(* memset when the option is absent.                                        *)
RequestOpt(o, dflt) ==
  IF o = {} THEN [ok |-> TRUE, n |-> dflt] ELSE [ok |-> Int4Ok(Val(o)), n |-> Atoi(Val(o))]

RequestOptions(u) ==
  [speed_limit |-> RequestOpt(GetOptOss(u, "oss_speed_limit"), SpeedLimitDefault),
   speed_time |-> RequestOpt(GetOptOss(u, "oss_speed_limit"), SpeedTimeDefault),
   dns_cache_timeout |-> RequestOpt(GetOptOss(u, "oss_dns_cache_timeout"), DnsDefault),
   connect_timeout |-> RequestOpt(GetOptOss(u, "oss_connect_timeout"), 0)]

ParseOssProtocol(u, exp, ub) ==
  LET O(k) == GetOptOss(u, k)
      gzip == Gzip(u)
      gz   == GzipOptions(u)
      ro   == RequestOptions(u)
  IN IF /\ ImportOk(u)
        /\ exp => ExportOk(u, ub)
        /\ \A f \in DOMAIN ro : ro[f].ok
     THEN [ok |-> TRUE,
           osshost |-> Tail(TruncateOptions(u)),
           ossid |-> O("id"), osskey |-> O("key"), bucket |-> O("bucket"),
           osspath |-> O("filepath"),
           ossprefix |-> IF exp /\ O("dir") # {} THEN O("dir") ELSE O("prefix"),
           ossdir |-> IF exp THEN {} ELSE O("dir"),
           type |-> IF gzip THEN "gzip" ELSE "none",
           async |-> (exp /\ gzip) \/ O("async") = {} \/ BoolIn(Val(O("async"))),
           flush_block |-> IF exp THEN FlushBlock(u, ub).n ELSE 0,
           file_max_size |-> IF exp THEN FileMaxSize(u).n ELSE 0,
           nthread |-> IF exp /\ gzip THEN gz.nthread.n ELSE 0,
           pipe_block_size |-> IF exp /\ gzip THEN gz.pipe_block_size.n ELSE 0,
           compression_level |-> IF exp /\ gzip THEN gz.compression_level.n ELSE 0,
           speed_limit |-> ro.speed_limit.n, speed_time |-> ro.speed_time.n,
           dns_cache_timeout |-> ro.dns_cache_timeout.n,
           connect_timeout |-> ro.connect_timeout.n]
     ELSE Rejected

-----------------------------------------------------------------------------
(* The first oss_import or oss_export call of a query parses the location  *)
(* of its table; a parse error aborts the statement, so there is no second *)
(* step.                                                                    *)

Init ==
  /\ host \in Hosts
  /\ opts \in OptionLists
  /\ isExport \in BOOLEAN
  /\ parsed = FALSE
  /\ oss = Rejected

Parse ==
  /\ ~parsed
  /\ parsed' = TRUE
  /\ \E ub \in IntOverflow : oss' = ParseOssProtocol(url, isExport, ub)
  /\ UNCHANGED <<host, opts, isExport>>

Next == Parse

Spec == Init /\ [][Next]_vars

-----------------------------------------------------------------------------
(* The options as section 6.1 and ExportTuning of the specification give   *)
(* them, read from the option list the user wrote rather than from the     *)
(* location string.  Where the specification names no default, the         *)
(* defaults are ossapi.h's and compress_writer.h's.                         *)

SpecOpt(os, k) ==
  LET I == {i \in 1 .. Len(os) : os[i].key = k}
  IN IF I = {} THEN {} ELSE {os[Min(I)].val}

(* A number option holds one number.                                        *)
SpecNum(o, dflt) == IF o = {} THEN dflt ELSE Val(o)[1].num
SpecNumOk(o, lo, hi) ==
  o = {} \/ (Int4Ok(Val(o)) /\ lo <= Val(o)[1].num /\ Val(o)[1].num <= hi)

SpecValid(h, os, exp) ==
  LET O(k) == SpecOpt(os, k)
      gzip == O("compressiontype") = {<<Txt("gzip")>>}
  IN /\ h # <<>>
     /\ O("id") # {} /\ O("key") # {} /\ O("bucket") # {}
     /\ Cardinality({k \in {"filepath", "dir", "prefix"} : O(k) # {}}) = 1
     /\ O("dir") = {} \/ Last(Val(O("dir"))) = Txt("/")
     /\ O("compressiontype") \subseteq {<<Txt("text")>>, <<Txt("gzip")>>}
     /\ O("async") \subseteq {<<Txt("true")>>, <<Txt("false")>>}
     /\ \A k \in {"oss_speed_limit", "oss_speed_time", "oss_dns_cache_timeout",
                 "oss_connect_timeout"} :
          O(k) = {} \/ Int4Ok(Val(O(k)))
     /\ exp =>
          /\ O("mode") \subseteq {<<Txt("append")>>}
          /\ O("dir") # {} \/ O("prefix") # {}
          /\ SpecNumOk(O("oss_flush_block_size"), FlushMin, FlushMax)
          /\ SpecNumOk(O("oss_file_max_size"), FileMaxMin, FileMaxMax)
          /\ SpecNum(O("oss_flush_block_size"), FlushDefault)
               <= SpecNum(O("oss_file_max_size"), FileMaxDefault)
          /\ gzip => /\ SpecNumOk(O("num_parallel_worker"), NThreadMin, NThreadMax)
                     /\ SpecNumOk(O("pipe_block_size"), PipeMin, PipeMax)
                     /\ SpecNumOk(O("compressionlevel"), LevelMin, LevelMax)

(* The fields of an accepted table that the specification pins down: on    *)
(* export a dir is normalized to prefix, async matters on import only, and  *)
(* the request options are compared where the user set them, except       *)
(* speed_time: section 9 asks for it to come from "oss_speed_time", with   *)
(* the default of ossapi.h when that option is absent.                     *)
SpecConfig(h, os, exp) ==
  LET O(k) == SpecOpt(os, k)
      gzip == O("compressiontype") = {<<Txt("gzip")>>}
      base == [osshost |-> h, ossid |-> O("id"), osskey |-> O("key"),
               bucket |-> O("bucket"), osspath |-> O("filepath"),
               ossprefix |-> IF exp THEN O("prefix") \cup O("dir") ELSE O("prefix"),
               ossdir |-> IF exp THEN {} ELSE O("dir"),
               type |-> IF gzip THEN "gzip" ELSE "none"]
      imp  == [async |-> O("async") # {<<Txt("false")>>}]
      exq  == [flush_block |-> SpecNum(O("oss_flush_block_size"), FlushDefault),
               file_max_size |-> SpecNum(O("oss_file_max_size"), FileMaxDefault)]
      gz   == [nthread |-> SpecNum(O("num_parallel_worker"), NThreadDefault),
               pipe_block_size |-> SpecNum(O("pipe_block_size"), PipeDefault),
               compression_level |-> SpecNum(O("compressionlevel"), LevelDefault)]
      req  == [k \in {f \in {"speed_limit", "dns_cache_timeout", "connect_timeout"} :
                        O("oss_" \o f) # {}} |-> SpecNum(O("oss_" \o k), 0)]
             @@ [speed_time |-> SpecNum(O("oss_speed_time"), SpeedTimeDefault)]
  IN base @@ req @@ (IF exp THEN exq @@ (IF gzip THEN gz ELSE <<>>) ELSE imp)

-----------------------------------------------------------------------------
(* parse_oss_protocol, with get_opt_oss and find_delimiter scanning the    *)
(* location string, accepts a table exactly when its options are valid by  *)
(* section 6.1 and ExportTuning, and then gives every option the value the *)
(* user wrote for it (a dir as the prefix on export).  The code departs    *)
(* from this in three ways: get_opt_oss finds "<key>=" inside another      *)
(* option's value, the flush block size is multiplied into an int before   *)
(* its bounds are checked, and speed_time is read from "oss_speed_limit".  *)
OptionsAsSpecified ==
  parsed =>
    /\ oss.ok = SpecValid(host, opts, isExport)
    /\ oss.ok => LET s == SpecConfig(host, opts, isExport)
                 IN \A f \in DOMAIN s : oss[f] = s[f]
=============================================================================
