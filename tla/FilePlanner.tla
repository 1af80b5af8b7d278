---------------------------- MODULE FilePlanner ----------------------------
(* The import planner of every segment: list_oss_file (oss_ext.c) pages    *)
(* through the bucket with list_ossfiles_ondir (ossapi.c), or, for a path   *)
(* URL, probes path, path.1, ... with list_ossfiles_usesegid; then it keeps *)
(* entries at positions count % numsegments == segindex, and asks HEAD      *)
(* (oss_get_file_length) for the length of each.  Every segment runs this   *)
(* on its own, with its own LIST and HEAD calls.                            *)
(*                                                                          *)
(* Keys are 1..K in listing (lexicographic) order; DirKeys are the keys     *)
(* ending in '/'.  A LIST page holds the next PageSize keys after the        *)
(* marker; a common prefix takes a place in a page but comes back in the    *)
(* prefix list, not in object_list.  For a path URL key 1 is `path' and key i + 1 is `path.i'; no   *)
(* key after NumKeys exists.  The outcome of each call is chosen from a set  *)
(* of statuses.                                                              *)
EXTENDS Integers, Sequences, SequencesExt

CONSTANTS
  NumSegments,    \* numsegments
  ObjectLength,   \* key -> the object's size, as HEAD reports it
  DirKeys,        \* directory entries of the listing
  PrefixKeys, \* listing positions of subdirectories the '/' delimiter rolls up
  PageSize,       \* max-keys of one LIST page
  RetryCount,     \* OSS_RETRY_COUNT (30 in the code)
  ListStatuses,   \* outcomes of oss_list_object
  HeadStatuses,   \* outcomes of oss_get_file_metainfo after its retries
  Sources         \* the URL's file option: "dir" (ossdir) or "path" (osspath)

ASSUME /\ NumSegments \in Nat \ {0}
       /\ PageSize \in Nat \ {0}
       /\ ListStatuses \subseteq {"ok", "notfound", "transient", "fatal"}
       /\ HeadStatuses \subseteq {"ok", "notfound", "error"}
       /\ Sources \subseteq {"dir", "path"}

VARIABLES
  src,       \* which of ossdir and osspath the URL set
  lpc,       \* segment -> "list", "shard", then the reader's states, "failed"
             \* when planning raised ERROR, or "error" when a read did
  marker,    \* params_t->marker: the last key of the previous page, 0 if none
  trunc,     \* the local `truncated' of list_ossfiles_ondir
  retries,   \* retrycount
  fileindex, \* fileindex of list_ossfiles_usesegid: the next probe
  listed,    \* the files list returned to list_oss_file: keys and lengths
  files      \* myData->filelist: the segment's objects and their lengths

plannerVars == <<src, lpc, marker, trunc, retries, fileindex, listed, files>>

Segments == 0 .. NumSegments - 1

Keys == DOMAIN ObjectLength

NumKeys == Cardinality(Keys)

\* Mutant: directory entries are kept.
IsObjectKeepsDirs(k) == k \in Keys

\* filename[filenamestrlen - 1] == '/' skips a directory entry.
IsObject(k) == k \notin DirKeys

\* A key of object_list: a common prefix comes back in common_prefix_list.
InObjectList(k) == k \notin PrefixKeys

\* The listing without common prefixes and directory entries.
Files == SelectSeq([i \in 1 .. NumKeys |-> i], LAMBDA k : InObjectList(k) /\ IsObject(k))

\* What the segments shard: the listing, or every probed name of a path.
Listing(source) == IF source = "path" THEN [i \in 1 .. NumKeys |-> i] ELSE Files

\* A listed entry: its key and its length, 0 when it is not yet known.
Entry(k, len) == [key |-> k, len |-> len]

InitPlanner ==
  /\ src \in Sources
  /\ lpc = [s \in Segments |-> "list"]
  /\ marker = [s \in Segments |-> 0]
  /\ trunc = [s \in Segments |-> FALSE]
  /\ retries = [s \in Segments |-> 0]
  /\ fileindex = [s \in Segments |-> 0]
  /\ listed = [s \in Segments |-> <<>>]
  /\ files = [s \in Segments |-> <<>>]

\* The keys of the page after marker m, and whether the listing goes on.
Page(m) == [i \in 1 .. Min({PageSize, NumKeys - m}) |-> m + i]

MoreAfter(m) == m + PageSize < NumKeys

ObjectList(m) == SelectSeq(Page(m), InObjectList)

(* Bound: a listing in progress holds fewer entries than the bucket has    *)
(* keys.  Paging that moves forward never reaches it; a loop that asks for  *)
(* the same page again stops here instead of growing the list forever.      *)
ListBound == NumKeys

\* Mutant: the marker is left where it was.
NextMarkerStale(m) == m

(* After a truncated page the marker is `filename', the last key of its    *)
(* object_list, a directory entry too.  A page without one leaves filename *)
(* as the previous page set it, which is the marker itself.                 *)
NextMarker(m) == IF MoreAfter(m) /\ ObjectList(m) # <<>> THEN Last(ObjectList(m)) ELSE m

(* filename is still NULL when the first page is truncated and has no      *)
(* object_list; aos_str_set takes strlen(NULL) and the backend crashes.      *)
MarkerIsNull(m) == m = 0 /\ MoreAfter(m) /\ ObjectList(m) = <<>>

(* One trip round the do ... while (truncated == 1) loop.  A page's        *)
(* object_list is appended without its directory entries; when it was truncated, the       *)
(* marker becomes its last key.  404 returns an empty list whatever was     *)
(* listed before.  A retryable error `continue's to the loop test, which    *)
(* reads the truncated flag of the previous page: on the first page it is   *)
(* 0 and the loop ends with what was listed so far.  Other errors, or a     *)
(* retry past OSS_RETRY_COUNT, raise ERROR.                                 *)
ListObjects(s) ==
  /\ lpc[s] = "list" /\ src = "dir"
  /\ Len(listed[s]) < ListBound
  /\ \E st \in ListStatuses :
       CASE st = "ok" /\ ~MarkerIsNull(marker[s]) ->
              LET objs == SelectSeq(ObjectList(marker[s]), IsObject) IN
              /\ listed' = [listed EXCEPT ![s] =
                              @ \o [i \in 1 .. Len(objs) |-> Entry(objs[i], 0)]]
              /\ trunc' = [trunc EXCEPT ![s] = MoreAfter(marker[s])]
              /\ marker' = [marker EXCEPT ![s] = NextMarker(@)]
              /\ lpc' = [lpc EXCEPT ![s] = IF MoreAfter(marker[s]) THEN "list" ELSE "shard"]
              /\ UNCHANGED retries
         [] st = "ok" ->
              /\ lpc' = [lpc EXCEPT ![s] = "failed"]
              /\ UNCHANGED <<marker, trunc, retries, listed>>
         [] st = "notfound" ->
              /\ listed' = [listed EXCEPT ![s] = <<>>]
              /\ lpc' = [lpc EXCEPT ![s] = "shard"]
              /\ UNCHANGED <<marker, trunc, retries>>
         [] st = "transient" /\ retries[s] < RetryCount ->
              /\ retries' = [retries EXCEPT ![s] = @ + 1]
              /\ lpc' = [lpc EXCEPT ![s] = IF trunc[s] THEN "list" ELSE "shard"]
              /\ UNCHANGED <<marker, trunc, listed>>
         [] OTHER ->
              /\ lpc' = [lpc EXCEPT ![s] = "failed"]
              /\ UNCHANGED <<marker, trunc, retries, listed>>
  /\ UNCHANGED <<src, fileindex, files>>

(* oss_get_file_length: the Content-Length on success and -1 on 404 (a    *)
(* name that does not exist answers 404).  Any other error, once            *)
(* oss_get_file_metainfo's retries are used up, goes through                *)
(* oss_api_throw_exception, which raises ERROR for a synchronous call.      *)
HeadRaises(st) == st = "error"

HeadLength(k, st) == IF k \in Keys /\ st = "ok" THEN ObjectLength[k] ELSE -1

(* One probe of list_ossfiles_usesegid: HEAD the next name (path when      *)
(* fileindex is 0, path.fileindex after) and append it when its length is  *)
(* not negative.  A -1 ends the do ... while loop; path itself is probed    *)
(* before the loop, so its -1 does not.                                     *)
ProbeFile(s) ==
  /\ lpc[s] = "list" /\ src = "path"
  /\ LET k == fileindex[s] + 1 IN
     \E st \in HeadStatuses :
       IF HeadRaises(st)
         THEN /\ lpc' = [lpc EXCEPT ![s] = "failed"]
              /\ UNCHANGED <<listed, fileindex>>
         ELSE LET len == HeadLength(k, st) IN
              /\ listed' = [listed EXCEPT ![s] = IF len >= 0 THEN @ \o <<Entry(k, len)>> ELSE @]
              /\ fileindex' = [fileindex EXCEPT ![s] = @ + 1]
              /\ lpc' = [lpc EXCEPT ![s] = IF len < 0 /\ fileindex[s] > 0 THEN "shard" ELSE "list"]
  /\ UNCHANGED <<src, marker, trunc, retries, files>>

\* Mutant: the count starts from 1.
MineFromOne(s, i) == i % NumSegments = s

\* (count % myData->numsegments) == myData->segindex, count from 0.
Mine(s, i) == (i - 1) % NumSegments = s

(* The foreach of list_oss_file: keep the segment's entries, in order,     *)
(* asking HEAD for the length of each one whose length is still 0; a HEAD   *)
(* that raises ERROR ends the planning.                                     *)
ShardFiles(s) ==
  /\ lpc[s] = "shard"
  /\ LET own == SelectSeq([i \in 1 .. Len(listed[s]) |-> i], LAMBDA i : Mine(s, i))
     IN \E st \in [1 .. Len(own) -> HeadStatuses] :
          LET heads == {j \in 1 .. Len(own) : listed[s][own[j]].len = 0} IN
          IF \E j \in heads : HeadRaises(st[j])
            THEN /\ lpc' = [lpc EXCEPT ![s] = "failed"]
                 /\ UNCHANGED files
            ELSE /\ files' = [files EXCEPT ![s] =
                               [j \in 1 .. Len(own) |->
                                  LET e == listed[s][own[j]] IN
                                  Entry(e.key, IF j \in heads THEN HeadLength(e.key, st[j]) ELSE e.len)]]
                 /\ lpc' = [lpc EXCEPT ![s] = "open"]
  /\ UNCHANGED <<src, marker, trunc, retries, fileindex, listed>>

(* The refinement mapping: the source is the URL's file option, a          *)
(* segment's plan is its filelist once list_oss_file has returned, and a    *)
(* segment that raised ERROR, planning or reading, fails the query.         *)
Planned(s) == lpc[s] \notin {"list", "shard", "failed"}

Abstract == INSTANCE ShardPlan WITH
              ListingOf <- Listing,
              source <- src,
              plan <- [s \in Segments |-> IF Planned(s) THEN {files[s]} ELSE {}],
              failed <- \E s \in Segments : lpc[s] \in {"failed", "error"},
              LengthOf <- ObjectLength
=============================================================================
