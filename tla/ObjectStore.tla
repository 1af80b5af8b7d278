----------------------------- MODULE ObjectStore -----------------------------
(***************************************************************************)
(* The object-store calls of ossapi.c that change or probe a bucket, as    *)
(* operators over a bucket value: a function from the names of the        *)
(* objects that exist to their contents, a sequence of the chunks that     *)
(* were appended to them.  A chunk is whatever its writer appends (rows of *)
(* the plain writer, compressed blocks of the uploader).  Transport        *)
(* retries (OSS_RETRY_COUNT) are abstracted into the final outcome of a    *)
(* call.                                                                   *)
(***************************************************************************)
EXTENDS Naturals, Sequences, TLC

\* The outcomes oss_process_request can hand back: success, or a non-2xx
\* status (timeout, 5xx, 409 PositionNotEqualToLength, ...).  The SDK always
\* returns a status object, never NULL.
Statuses == {"ok", "error"}

(* is_ossfile_exist: HEAD, true on 2xx, false on 404.                      *)
IsOssFileExist(bucket, name) == name \in DOMAIN bucket

(* oss_append_file_from_buffer, position negotiation: with               *)
(* append_position 0 the position is x-oss-next-append-position of the    *)
(* HEAD, or 0 when the object does not exist.                            *)
AppendPosition(bucket, name) ==
  IF IsOssFileExist(bucket, name) THEN Len(bucket[name]) ELSE 0

(* The server side of POST ?append&position=p: it applies the data when   *)
(* p is the object's length (creating an Appendable object at 0) and      *)
(* rejects it otherwise; a failed call applies nothing.                   *)
ServerAppend(bucket, name, pos, data, status) ==
  IF status = "ok" /\ pos = AppendPosition(bucket, name)
    THEN IF IsOssFileExist(bucket, name)
           THEN [bucket EXCEPT ![name] = @ \o data]
           ELSE bucket @@ (name :> data)
    ELSE bucket

(* `if (s != NULL || aos_status_is_ok(s))`: the driver takes every status  *)
(* the SDK returns as success, so it neither retries nor reports a failed  *)
(* append.                                                                 *)
AppendAccepted(status) == status \in Statuses \/ status = "ok"

(* The whole of oss_append_file_from_buffer with append_position 0: HEAD, *)
(* then POST at the negotiated position.                                  *)
OssAppend(bucket, name, data, status) ==
  ServerAppend(bucket, name, AppendPosition(bucket, name), data, status)

(* The same call from the uploader thread (async): a failed HEAD (other   *)
(* than 404) writes the message and returns false without appending; the  *)
(* POST's outcome goes through the acceptance test above.                  *)
OssAppendAsync(bucket, name, data, head, post) ==
  IF head = "ok"
    THEN [bucket |-> OssAppend(bucket, name, data, post), ok |-> AppendAccepted(post)]
    ELSE [bucket |-> bucket, ok |-> FALSE]

=============================================================================
