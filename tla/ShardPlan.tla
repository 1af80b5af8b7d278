----------------------------- MODULE ShardPlan -----------------------------
(* What the file planner promises (spec section 4.5): every segment ends   *)
(* up with the objects at the positions i of the ordered listing with       *)
(* i mod seg_count = seg_index, each with its length, so that the segments *)
(* between them read every object once.  A segment may also fail, which     *)
(* ends the query with an ERROR.  The listing is that of the URL's source   *)
(* (a directory, a prefix or a path), fixed for the query.                  *)
EXTENDS Naturals, Sequences, FiniteSets

CONSTANTS
  NumSegments,   \* seg_count
  Sources,       \* the kinds of source a URL may name
  ListingOf(_),  \* the ordered list of objects a source names
  LengthOf       \* the length HEAD reports for each object

VARIABLES
  source,   \* the URL's source
  plan,     \* segment -> {} before it has planned, {its plan} after
  failed    \* a segment raised ERROR

Segments == 0 .. NumSegments - 1

Files == ListingOf(source)

\* The positions (from 1) of the objects a segment is assigned.
Assigned(s) == {i \in 1 .. Len(Files) : (i - 1) % NumSegments = s}

(* The segment's share of the listing, in listing order: its j-th object  *)
(* is at position s + (j - 1) * seg_count.                                  *)
Shard(s) ==
  [j \in 1 .. Cardinality(Assigned(s)) |->
     LET k == Files[s + 1 + (j - 1) * NumSegments] IN [key |-> k, len |-> LengthOf[k]]]

Init == source \in Sources /\ plan = [s \in Segments |-> {}] /\ failed = FALSE

Decide(s) ==
  /\ plan[s] = {}
  /\ plan' = [plan EXCEPT ![s] = {Shard(s)}]
  /\ UNCHANGED <<source, failed>>

Fail == failed' = TRUE /\ UNCHANGED <<source, plan>>

Next == \E s \in Segments : Decide(s) \/ Fail

Spec == Init /\ [][Next]_<<source, plan, failed>>
=============================================================================
