------------------------- MODULE MCTimelineSnapshots -------------------------
(* Two buckets: the first with an observation and a late gap, the second with an *)
(* observation; two artifacts. *)
EXTENDS TimelineSnapshots

MCBucketOf == <<1, 1, 2>>
MCCites == <<{1}, {1}>>
Everything == [from |-> 1, until |-> 3, events |-> {}]
GapsOfFirst == [from |-> 1, until |-> 2, events |-> Gaps]
First == [from |-> 1, until |-> 2, events |-> {}]
MCGrants == {[from |-> 1, until |-> 3], [seconds |-> 2]}
MCFilters == {Everything, GapsOfFirst, First}
MCMaxRecords == [event |-> 3, chunk |-> 3, artifact |-> 2]

(* The evolution under a reader is followed until it has its last page. *)
StillReading == reader # NoReader => reader.next # 0

(* No reader of artifacts reads chunks, or events that no artifact cites. *)
OneKind ==
  journal["artifact"] # <<>> => journal["chunk"] = <<>> /\ Len(journal["event"]) = 1

(* After a deletion the projection only grows until it is as high as a token saw it. *)
Regrown == generation > 1 => Len(journal["event"]) + Len(journal["chunk"]) <= 2
=============================================================================
