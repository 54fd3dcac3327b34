---------------------------- MODULE MCAggregation ----------------------------
(* Two buckets, and the events of a run: an observation of the first bucket,   *)
(* an image-bearing one, one of the second bucket, gaps over both.             *)
EXTENDS Aggregation

CONSTANTS obs, image, shot, gap, startup

MCDue  == <<1, 2>>
MCKind == [e \in Events |-> CASE e = obs     -> "observation"
                             [] e \in {image, shot} -> "image"
                             [] e = gap     -> "runtime-gap"
                             [] e = startup -> "startup-gap"]
MCIn   == [e \in Events |-> IF e \in {obs, image} THEN {1}
                       ELSE IF e = shot THEN {2} ELSE {1, 2}]
=============================================================================
