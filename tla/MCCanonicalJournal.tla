------------------------- MODULE MCCanonicalJournal -------------------------
(* Instances of CanonicalJournal for TLC: three records, of which r1 and r2   *)
(* share a stable ID and r2 and r3 an image, each across two dates, while r1  *)
(* and r3 can follow each other in one shard.                                 *)
EXTENDS CanonicalJournal

CONSTANTS a, b, r1, r2, r3

MCRecords == {r1, r2, r3}
MCDates   == 1 .. 2
MCIds     == {"x", "y"}
MCIdOf    == [r \in MCRecords |-> IF r = r3 THEN "y" ELSE "x"]
MCDateOf  == [r \in MCRecords |-> IF r = r2 THEN 2 ELSE 1]
MCImages  == {"image"}
MCImageOf == [r \in MCRecords |-> IF r = r1 THEN NoImage ELSE "image"]
=============================================================================
