--------------------------- MODULE MCJournalRepair ---------------------------
(* Three records, two of which share a day and so a shard.                    *)
EXTENDS JournalRepair

CONSTANTS r1, r2, r3

MCDateOf == [r \in {r1, r2, r3} |-> IF r = r3 THEN 2 ELSE 1]
MCBefore == [r \in {r1, r2, r3} |-> IF r = r2 THEN {r1} ELSE {}]
=============================================================================
