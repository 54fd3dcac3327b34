----------------------------- MODULE EvidenceLog -----------------------------
(***************************************************************************)
(* What one journal family promises to the rest of the store               *)
(* (docs/data-contract.md, "Canonical records"): an append-only set of     *)
(* records whose stable IDs and image claims are unique over every daily   *)
(* shard, in which an acknowledged record stays.  A record that was never  *)
(* acknowledged may disappear again.  CanonicalJournal implements it.      *)
(***************************************************************************)
CONSTANTS Records, Ids, IdOf, Images, ImageOf, NoImage

VARIABLES log, acked

SameIdentity(r, s) ==
  IdOf[r] = IdOf[s] \/ (ImageOf[r] # NoImage /\ ImageOf[r] = ImageOf[s])

Init == log = {} /\ acked = {}

Accept(r) ==
  /\ r \notin log
  /\ \A s \in log : ~ SameIdentity(r, s)
  /\ log' = log \cup {r}
  /\ UNCHANGED acked

Acknowledge ==
  /\ acked \subseteq acked' /\ acked' \subseteq log
  /\ UNCHANGED log

Lose ==
  /\ log' \in SUBSET log /\ acked \subseteq log'
  /\ UNCHANGED acked

Next == Lose \/ Acknowledge \/ \E r \in Records : Accept(r)

Spec == Init /\ [][Next]_<<log, acked>>
=============================================================================
