---------------------------- MODULE AtomicDeletion ----------------------------
(***************************************************************************)
(* What "Delete Chronicle evidence" promises to the clients of the store:   *)
(* they write file by file, find the store closed for a while, and then     *)
(* find it empty.  None of them ever sees a deletion that is half done.     *)
(***************************************************************************)
CONSTANTS Evidence, Content, Absent, Closed

VARIABLE store

Empty == [f \in Evidence |-> Absent]

Init == store = Empty

Change ==
  /\ store # Closed
  /\ store' \in [Evidence -> Content]
  /\ \E f \in Evidence : \A g \in Evidence \ {f} : store'[g] = store[g]

Shut == store # Closed /\ store' = Closed

Reopen == store = Closed /\ store' = Empty

Next == Change \/ Shut \/ Reopen

Spec == Init /\ [][Next]_store
=============================================================================
