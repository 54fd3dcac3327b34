--------------------------- MODULE EvidenceDeletion ---------------------------
(***************************************************************************)
(* "Delete Chronicle evidence" (crates/chronicle-store/src/maintenance.rs): *)
(* the durable receipt, the store generation, the fence that the receipt    *)
(* raises in front of normal access, and the deletion that a crash can      *)
(* interrupt between any two of its writes, next to the clients that open   *)
(* the store, wait for its lock and write to it.                            *)
(*                                                                          *)
(* Abstractions.  A file's content is the generation its evidence belongs   *)
(* to, the generation recorded in the projection's store_generation row,    *)
(* and a revision: two contents are equal exactly when their checksums are. *)
(* A confirmation is the operation ID it carries.  Receipt, proof and       *)
(* generation are replaced atomically and durably (ManagedRoot::atomic_write),*)
(* so each write is one step and a crash falls between two of them.         *)
(***************************************************************************)
EXTENDS Integers, Sequences, FiniteSets

CONSTANTS
  Clients,      \* processes that use the store through handles
  Capturers,    \* those that hold the capture lease while they are open
  Paths,        \* the files of the store, in path order
  Projection,   \* the one that is the SQLite projection
  NoOwner, Maintenance, \* who holds the capture lease
  MaxOperations,  \* bound on prepared deletions
  MaxWrites       \* bound on evidence writes

Files == {Paths[i] : i \in 1 .. Len(Paths)}
Evidence == Files \ {Projection}

ASSUME DeletionAssumption ==
  /\ Capturers \subseteq Clients
  /\ Paths \in Seq(Files) /\ Projection \in Files
  /\ NoOwner \notin Clients /\ Maintenance \notin Clients /\ NoOwner # Maintenance
  /\ MaxOperations \in Nat /\ MaxWrites \in Nat

VARIABLES
  content,     \* content[f] of every file
  generation,  \* the store-generation document
  receipt,     \* receipts/evidence-deletion.json
  proof,       \* receipts/evidence-deletion-completion.json: the operation it proves
  excl, shared, owner,  \* the store lock and the capture lease
  mpc,         \* the step of the maintenance operation
  pc, handle,  \* the step of each client, the generation of its handle
  ops, confirmed, \* operations prepared, and those the user has confirmed (history)
  writes       \* evidence writes so far (bound)

locks  == <<excl, shared, owner>>
client == <<pc, handle>>
vars   == <<content, generation, receipt, proof, locks, mpc, client, ops, confirmed, writes>>

Absent == [data |-> 0, row |-> 0, rev |-> 0]
Content == [data : Nat, row : Nat, rev : Nat]

\* The mark of a closed store is not the evidence of an open one.
ASSUME ClosedAssumption == Maintenance \notin [Evidence -> Content]

States == {"none", "Prepared", "CommitIntent", "Deleting", "PartialFailure", "Complete"}
Receipt == [state : States, id : Nat, generation : Nat,
            preview : [Files -> Content], deleted : SUBSET Files]
NoReceipt == [state |-> "none", id |-> 0, generation |-> 0,
              preview |-> [f \in Files |-> Absent], deleted |-> {}]

Committed == receipt.state \notin {"none", "Prepared"}

\* Faulty variant: a deletion that failed gives access back.
FenceDownOnFailure ==
  \/ receipt.state \in {"none", "Prepared", "PartialFailure"}
  \/ receipt.state = "Complete" /\ proof = receipt.id

\* Normal access is allowed: ensure_normal_store_access.
FenceDown ==
  \/ receipt.state \in {"none", "Prepared"}
  \/ /\ receipt.state = "Complete"
     /\ proof = receipt.id
     /\ generation = receipt.generation + 1

\* The handle of c was opened in the current generation.
Current(c) == handle[c] = generation

\* The projection as SqliteStore::open leaves it: created when it is missing, and
\* its store_generation row set to the generation g of the handle.
Opened(g) ==
  IF content[Projection] = Absent
  THEN [data |-> 0, row |-> g, rev |-> 0]
  ELSE [content[Projection] EXCEPT !.row = g]

-----------------------------------------------------------------------------
(* Clients                                                                  *)

GoClient(c, step) == pc' = [pc EXCEPT ![c] = step]

\* The client's handle is dropped, with everything it holds.
Drop(c) ==
  /\ GoClient(c, "closed")
  /\ handle' = [handle EXCEPT ![c] = 0]
  /\ shared' = shared \ {c}
  /\ owner' = IF owner = c THEN NoOwner ELSE owner
  /\ UNCHANGED excl

\* SqliteStore::open looks at the fence without taking the store lock; the app
\* takes the capture lease before.
OpenBegin(c) ==
  /\ pc[c] = "closed" /\ FenceDown
  /\ IF c \in Capturers THEN owner = NoOwner /\ owner' = c ELSE UNCHANGED owner
  /\ GoClient(c, "loading")
  /\ UNCHANGED <<content, generation, receipt, proof, excl, shared, mpc, handle, ops,
                 confirmed, writes>>

OpenLoad(c) ==
  /\ pc[c] = "loading"
  /\ handle' = [handle EXCEPT ![c] = generation]
  /\ GoClient(c, "migrating")
  /\ UNCHANGED <<content, generation, receipt, proof, locks, mpc, ops, confirmed, writes>>

OpenMigrate(c) ==
  /\ pc[c] = "migrating"
  /\ content' = [content EXCEPT ![Projection] = Opened(handle[c])]
  /\ GoClient(c, "checking")
  /\ UNCHANGED <<generation, receipt, proof, locks, mpc, handle, ops, confirmed, writes>>

\* The handle is returned when the fence is still down and the generation current.
OpenDone(c) ==
  /\ pc[c] = "checking"
  /\ IF FenceDown /\ Current(c)
     THEN GoClient(c, "open") /\ UNCHANGED <<locks, handle>>
     ELSE Drop(c)
  /\ UNCHANGED <<content, generation, receipt, proof, mpc, ops, confirmed, writes>>

\* A client closes its handle, or dies.
Close(c) ==
  /\ pc[c] # "closed"
  /\ Drop(c)
  /\ UNCHANGED <<content, generation, receipt, proof, mpc, ops, confirmed, writes>>

\* Faulty variant: a request does not wait for the maintenance that is running.
AcquireUnlocked(c) ==
  /\ pc[c] = "open" /\ FenceDown
  /\ shared' = shared \cup {c}
  /\ GoClient(c, "locked")
  /\ UNCHANGED <<content, generation, receipt, proof, excl, owner, mpc, handle, ops,
                 confirmed, writes>>

\* A request takes the store lock shared.  Waiting too long changes nothing.
Acquire(c) ==
  /\ pc[c] = "open" /\ ~ excl
  /\ shared' = shared \cup {c}
  /\ GoClient(c, "locked")
  /\ UNCHANGED <<content, generation, receipt, proof, excl, owner, mpc, handle, ops,
                 confirmed, writes>>

\* Under the lock it looks at the fence and at the generation of its handle.
Enter(c) ==
  /\ pc[c] = "locked"
  /\ IF FenceDown /\ Current(c)
     THEN GoClient(c, "active") /\ UNCHANGED shared
     ELSE GoClient(c, "open") /\ shared' = shared \ {c}
  /\ UNCHANGED <<content, generation, receipt, proof, excl, owner, mpc, handle, ops,
                 confirmed, writes>>

\* A request that only reads.
Read(c) ==
  /\ pc[c] = "active"
  /\ GoClient(c, "open")
  /\ shared' = shared \ {c}
  /\ UNCHANGED <<content, generation, receipt, proof, excl, owner, mpc, handle, ops,
                 confirmed, writes>>

\* A request that writes one evidence file and projects it.
Write(c) ==
  /\ pc[c] = "active" /\ writes < MaxWrites
  /\ writes' = writes + 1
  /\ \E f \in Evidence :
       content' = [content EXCEPT
         ![f] = [data |-> handle[c], row |-> 0, rev |-> writes'],
         ![Projection] = [@ EXCEPT !.data = handle[c], !.rev = writes']]
  /\ GoClient(c, "open")
  /\ shared' = shared \ {c}
  /\ UNCHANGED <<generation, receipt, proof, excl, owner, mpc, handle, ops, confirmed>>

-----------------------------------------------------------------------------
(* Maintenance                                                              *)

\* The exclusive store lock can be taken.
StoreFree == ~ excl /\ shared = {}

\* A preview is taken and made durable.  It replaces an earlier one, and the
\* receipt of a completed deletion, but not that of an interrupted one.
Prepare ==
  /\ mpc = "idle" /\ StoreFree /\ ops < MaxOperations
  /\ receipt.state \in {"none", "Prepared", "Complete"}
  /\ ops' = ops + 1
  /\ receipt' = [state |-> "Prepared", id |-> ops', generation |-> generation,
                 preview |-> content, deleted |-> {}]
  /\ UNCHANGED <<content, generation, proof, locks, mpc, client, confirmed, writes>>

\* The confirmation of operation k is that of the prepared receipt.
Confirms(k) == receipt.state # "none" /\ receipt.id = k

\* The capture lease and the exclusive lock, both or none.
Seize ==
  /\ mpc = "idle" /\ StoreFree /\ owner = NoOwner
  /\ excl' = TRUE /\ owner' = Maintenance
  /\ mpc' = "drive"
  /\ UNCHANGED shared

Finalize ==
  \E k \in 1 .. ops :
    /\ Confirms(k)
    /\ Seize
    /\ confirmed' = confirmed \cup {k}
    /\ UNCHANGED <<content, generation, receipt, proof, client, ops, writes>>

\* A deletion that has been committed goes on without a new confirmation.
Resume ==
  /\ Committed
  /\ Seize
  /\ UNCHANGED <<content, generation, receipt, proof, client, ops, confirmed, writes>>

\* The operation returns, with success or an error, or its process dies.
Leave ==
  /\ mpc' = "idle"
  /\ excl' = FALSE /\ owner' = NoOwner
  /\ UNCHANGED shared

Abort ==
  /\ mpc # "idle"
  /\ Leave
  /\ UNCHANGED <<content, generation, receipt, proof, client, ops, confirmed, writes>>

\* Faulty variant: the preview is trusted.
UnchangedAlways == generation = receipt.generation

\* The store is still the one that was previewed.
Unchanged == generation = receipt.generation /\ content = receipt.preview

Reinventory ==
  /\ mpc = "drive" /\ receipt.state = "Prepared"
  /\ IF Unchanged THEN mpc' = "commit" /\ UNCHANGED locks ELSE Leave
  /\ UNCHANGED <<content, generation, receipt, proof, client, ops, confirmed, writes>>

Commit ==
  /\ mpc = "commit"
  /\ receipt' = [receipt EXCEPT !.state = "CommitIntent"]
  /\ mpc' = "drive"
  /\ UNCHANGED <<content, generation, proof, locks, client, ops, confirmed, writes>>

\* Faulty variant: every resume increments the generation again.
IncrementAgain ==
  /\ mpc = "drive" /\ receipt.state = "CommitIntent"
  /\ generation' = generation + 1
  /\ UNCHANGED <<content, receipt, proof, locks, mpc, client, ops, confirmed, writes>>

\* The generation is incremented once, whichever attempt gets to it.
Increment ==
  /\ mpc = "drive" /\ receipt.state = "CommitIntent"
  /\ generation = receipt.generation
  /\ generation' = generation + 1
  /\ UNCHANGED <<content, receipt, proof, locks, mpc, client, ops, confirmed, writes>>

\* The receipt says that files are being deleted, also when a partial failure is
\* taken up again.
BeginDeleting ==
  /\ mpc = "drive" /\ receipt.state \in {"CommitIntent", "Deleting", "PartialFailure"}
  /\ generation = receipt.generation + 1
  /\ receipt' = [receipt EXCEPT !.state = "Deleting"]
  /\ mpc' = "next"
  /\ UNCHANGED <<content, generation, proof, locks, client, ops, confirmed, writes>>

\* The previewed files that are not recorded as deleted.
Left == {f \in Files : receipt.preview[f] # Absent /\ f \notin receipt.deleted}

\* The one that the loop has come to: the first in path order.
Item == Paths[CHOOSE i \in 1 .. Len(Paths) :
                Paths[i] \in Left /\ \A j \in 1 .. i - 1 : Paths[j] \notin Left]

\* The file is compared with the preview.  A file that is not there was deleted
\* by an interrupted attempt; one that differs stops the deletion.
Compare ==
  /\ mpc = "next" /\ Left # {}
  /\ \/ /\ content[Item] = Absent
        /\ mpc' = "record" /\ UNCHANGED <<receipt, locks>>
     \/ /\ content[Item] = receipt.preview[Item]
        /\ mpc' = "unlink" /\ UNCHANGED <<receipt, locks>>
     \/ /\ content[Item] \notin {Absent, receipt.preview[Item]}
        /\ receipt' = [receipt EXCEPT !.state = "PartialFailure"]
        /\ Leave
  /\ UNCHANGED <<content, generation, proof, client, ops, confirmed, writes>>

Unlink ==
  /\ mpc = "unlink"
  /\ content' = [content EXCEPT ![Item] = Absent]
  /\ mpc' = "record"
  /\ UNCHANGED <<generation, receipt, proof, locks, client, ops, confirmed, writes>>

Record ==
  /\ mpc = "record"
  /\ receipt' = [receipt EXCEPT !.deleted = @ \cup {Item}]
  /\ mpc' = "next"
  /\ UNCHANGED <<content, generation, proof, locks, client, ops, confirmed, writes>>

\* Every listed file is gone: an empty projection is opened behind the fence.
Recreate ==
  /\ mpc = "next" /\ Left = {}
  /\ content' = [content EXCEPT ![Projection] = Opened(generation)]
  /\ mpc' = "complete"
  /\ UNCHANGED <<generation, receipt, proof, locks, client, ops, confirmed, writes>>

\* No evidence file is left and the projection is empty.
NothingRemains ==
  /\ \A f \in Evidence : content[f] = Absent
  /\ content[Projection].data = 0

Complete ==
  /\ mpc = "complete" /\ NothingRemains
  /\ receipt' = [receipt EXCEPT !.state = "Complete"]
  /\ mpc' = "drive"
  /\ UNCHANGED <<content, generation, proof, locks, client, ops, confirmed, writes>>

\* completed_result: the completion is verified once more and its proof written,
\* which takes the fence down.  A store that has new evidence is left as it is.
Prove ==
  /\ mpc = "drive" /\ receipt.state = "Complete"
  /\ \/ /\ generation = receipt.generation + 1 /\ NothingRemains
        /\ content' = [content EXCEPT ![Projection] = Opened(generation)]
        /\ proof' = receipt.id
     \/ /\ ~ (generation = receipt.generation + 1 /\ NothingRemains)
        /\ UNCHANGED <<content, proof>>
  /\ Leave
  /\ UNCHANGED <<generation, receipt, client, ops, confirmed, writes>>

-----------------------------------------------------------------------------

Init ==
  /\ content = [f \in Files |-> Absent]
  /\ generation = 1
  /\ receipt = NoReceipt /\ proof = 0
  /\ excl = FALSE /\ shared = {} /\ owner = NoOwner
  /\ mpc = "idle"
  /\ pc = [c \in Clients |-> "closed"]
  /\ handle = [c \in Clients |-> 0]
  /\ ops = 0 /\ confirmed = {} /\ writes = 0

Next ==
  \/ \E c \in Clients :
       \/ OpenBegin(c) \/ OpenLoad(c) \/ OpenMigrate(c) \/ OpenDone(c) \/ Close(c)
       \/ Acquire(c) \/ Enter(c) \/ Read(c) \/ Write(c)
  \/ Prepare \/ Finalize \/ Resume \/ Abort \/ Reinventory \/ Commit \/ Increment
  \/ BeginDeleting \/ Compare \/ Unlink \/ Record \/ Recreate \/ Complete \/ Prove

Spec == Init /\ [][Next]_vars

-----------------------------------------------------------------------------
(* Properties                                                               *)

\* Every variable has its type, the lock is held by whoever is at a step under it,
\* and the receipt is one that validate_receipt accepts.
TypeOK ==
  /\ content \in [Files -> Content]
  /\ generation \in Nat /\ proof \in Nat
  /\ receipt \in Receipt
  /\ excl \in BOOLEAN /\ shared \subseteq Clients
  /\ owner \in Clients \cup {NoOwner, Maintenance}
  /\ mpc \in {"idle", "drive", "commit", "next", "unlink", "record", "complete"}
  /\ pc \in [Clients -> {"closed", "loading", "migrating", "checking", "open",
                         "locked", "active"}]
  /\ handle \in [Clients -> Nat]
  /\ ops \in Nat /\ confirmed \subseteq Nat /\ writes \in Nat
  /\ excl = (mpc # "idle") /\ shared = {c \in Clients : pc[c] \in {"locked", "active"}}
  /\ excl => shared = {}
  /\ receipt.state \in {"Prepared", "CommitIntent"} => receipt.deleted = {}
  /\ receipt.state = "Complete" => Left = {}

\* Whenever the fence is down, the store holds the evidence of one generation:
\* what a deletion was to remove is gone, however often it was interrupted, and
\* no client has written into a generation that was not its own.
OneGeneration ==
  FenceDown => \A f \in Files : content[f].data \in {0, generation}

\* A request that got past the lock works on a store whose fence stays down and
\* whose generation stays that of its handle for as long as it runs.
ActiveUndisturbed ==
  \A c \in Clients : pc[c] = "active" =>
    FenceDown /\ Current(c) /\ \A f \in Files : content[f].data \in {0, handle[c]}

\* From the intent to the proof no evidence file changes or appears: each of the
\* previewed ones is as previewed or gone, so a resume always gets past it.
CommittedEvidenceFrozen ==
  Committed /\ ~ FenceDown =>
    \A f \in Evidence : content[f] \in {Absent, receipt.preview[f]}

\* Maintenance removes an evidence file only with the content that the user saw
\* in a preview and confirmed.
OnlyConfirmedDeleted ==
  \A f \in Evidence : content[f] # Absent /\ content'[f] = Absent =>
    content[f] = receipt.preview[f] /\ receipt.id \in confirmed

\* However often a confirmed deletion is interrupted and resumed, it moves the
\* generation by one: clients of a later generation are never fenced off by it.
OneGenerationPerDeletion == generation <= 1 + Cardinality(confirmed)

\* No generation's evidence outlives it, and no request works across two of them.
GenerationsHold == OneGeneration /\ ActiveUndisturbed /\ OneGenerationPerDeletion

\* What a deletion removes is what was confirmed, and nothing else changes or appears
\* from its intent to its proof.
DeletedAsConfirmed == [][CommittedEvidenceFrozen' /\ OnlyConfirmedDeleted]_vars

\* To the clients a deletion is atomic: between the store they knew and an empty
\* one they only find it closed, whatever was interrupted in between.
Atomic == INSTANCE AtomicDeletion WITH
  Closed <- Maintenance,
  store <- IF FenceDown THEN [f \in Evidence |-> content[f]] ELSE Maintenance
ImplementsAtomicDeletion == Atomic!Spec
=============================================================================
