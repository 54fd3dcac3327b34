------------------------ MODULE EvidenceDeletionProofs ------------------------
(***************************************************************************)
(* Proofs about EvidenceDeletion, for every set of clients, every list of  *)
(* files and any number of deletions and writes: the type invariant, that  *)
(* generations never mix, that only what was confirmed is deleted, and     *)
(* that a deletion is atomic to the clients.                               *)
(***************************************************************************)
EXTENDS EvidenceDeletion, FiniteSetTheorems, TLAPS

\* A deletion has incremented the generation.
Incremented == generation = receipt.generation + 1

\* The generation that each state of the receipt goes with: the increment falls
\* into CommitIntent.
ReceiptGeneration ==
  /\ receipt.state = "Prepared" => generation = receipt.generation
  /\ receipt.state = "CommitIntent" => generation = receipt.generation \/ Incremented
  /\ receipt.state \in {"Deleting", "PartialFailure", "Complete"} => Incremented

\* A receipt that is not complete is newer than the proof of completion.
ProofOlder ==
  /\ receipt.id <= ops /\ proof <= ops
  /\ receipt.state \in {"Prepared", "CommitIntent", "Deleting", "PartialFailure"} =>
       proof < receipt.id

\* What each step of the maintenance operation has established under its lock.
MaintenanceSteps ==
  /\ mpc = "commit" =>
       receipt.state = "Prepared" /\ \A f \in Evidence : content[f] = receipt.preview[f]
  /\ mpc \in {"next", "unlink", "record", "complete"} => receipt.state = "Deleting"
  /\ mpc \in {"unlink", "record"} => Left # {}
  /\ mpc = "unlink" /\ Item \in Evidence => content[Item] = receipt.preview[Item]
  /\ mpc = "record" /\ Item \in Evidence => content[Item] = Absent
  /\ mpc = "complete" => Left = {}

\* What the receipt says about the evidence on disk.
ReceiptHonest ==
  /\ receipt.state = "CommitIntent" => \A f \in Evidence : content[f] = receipt.preview[f]
  /\ receipt.state \in {"Deleting", "PartialFailure"} =>
       \A f \in Evidence : /\ content[f] \in {Absent, receipt.preview[f]}
                           /\ f \in receipt.deleted => content[f] = Absent
  /\ receipt.state = "Complete" /\ ~ FenceDown => NothingRemains

\* A request past the lock works in the current generation with the fence down.
ActiveCurrent == \A c \in Clients : pc[c] = "active" => FenceDown /\ Current(c)

\* A deletion that goes on was confirmed.
Confirmed ==
  /\ confirmed \subseteq 1 .. ops
  /\ Committed \/ mpc # "idle" => receipt.id \in confirmed

\* The confirmations that have not been used up by an increment to come.
Spent ==
  IF \/ receipt.state \in {"none", "Prepared"}
     \/ receipt.state = "CommitIntent" /\ generation = receipt.generation
  THEN confirmed \ {receipt.id}
  ELSE confirmed

\* Each increment has a confirmation of its own.
IncrementsConfirmed == generation <= 1 + Cardinality(Spent)

DeletionInv ==
  /\ TypeOK /\ ReceiptGeneration /\ ProofOlder /\ MaintenanceSteps /\ ReceiptHonest
  /\ ActiveCurrent /\ Confirmed /\ OneGeneration

Client(c) ==
  \/ OpenBegin(c) \/ OpenLoad(c) \/ OpenMigrate(c) \/ OpenDone(c) \/ Close(c)
  \/ Acquire(c) \/ Enter(c) \/ Read(c) \/ Write(c)

Maintain ==
  \/ Prepare \/ Finalize \/ Resume \/ Abort \/ Reinventory \/ Commit \/ Increment
  \/ BeginDeleting \/ Compare \/ Unlink \/ Record \/ Recreate \/ Complete \/ Prove

-----------------------------------------------------------------------------
(* Lemmas about the operators                                               *)

\* A set of numbers that is not empty has a least element: the intervals up to its
\* elements are well-founded by inclusion.
LEMMA LeastNumber ==
  ASSUME NEW T \in SUBSET Nat, T # {}
  PROVE  \E x \in T : \A y \in T : x <= y
<1> DEFINE R == StrictSubsetOrdering(Nat)
           U == {1 .. x : x \in T}
<1>1. IsWellFoundedOn(R, FiniteSubsetsOf(Nat))
  BY FS_StrictSubsetOrderingWellFounded
<1>2. U \subseteq FiniteSubsetsOf(Nat) /\ U # {}
  <2>1. \A x \in T : 1 .. x \in SUBSET Nat /\ IsFiniteSet(1 .. x)
    BY FS_Interval
  <2> QED BY <2>1 DEF FiniteSubsetsOf
<1>3. PICK m \in U : \A n \in U : ~ (<<n, m>> \in R)
  <2> HIDE DEF R, U
  <2> QED BY <1>1, <1>2, WFMin
<1>4. PICK x \in T : m = 1 .. x
  BY <1>3
<1>5. ASSUME NEW y \in T, y < x PROVE FALSE
  <2>1. 1 .. y \subseteq 1 .. x /\ x \in 1 .. x /\ x \notin 1 .. y
    BY <1>5
  <2>2. <<1 .. y, 1 .. x>> \in R
    BY <2>1 DEF StrictSubsetOrdering
  <2> QED BY <1>3, <1>4, <2>2
<1> QED BY <1>4, <1>5

\* While files are left, the loop comes to one of them.
LEMMA ItemLeft == Left # {} => Item \in Left
<1> SUFFICES ASSUME Left # {} PROVE Item \in Left
  OBVIOUS
<1> DEFINE T == {i \in 1 .. Len(Paths) : Paths[i] \in Left}
           First(i) == Paths[i] \in Left /\ \A j \in 1 .. i - 1 : Paths[j] \notin Left
<1>1. Len(Paths) \in Nat
  BY DeletionAssumption
<1>2. T \subseteq Nat /\ T # {}
  BY <1>1 DEF Left, Files
<1>3. PICK x \in T : \A y \in T : x <= y
  BY <1>2, LeastNumber
<1>4. First(x) /\ x \in 1 .. Len(Paths)
  BY <1>1, <1>3
<1>5. First(CHOOSE i \in 1 .. Len(Paths) : First(i))
  <2> HIDE DEF First
  <2> QED BY <1>4
<1> QED BY <1>5 DEF Item

LEMMA LeftFiles == Left \subseteq Files
  BY DEF Left

\* A file of the store has a content.
LEMMA ProjectionFile == Projection \in Files /\ Evidence \subseteq Files /\ Projection \notin Evidence
  BY DeletionAssumption DEF Evidence

LEMMA AbsentContent == Absent \in Content
  BY DEF Absent, Content

\* Opening the projection keeps the generation of its evidence.
LEMMA OpenedType ==
  ASSUME TypeOK, NEW g \in Nat
  PROVE  /\ Opened(g) \in Content
         /\ Opened(g).data = content[Projection].data
<1>1. content[Projection] \in Content
  BY ProjectionFile DEF TypeOK
<1> QED BY <1>1 DEF Opened, Content, Absent

-----------------------------------------------------------------------------
(* Type correctness                                                         *)

LEMMA TypeInit == Init => TypeOK
<1> SUFFICES ASSUME Init PROVE TypeOK
  OBVIOUS
<1>1. receipt \in Receipt
  BY AbsentContent DEF Init, NoReceipt, Receipt, States
<1>2. content \in [Files -> Content]
  BY AbsentContent DEF Init
<1>3. /\ receipt.state \in {"Prepared", "CommitIntent"} => receipt.deleted = {}
      /\ receipt.state = "Complete" => Left = {}
  BY DEF Init, NoReceipt
<1> QED BY <1>1, <1>2, <1>3 DEF Init, TypeOK

\* A step of a client leaves the deletion alone.
LEMMA ClientFrame ==
  ASSUME NEW c \in Clients, Client(c)
  PROVE  /\ UNCHANGED <<generation, receipt, proof, excl, mpc, ops, confirmed>>
         /\ ~ OpenMigrate(c) /\ ~ Write(c) => UNCHANGED <<content, writes>>
<1>1. CASE OpenBegin(c) BY <1>1 DEF OpenBegin
<1>2. CASE OpenLoad(c) BY <1>2 DEF OpenLoad, locks
<1>3. CASE OpenMigrate(c) BY <1>3 DEF OpenMigrate, locks
<1>4. CASE OpenDone(c) BY <1>4 DEF OpenDone, Drop, locks
<1>5. CASE Close(c) BY <1>5 DEF Close, Drop
<1>6. CASE Acquire(c) BY <1>6 DEF Acquire
<1>7. CASE Enter(c) BY <1>7 DEF Enter
<1>8. CASE Read(c) BY <1>8 DEF Read
<1>9. CASE Write(c) BY <1>9 DEF Write
<1> QED BY <1>1, <1>2, <1>3, <1>4, <1>5, <1>6, <1>7, <1>8, <1>9 DEF Client

\* A step of the maintenance operation leaves the clients alone.
LEMMA MaintainFrame ==
  ASSUME Maintain
  PROVE  UNCHANGED <<pc, handle, shared, writes>>
<1>1. CASE Prepare BY <1>1 DEF Prepare, client, locks
<1>2. CASE Finalize BY <1>2 DEF Finalize, Seize, client
<1>3. CASE Resume BY <1>3 DEF Resume, Seize, client
<1>4. CASE Abort BY <1>4 DEF Abort, Leave, client
<1>5. CASE Reinventory BY <1>5 DEF Reinventory, Leave, client, locks
<1>6. CASE Commit BY <1>6 DEF Commit, client, locks
<1>7. CASE Increment BY <1>7 DEF Increment, client, locks
<1>8. CASE BeginDeleting BY <1>8 DEF BeginDeleting, client, locks
<1>9. CASE Compare BY <1>9 DEF Compare, Leave, client, locks
<1>10. CASE Unlink BY <1>10 DEF Unlink, client, locks
<1>11. CASE Record BY <1>11 DEF Record, client, locks
<1>12. CASE Recreate BY <1>12 DEF Recreate, client, locks
<1>13. CASE Complete BY <1>13 DEF Complete, client, locks
<1>14. CASE Prove BY <1>14 DEF Prove, Leave, client
<1> QED BY <1>1, <1>2, <1>3, <1>4, <1>5, <1>6, <1>7, <1>8, <1>9, <1>10, <1>11, <1>12, <1>13, <1>14 DEF Maintain

\* What a client writes is typed, and belongs to the generation of its handle.
LEMMA ClientContent ==
  ASSUME TypeOK, NEW c \in Clients, Client(c)
  PROVE  /\ content' \in [Files -> Content] /\ writes' \in Nat
         /\ \A f \in Files : content'[f].data \in {content[f].data, handle[c]}
         /\ ~ Write(c) => \A f \in Files : content'[f].data = content[f].data
         /\ ~ Write(c) => \A f \in Evidence : content'[f] = content[f]
<1>1. content \in [Files -> Content] /\ writes \in Nat /\ handle[c] \in Nat
  BY DEF TypeOK
<1>2. CASE OpenMigrate(c)
  <2>1. content' = [content EXCEPT ![Projection] = Opened(handle[c])] /\ writes' = writes
    BY <1>2 DEF OpenMigrate
  <2>2. Opened(handle[c]) \in Content /\ Opened(handle[c]).data = content[Projection].data
    BY <1>1, OpenedType
  <2>3. /\ content' \in [Files -> Content] /\ content'[Projection] = Opened(handle[c])
        /\ \A f \in Files \ {Projection} : content'[f] = content[f]
    BY <1>1, <2>1, <2>2, ProjectionFile
  <2> QED BY <1>1, <2>1, <2>2, <2>3, ProjectionFile
<1>3. CASE Write(c)
  <2>1. PICK e \in Evidence :
          content' = [content EXCEPT
             ![e] = [data |-> handle[c], row |-> 0, rev |-> writes'],
             ![Projection] = [@ EXCEPT !.data = handle[c], !.rev = writes']]
    BY <1>3 DEF Write
  <2>2. writes' \in Nat
    BY <1>1, <1>3 DEF Write
  <2>3. [data |-> handle[c], row |-> 0, rev |-> writes'] \in Content
    BY <1>1, <2>2 DEF Content
  <2>4. content[Projection] \in Content
    BY <1>1, ProjectionFile
  <2>5. [content[Projection] EXCEPT !.data = handle[c], !.rev = writes'] \in Content
    BY <1>1, <2>2, <2>4 DEF Content
  <2>6. \A f \in Files : content'[f] =
          IF f = Projection THEN [content[Projection] EXCEPT !.data = handle[c], !.rev = writes']
          ELSE IF f = e THEN [data |-> handle[c], row |-> 0, rev |-> writes'] ELSE content[f]
    BY <1>1, <2>1, ProjectionFile
  <2>7. content' \in [Files -> Content]
    BY <1>1, <2>1, <2>3, <2>5, <2>6
  <2>8. [content[Projection] EXCEPT !.data = handle[c], !.rev = writes'].data = handle[c]
    BY <2>4 DEF Content
  <2>9. ASSUME NEW f \in Files PROVE content'[f].data \in {content[f].data, handle[c]}
    <3>1. CASE f = Projection BY <2>6, <2>8, <3>1
    <3>2. CASE f = e BY <2>6, <3>2, ProjectionFile
    <3>3. CASE f # Projection /\ f # e BY <2>6, <3>3
    <3> QED BY <3>1, <3>2, <3>3
  <2> QED BY <1>3, <2>2, <2>7, <2>9
<1>4. CASE ~ OpenMigrate(c) /\ ~ Write(c)
  BY <1>1, <1>4, ClientFrame, ProjectionFile
<1> QED BY <1>2, <1>3, <1>4

\* A client is among the holders of the lock exactly from Acquire to its request's end.
LEMMA ClientControl ==
  ASSUME TypeOK, NEW c \in Clients, Client(c)
  PROVE  /\ pc' \in [Clients -> {"closed", "loading", "migrating", "checking", "open",
                                 "locked", "active"}]
         /\ handle' \in [Clients -> Nat]
         /\ owner' \in Clients \cup {NoOwner, Maintenance}
         /\ shared' = {d \in Clients : pc'[d] \in {"locked", "active"}}
         /\ excl' => shared' = {}
<1> DEFINE Control == {"closed", "loading", "migrating", "checking", "open", "locked", "active"}
           Holders(f) == {d \in Clients : f[d] \in {"locked", "active"}}
<1>1. /\ pc \in [Clients -> Control] /\ handle \in [Clients -> Nat] /\ generation \in Nat
      /\ owner \in Clients \cup {NoOwner, Maintenance}
      /\ shared = Holders(pc) /\ (excl => shared = {})
  BY DEF TypeOK
<1>2. excl' = excl
  BY ClientFrame
<1>3. \/ UNCHANGED handle
      \/ handle' = [handle EXCEPT ![c] = generation]
      \/ handle' = [handle EXCEPT ![c] = 0]
  BY DEF Client, OpenBegin, OpenLoad, OpenMigrate, OpenDone, Close, Acquire, Enter, Read, Write,
         Drop, locks
<1>4. owner' \in {owner, c, NoOwner}
  BY DEF Client, OpenBegin, OpenLoad, OpenMigrate, OpenDone, Close, Acquire, Enter, Read, Write,
         Drop, locks
<1>5. \/ \E s \in Control \ {"locked", "active"} :
           /\ pc' = [pc EXCEPT ![c] = s]
           /\ \/ shared' = shared \ {c}
              \/ shared' = shared /\ pc[c] \notin {"locked", "active"}
      \/ \E s \in {"locked", "active"} :
           /\ pc' = [pc EXCEPT ![c] = s]
           /\ \/ shared' = shared \cup {c} /\ ~ excl
              \/ shared' = shared /\ pc[c] \in {"locked", "active"}
  <2> USE DEF GoClient
  <2>1. CASE OpenBegin(c) BY <2>1 DEF OpenBegin
  <2>2. CASE OpenLoad(c) BY <2>2 DEF OpenLoad, locks
  <2>3. CASE OpenMigrate(c) BY <2>3 DEF OpenMigrate, locks
  <2>4. CASE OpenDone(c) BY <2>4 DEF OpenDone, Drop, locks
  <2>5. CASE Close(c) BY <2>5 DEF Close, Drop
  <2>6. CASE Acquire(c) BY <2>6 DEF Acquire
  <2>7. CASE Enter(c) BY <2>7 DEF Enter
  <2>8. CASE Read(c) BY <2>8 DEF Read
  <2>9. CASE Write(c) BY <2>9 DEF Write
  <2> QED BY <2>1, <2>2, <2>3, <2>4, <2>5, <2>6, <2>7, <2>8, <2>9 DEF Client
<1>6. shared' = Holders(pc') /\ pc' \in [Clients -> Control] /\ (excl' => shared' = {})
  <2>1. ASSUME NEW s \in Control \ {"locked", "active"}, pc' = [pc EXCEPT ![c] = s],
               \/ shared' = shared \ {c}
               \/ shared' = shared /\ pc[c] \notin {"locked", "active"}
        PROVE  shared' = Holders(pc') /\ pc' \in [Clients -> Control] /\ (excl' => shared' = {})
    BY <1>1, <1>2, <2>1
  <2>2. ASSUME NEW s \in {"locked", "active"}, pc' = [pc EXCEPT ![c] = s],
               \/ shared' = shared \cup {c} /\ ~ excl
               \/ shared' = shared /\ pc[c] \in {"locked", "active"}
        PROVE  shared' = Holders(pc') /\ pc' \in [Clients -> Control] /\ (excl' => shared' = {})
    BY <1>1, <1>2, <2>2
  <2> QED BY <1>5, <2>1, <2>2
<1> QED BY <1>1, <1>3, <1>4, <1>6

LEMMA ClientType ==
  ASSUME TypeOK, NEW c \in Clients, Client(c)
  PROVE  TypeOK'
<1>1. UNCHANGED <<generation, receipt, proof, excl, mpc, ops, confirmed>>
  BY ClientFrame
<1>2. /\ content' \in [Files -> Content] /\ writes' \in Nat
  BY ClientContent
<1>3. Left' = Left
  BY <1>1 DEF Left
<1>4. shared' \subseteq Clients
  BY ClientControl
<1> QED BY <1>1, <1>2, <1>3, <1>4, ClientControl DEF TypeOK

\* What the maintenance operation leaves in the store.
LEMMA MaintainContent ==
  ASSUME TypeOK, Maintain
  PROVE  /\ content' \in [Files -> Content]
         /\ ~ Unlink => \A f \in Files : content'[f].data = content[f].data
         /\ ~ Unlink => \A f \in Evidence : content'[f] = content[f]
<1>1. content \in [Files -> Content] /\ generation \in Nat
  BY DEF TypeOK
<1>2. CASE content' = [content EXCEPT ![Projection] = Opened(generation)]
  <2>1. Opened(generation) \in Content /\ Opened(generation).data = content[Projection].data
    BY <1>1, OpenedType
  <2> QED BY <1>1, <1>2, <2>1, ProjectionFile
<1>3. CASE content' = content
  BY <1>1, <1>3
<1>4. CASE Unlink
  BY <1>1, <1>4, AbsentContent DEF Unlink
<1>5. CASE Prove
  BY <1>2, <1>3, <1>5 DEF Prove
<1>6. CASE Recreate
  BY <1>2, <1>6 DEF Recreate
<1>7. Unlink \/ Recreate \/ Prove \/ UNCHANGED content
  BY DEF Maintain, Prepare, Finalize, Resume, Abort, Reinventory, Commit, Increment, BeginDeleting,
         Compare, Record, Complete
<1> QED BY <1>3, <1>4, <1>5, <1>6, <1>7

\* The steps of the maintenance operation are those under the exclusive lock.
LEMMA MaintainLocks ==
  ASSUME TypeOK, Maintain
  PROVE  /\ excl' \in BOOLEAN /\ excl' = (mpc' # "idle") /\ (excl' => shared' = {})
         /\ owner' \in Clients \cup {NoOwner, Maintenance}
         /\ mpc' \in {"idle", "drive", "commit", "next", "unlink", "record", "complete"}
<1> USE DEF TypeOK, locks
<1>1. shared' = shared
  BY MaintainFrame
<1>2. CASE Prepare BY <1>1, <1>2 DEF Prepare
<1>3. CASE Finalize \/ Resume BY <1>1, <1>3 DEF Finalize, Resume, Seize, StoreFree
<1>4. CASE Abort BY <1>1, <1>4 DEF Abort, Leave
<1>5. CASE Reinventory BY <1>1, <1>5 DEF Reinventory, Leave
<1>6. CASE Commit \/ Increment BY <1>1, <1>6 DEF Commit, Increment
<1>7. CASE BeginDeleting BY <1>1, <1>7 DEF BeginDeleting
<1>8. CASE Compare BY <1>1, <1>8 DEF Compare, Leave
<1>9. CASE Unlink \/ Record BY <1>1, <1>9 DEF Unlink, Record
<1>10. CASE Recreate \/ Complete BY <1>1, <1>10 DEF Recreate, Complete
<1>11. CASE Prove BY <1>1, <1>11 DEF Prove, Leave
<1> QED BY <1>2, <1>3, <1>4, <1>5, <1>6, <1>7, <1>8, <1>9, <1>10, <1>11 DEF Maintain

\* What the maintenance operation leaves in the receipt and the documents beside it.
LEMMA MaintainDocuments ==
  ASSUME TypeOK, MaintenanceSteps, Maintain
  PROVE  /\ receipt' \in Receipt
         /\ generation' \in Nat /\ proof' \in Nat /\ ops' \in Nat /\ confirmed' \subseteq Nat
         /\ receipt'.state \in {"Prepared", "CommitIntent"} => receipt'.deleted = {}
         /\ receipt'.state = "Complete" => (Left = {})'
<1>1. /\ receipt \in Receipt /\ content \in [Files -> Content]
      /\ generation \in Nat /\ proof \in Nat /\ ops \in Nat /\ confirmed \subseteq Nat
      /\ receipt.state \in {"Prepared", "CommitIntent"} => receipt.deleted = {}
      /\ receipt.state = "Complete" => Left = {}
  BY DEF TypeOK
<1>2. CASE Prepare
  <2>1. receipt' = [state |-> "Prepared", id |-> ops', generation |-> generation,
                    preview |-> content, deleted |-> {}]
    BY <1>2 DEF Prepare
  <2>2. receipt' \in Receipt /\ receipt'.state = "Prepared" /\ receipt'.deleted = {}
    BY <1>1, <1>2, <2>1 DEF Prepare, Receipt, States
  <2> QED BY <1>1, <1>2, <2>2 DEF Prepare
<1>3. CASE UNCHANGED receipt
  <2>1. Left' = Left
    BY <1>3 DEF Left
  <2>2. generation' \in Nat /\ proof' \in Nat /\ ops' \in Nat /\ confirmed' \subseteq Nat
    BY <1>1 DEF Maintain, Prepare, Finalize, Resume, Abort, Reinventory, Commit, Increment,
                BeginDeleting, Compare, Unlink, Record, Recreate, Complete, Prove, Receipt
  <2> QED BY <1>1, <1>3, <2>1, <2>2
<1>4. ASSUME NEW s \in {"CommitIntent", "Deleting", "PartialFailure", "Complete"},
             receipt' = [receipt EXCEPT !.state = s],
             s = "CommitIntent" => receipt.state = "Prepared",
             s = "Complete" => Left = {},
             UNCHANGED <<generation, proof, ops, confirmed>>
      PROVE  /\ receipt' \in Receipt
             /\ receipt'.state \in {"Prepared", "CommitIntent"} => receipt'.deleted = {}
             /\ receipt'.state = "Complete" => (Left = {})'
  <2>1. /\ receipt'.state = s /\ receipt'.deleted = receipt.deleted
        /\ receipt'.preview = receipt.preview /\ receipt' \in Receipt
    BY <1>1, <1>4 DEF Receipt, States
  <2>2. Left' = Left
    BY <2>1 DEF Left
  <2> QED BY <1>1, <1>4, <2>1, <2>2
<1>5. CASE Commit
  <2>1. receipt.state = "Prepared"
    BY <1>5 DEF Commit, MaintenanceSteps
  <2> QED BY <1>1, <1>4, <1>5, <2>1 DEF Commit
<1>6. CASE BeginDeleting
  BY <1>1, <1>4, <1>6 DEF BeginDeleting
<1>7. CASE Compare
  BY <1>1, <1>3, <1>4, <1>7 DEF Compare
<1>8. CASE Complete
  <2>1. Left = {}
    BY <1>8 DEF Complete, MaintenanceSteps
  <2> QED BY <1>1, <1>4, <1>8, <2>1 DEF Complete
<1>9. CASE Record
  <2>1. Item \in Files /\ receipt.state = "Deleting"
    BY <1>9, ItemLeft, LeftFiles DEF Record, MaintenanceSteps
  <2>2. receipt' = [receipt EXCEPT !.deleted = receipt.deleted \cup {Item}]
    BY <1>9 DEF Record
  <2>3. receipt' \in Receipt /\ receipt'.state = receipt.state
    BY <1>1, <2>1, <2>2 DEF Receipt
  <2> QED BY <1>1, <1>9, <2>1, <2>3 DEF Record
<1>10. \/ UNCHANGED receipt
       \/ Prepare \/ Commit \/ BeginDeleting \/ Compare \/ Record \/ Complete
  BY DEF Maintain, Finalize, Resume, Abort, Reinventory, Increment, Unlink, Recreate, Prove
<1> QED BY <1>2, <1>3, <1>5, <1>6, <1>7, <1>8, <1>9, <1>10

LEMMA MaintainType ==
  ASSUME TypeOK, MaintenanceSteps, Maintain
  PROVE  TypeOK'
<1>1. UNCHANGED <<pc, handle, shared, writes>>
  BY MaintainFrame
<1>2. content' \in [Files -> Content]
  BY MaintainContent
<1> QED BY <1>1, <1>2, MaintainLocks, MaintainDocuments DEF TypeOK

-----------------------------------------------------------------------------
(* The inductive invariant                                                  *)

\* A request past the lock excludes the maintenance operation.
LEMMA MaintainAlone ==
  ASSUME TypeOK, Maintain
  PROVE  \A c \in Clients : pc[c] \notin {"locked", "active"}
<1>1. mpc # "idle" \/ StoreFree
  BY DEF Maintain, Prepare, Finalize, Resume, Seize, Abort, Reinventory, Commit, Increment,
         BeginDeleting, Compare, Unlink, Record, Recreate, Complete, Prove
<1> QED BY <1>1 DEF TypeOK, StoreFree

\* A request that writes does so before the maintenance operation and in front of a
\* fence that is down.
LEMMA WriteInFence ==
  ASSUME TypeOK, ActiveCurrent, NEW c \in Clients, Write(c)
  PROVE  mpc = "idle" /\ FenceDown /\ handle[c] = generation
BY DEF TypeOK, ActiveCurrent, Write, Current

\* A client's steps preserve the invariant: what it writes is of the generation that
\* the open fence stands for.
LEMMA ClientInv ==
  ASSUME DeletionInv, NEW c \in Clients, Client(c)
  PROVE  DeletionInv'
<1>1. UNCHANGED <<generation, receipt, proof, excl, mpc, ops, confirmed>>
  BY ClientFrame
<1>2. /\ \A f \in Files : content'[f].data \in {content[f].data, handle[c]}
      /\ ~ Write(c) => \A f \in Files : content'[f].data = content[f].data
      /\ ~ Write(c) => \A f \in Evidence : content'[f] = content[f]
  BY ClientContent DEF DeletionInv
<1>3. Write(c) => mpc = "idle" /\ FenceDown /\ handle[c] = generation
  BY WriteInFence DEF DeletionInv
<1>4. FenceDown' = FenceDown /\ Left' = Left /\ Committed' = Committed
  BY <1>1 DEF FenceDown, Left, Committed
<1>5. Item' = Item
  BY <1>4 DEF Item
<1>6. TypeOK'
  BY ClientType DEF DeletionInv
<1>7. ReceiptGeneration' /\ ProofOlder' /\ Confirmed'
  BY <1>1, <1>4 DEF DeletionInv, ReceiptGeneration, Incremented, ProofOlder, Confirmed
<1>8. MaintenanceSteps'
  BY <1>1, <1>2, <1>3, <1>4, <1>5 DEF DeletionInv, MaintenanceSteps
<1>9. ReceiptHonest'
  <2>1. CASE Write(c)
    BY <1>1, <1>3, <1>4, <2>1 DEF ReceiptHonest, FenceDown
  <2>2. CASE ~ Write(c)
    BY <1>1, <1>2, <1>4, <2>2, ProjectionFile DEF DeletionInv, ReceiptHonest, NothingRemains
  <2> QED BY <2>1, <2>2
<1>10. ActiveCurrent'
  <2> SUFFICES ASSUME NEW d \in Clients, pc'[d] = "active" PROVE FenceDown /\ handle'[d] = generation
    BY <1>1, <1>4 DEF ActiveCurrent, Current
  <2>1. pc \in [Clients -> {"closed", "loading", "migrating", "checking", "open", "locked", "active"}]
        /\ handle \in [Clients -> Nat]
    BY DEF DeletionInv, TypeOK
  <2>2. CASE d # c
    <3>1. pc'[d] = pc[d] /\ handle'[d] = handle[d]
      BY <2>1, <2>2 DEF Client, OpenBegin, OpenLoad, OpenMigrate, OpenDone, Close, Acquire, Enter,
                        Read, Write, Drop, GoClient, locks
    <3> QED BY <3>1 DEF DeletionInv, ActiveCurrent, Current
  <2>3. CASE d = c
    <3>1. Enter(c) /\ FenceDown /\ Current(c)
      BY <2>1, <2>3 DEF Client, OpenBegin, OpenLoad, OpenMigrate, OpenDone, Close, Acquire, Enter,
                        Read, Write, Drop, GoClient, locks
    <3> QED BY <2>3, <3>1 DEF Enter, Current
  <2> QED BY <2>2, <2>3
<1>11. OneGeneration'
  BY <1>1, <1>2, <1>3, <1>4 DEF DeletionInv, OneGeneration
<1> QED BY <1>6, <1>7, <1>8, <1>9, <1>10, <1>11 DEF DeletionInv

\* What the steps of the maintenance operation have in common.
LEMMA MaintainRest ==
  ASSUME DeletionInv, Maintain
  PROVE  TypeOK' /\ ActiveCurrent'
<1>1. \A c \in Clients : pc'[c] # "active"
  BY MaintainAlone, MaintainFrame DEF DeletionInv
<1> QED BY <1>1, MaintainType DEF ActiveCurrent, DeletionInv

DeletionRest ==
  ReceiptGeneration /\ ProofOlder /\ MaintenanceSteps /\ ReceiptHonest /\ Confirmed /\ OneGeneration

\* A preview and a confirmation.
LEMMA PrepareInv ==
  ASSUME DeletionInv, Prepare \/ Finalize \/ Resume
  PROVE  DeletionRest'
<1> USE DEF DeletionInv, TypeOK
<1>1. CASE Prepare
  <2>1. /\ receipt'.state = "Prepared" /\ receipt'.id = ops + 1 /\ receipt'.generation = generation
        /\ ops' = ops + 1 /\ mpc' = "idle"
        /\ UNCHANGED <<content, generation, proof, confirmed>>
    BY <1>1 DEF Prepare
  <2>2. ReceiptGeneration' /\ ProofOlder' /\ MaintenanceSteps' /\ ReceiptHonest' /\ Confirmed'
    BY <2>1 DEF ReceiptGeneration, ProofOlder, MaintenanceSteps, ReceiptHonest, Confirmed, Committed
  <2>3. OneGeneration'
    <3>1. CASE FenceDown
      BY <2>1, <3>1 DEF OneGeneration
    <3>2. CASE ~ FenceDown
      BY <1>1, <2>1, <3>2 DEF OneGeneration, ReceiptHonest, NothingRemains, Prepare, FenceDown,
                              Absent, Evidence
    <3> QED BY <3>1, <3>2
  <2> QED BY <2>2, <2>3 DEF DeletionRest
<1>2. CASE Finalize \/ Resume
  <2>1. /\ mpc' = "drive" /\ UNCHANGED <<content, generation, receipt, proof, ops>>
        /\ \/ confirmed' = confirmed \cup {receipt.id}
           \/ confirmed' = confirmed /\ Committed
        /\ confirmed' \subseteq 1 .. ops
    BY <1>2 DEF Finalize, Resume, Seize, Confirms, Confirmed
  <2>2. FenceDown' = FenceDown /\ Committed' = Committed /\ (NothingRemains <=> NothingRemains')
    BY <2>1 DEF FenceDown, Committed, NothingRemains
  <2>3. ReceiptGeneration' /\ ProofOlder' /\ MaintenanceSteps' /\ Confirmed'
    BY <2>1, <2>2 DEF ReceiptGeneration, Incremented, ProofOlder, MaintenanceSteps, Confirmed
  <2>4. ReceiptHonest' /\ OneGeneration'
    BY <2>1, <2>2 DEF ReceiptHonest, OneGeneration
  <2> QED BY <2>3, <2>4 DEF DeletionRest
<1> QED BY <1>1, <1>2

\* The commit and the increment: the store is closed with the evidence that was
\* previewed.
LEMMA CommitInv ==
  ASSUME DeletionInv, Abort \/ Reinventory \/ Commit \/ Increment \/ BeginDeleting
  PROVE  DeletionRest'
<1> DEFINE Part == ReceiptGeneration /\ ProofOlder /\ MaintenanceSteps /\ Confirmed
<1>1. /\ receipt \in Receipt /\ generation \in Nat /\ receipt.generation \in Nat
      /\ content \in [Files -> Content] /\ Evidence \subseteq Files
      /\ ReceiptGeneration /\ ProofOlder /\ MaintenanceSteps /\ ReceiptHonest /\ Confirmed
      /\ OneGeneration
      /\ receipt.state \in {"Prepared", "CommitIntent"} => receipt.deleted = {}
  BY ProjectionFile DEF DeletionInv, TypeOK, Receipt
<1>2. CASE Abort \/ Reinventory
  <2>1. UNCHANGED <<content, generation, receipt, proof, ops, confirmed>>
    BY <1>2 DEF Abort, Reinventory
  <2>2. \/ mpc' = "idle"
        \/ mpc' = "commit" /\ mpc = "drive" /\ receipt.state = "Prepared" /\ content = receipt.preview
    BY <1>2 DEF Abort, Reinventory, Leave, Unchanged
  <2>3. FenceDown' = FenceDown /\ Committed' = Committed /\ NothingRemains' = NothingRemains
    BY <2>1 DEF FenceDown, Committed, NothingRemains
  <2>4. ReceiptGeneration' /\ ProofOlder' /\ OneGeneration' /\ ReceiptHonest'
    BY <1>1, <2>1, <2>3 DEF ReceiptGeneration, Incremented, ProofOlder, OneGeneration, ReceiptHonest
  <2>5. MaintenanceSteps' /\ Confirmed'
    BY <1>1, <2>1, <2>2, <2>3 DEF MaintenanceSteps, Confirmed
  <2> QED BY <2>4, <2>5 DEF DeletionRest
<1>3. CASE Commit
  <2>1. /\ receipt' = [receipt EXCEPT !.state = "CommitIntent"] /\ mpc' = "drive" /\ mpc = "commit"
        /\ UNCHANGED <<content, generation, proof, ops, confirmed>>
    BY <1>3 DEF Commit
  <2>2. /\ receipt'.state = "CommitIntent" /\ receipt'.id = receipt.id
        /\ receipt'.generation = receipt.generation /\ receipt'.preview = receipt.preview
        /\ receipt.state = "Prepared" /\ \A f \in Evidence : content[f] = receipt.preview[f]
    BY <1>1, <2>1 DEF Receipt, MaintenanceSteps
  <2>3. ReceiptGeneration' /\ ProofOlder' /\ MaintenanceSteps' /\ Confirmed'
    BY <1>1, <2>1, <2>2 DEF ReceiptGeneration, ProofOlder, MaintenanceSteps, Confirmed
  <2>4. ReceiptHonest' /\ OneGeneration'
    BY <2>1, <2>2 DEF ReceiptHonest, OneGeneration, FenceDown
  <2> QED BY <2>3, <2>4 DEF DeletionRest
<1>4. CASE Increment
  <2>1. /\ receipt.state = "CommitIntent" /\ mpc = "drive" /\ generation = receipt.generation
        /\ generation' = generation + 1
        /\ UNCHANGED <<content, receipt, proof, ops, confirmed, mpc>>
    BY <1>4 DEF Increment
  <2>2. ReceiptGeneration' /\ ProofOlder' /\ MaintenanceSteps' /\ Confirmed'
    BY <1>1, <2>1 DEF ReceiptGeneration, Incremented, ProofOlder, MaintenanceSteps, Confirmed, Committed
  <2>3. ReceiptHonest' /\ OneGeneration'
    BY <1>1, <2>1 DEF ReceiptHonest, OneGeneration, FenceDown
  <2> QED BY <2>2, <2>3 DEF DeletionRest
<1>5. CASE BeginDeleting
  <2>1. /\ receipt' = [receipt EXCEPT !.state = "Deleting"] /\ mpc' = "next" /\ mpc = "drive"
        /\ receipt.state \in {"CommitIntent", "Deleting", "PartialFailure"}
        /\ generation = receipt.generation + 1
        /\ UNCHANGED <<content, generation, proof, ops, confirmed>>
    BY <1>5 DEF BeginDeleting
  <2>2. /\ receipt'.state = "Deleting" /\ receipt'.id = receipt.id
        /\ receipt'.generation = receipt.generation /\ receipt'.preview = receipt.preview
        /\ receipt'.deleted = receipt.deleted
    BY <1>1, <2>1 DEF Receipt
  <2>3. ReceiptGeneration' /\ ProofOlder' /\ MaintenanceSteps' /\ Confirmed'
    BY <1>1, <2>1, <2>2 DEF ReceiptGeneration, Incremented, ProofOlder, MaintenanceSteps, Confirmed
  <2>4. ReceiptHonest' /\ OneGeneration'
    BY <1>1, <2>1, <2>2 DEF ReceiptHonest, OneGeneration, FenceDown
  <2> QED BY <2>3, <2>4 DEF DeletionRest
<1> QED BY <1>2, <1>3, <1>4, <1>5

\* The deletion loop: each previewed file is as previewed until it is gone.
LEMMA LoopInv ==
  ASSUME DeletionInv, Compare \/ Unlink \/ Record
  PROVE  DeletionRest'
<1>1. /\ receipt \in Receipt /\ generation \in Nat /\ receipt.generation \in Nat
      /\ content \in [Files -> Content] /\ Evidence \subseteq Files
      /\ ReceiptGeneration /\ ProofOlder /\ MaintenanceSteps /\ ReceiptHonest /\ Confirmed
      /\ receipt.state = "Deleting" /\ mpc # "idle"
  BY ProjectionFile DEF DeletionInv, TypeOK, Receipt, Compare, Unlink, Record, MaintenanceSteps
<1>2. Incremented /\ Committed /\ receipt.id \in confirmed
  BY <1>1 DEF ReceiptGeneration, Committed, Confirmed
<1>3. UNCHANGED <<generation, proof, ops, confirmed>>
  BY DEF Compare, Unlink, Record
<1>4. ASSUME UNCHANGED receipt PROVE Left' = Left /\ Item' = Item
  <2>1. Left' = Left
    BY <1>4 DEF Left
  <2> QED BY <2>1 DEF Item
<1>5. receipt' = [receipt EXCEPT !.state = "PartialFailure"] =>
         /\ receipt'.state = "PartialFailure" /\ receipt'.id = receipt.id
         /\ receipt'.generation = receipt.generation /\ receipt'.preview = receipt.preview
         /\ receipt'.deleted = receipt.deleted
  BY <1>1 DEF Receipt
<1>6. CASE Compare
  <2>1. /\ UNCHANGED content
        /\ \/ mpc' = "record" /\ Left # {} /\ content[Item] = Absent /\ UNCHANGED receipt
           \/ mpc' = "unlink" /\ Left # {} /\ content[Item] = receipt.preview[Item] /\ UNCHANGED receipt
           \/ mpc' = "idle" /\ receipt' = [receipt EXCEPT !.state = "PartialFailure"]
    BY <1>6 DEF Compare, Leave
  <2>2. CASE UNCHANGED receipt
    <3>1. ReceiptGeneration' /\ ProofOlder' /\ Confirmed' /\ ReceiptHonest' /\ OneGeneration'
      BY <1>1, <1>2, <1>3, <2>1, <2>2 DEF ReceiptGeneration, Incremented, ProofOlder, Confirmed,
         ReceiptHonest, OneGeneration, FenceDown
    <3>2. MaintenanceSteps'
      BY <1>1, <1>4, <2>1, <2>2 DEF MaintenanceSteps
    <3> QED BY <3>1, <3>2 DEF DeletionRest
  <2>3. CASE mpc' = "idle" /\ receipt' = [receipt EXCEPT !.state = "PartialFailure"]
    <3>1. ReceiptGeneration' /\ ProofOlder' /\ Confirmed' /\ MaintenanceSteps'
      BY <1>1, <1>2, <1>3, <1>5, <2>3 DEF ReceiptGeneration, Incremented, ProofOlder, Confirmed,
         MaintenanceSteps
    <3>2. ReceiptHonest' /\ OneGeneration'
      BY <1>1, <1>5, <2>1, <2>3 DEF ReceiptHonest, OneGeneration, FenceDown
    <3> QED BY <3>1, <3>2 DEF DeletionRest
  <2> QED BY <2>1, <2>2, <2>3
<1>7. CASE Unlink
  <2>1. /\ mpc = "unlink" /\ mpc' = "record" /\ content' = [content EXCEPT ![Item] = Absent]
        /\ UNCHANGED receipt
    BY <1>7 DEF Unlink
  <2>2. Left # {} /\ Item \in Files
    BY <1>1, <2>1, ItemLeft, LeftFiles DEF MaintenanceSteps
  <2>3. content'[Item] = Absent /\ \A f \in Evidence : content'[f] \in {Absent, content[f]}
    BY <1>1, <2>1, <2>2
  <2>4. ReceiptGeneration' /\ ProofOlder' /\ Confirmed'
    BY <1>1, <1>2, <1>3, <2>1 DEF ReceiptGeneration, Incremented, ProofOlder, Confirmed
  <2>5. MaintenanceSteps'
    BY <1>1, <1>4, <2>1, <2>2, <2>3 DEF MaintenanceSteps
  <2>6. ReceiptHonest' /\ OneGeneration'
    BY <1>1, <2>1, <2>3 DEF ReceiptHonest, OneGeneration, FenceDown
  <2> QED BY <2>4, <2>5, <2>6 DEF DeletionRest
<1>8. CASE Record
  <2>1. /\ mpc = "record" /\ mpc' = "next" /\ UNCHANGED content
        /\ receipt' = [receipt EXCEPT !.deleted = receipt.deleted \cup {Item}]
    BY <1>8 DEF Record
  <2>2. /\ receipt'.state = "Deleting" /\ receipt'.id = receipt.id
        /\ receipt'.generation = receipt.generation /\ receipt'.preview = receipt.preview
        /\ receipt'.deleted = receipt.deleted \cup {Item}
    BY <1>1, <2>1 DEF Receipt
  <2>3. Item \in Evidence => content[Item] = Absent
    BY <1>1, <2>1 DEF MaintenanceSteps
  <2>4. ReceiptGeneration' /\ ProofOlder' /\ Confirmed' /\ MaintenanceSteps'
    BY <1>1, <1>2, <1>3, <2>1, <2>2 DEF ReceiptGeneration, Incremented, ProofOlder, Confirmed,
       MaintenanceSteps
  <2>5. ReceiptHonest' /\ OneGeneration'
    BY <1>1, <2>1, <2>2, <2>3 DEF ReceiptHonest, OneGeneration, FenceDown
  <2> QED BY <2>4, <2>5 DEF DeletionRest
<1> QED BY <1>6, <1>7, <1>8

\* The end of a deletion: what it leaves behind the fence is an empty store.
LEMMA CompletionInv ==
  ASSUME DeletionInv, Recreate \/ Complete \/ Prove
  PROVE  DeletionRest'
<1>1. /\ receipt \in Receipt /\ generation \in Nat /\ receipt.generation \in Nat
      /\ ReceiptGeneration /\ ProofOlder /\ MaintenanceSteps /\ ReceiptHonest /\ Confirmed
      /\ OneGeneration /\ Evidence \subseteq Files /\ mpc # "idle"
      /\ receipt.id \in confirmed /\ proof \in Nat /\ receipt.id \in Nat /\ ops \in Nat
  BY ProjectionFile DEF DeletionInv, TypeOK, Receipt, Recreate, Complete, Prove, Confirmed
<1>2. /\ \A f \in Files : content'[f].data = content[f].data
      /\ \A f \in Evidence : content'[f] = content[f]
  <2>1. Maintain /\ ~ Unlink
    BY DEF Maintain, Recreate, Complete, Prove, Unlink
  <2> QED BY <2>1, MaintainContent DEF DeletionInv
<1>3. NothingRemains' <=> NothingRemains
  BY <1>2, ProjectionFile DEF NothingRemains
<1>4. UNCHANGED <<generation, ops, confirmed>>
  BY DEF Recreate, Complete, Prove
<1>5. CASE Recreate
  <2>1. mpc' = "complete" /\ Left = {} /\ receipt.state = "Deleting" /\ UNCHANGED <<receipt, proof>>
    BY <1>1, <1>5 DEF Recreate, MaintenanceSteps
  <2>2. Left' = {}
    BY <2>1 DEF Left
  <2>3. ReceiptGeneration' /\ ProofOlder' /\ Confirmed' /\ MaintenanceSteps'
    BY <1>1, <1>4, <2>1, <2>2 DEF ReceiptGeneration, Incremented, ProofOlder, Confirmed, MaintenanceSteps
  <2>4. ReceiptHonest' /\ OneGeneration'
    BY <1>1, <1>2, <2>1 DEF ReceiptHonest, OneGeneration, FenceDown
  <2> QED BY <2>3, <2>4 DEF DeletionRest
<1>6. CASE Complete
  <2>1. /\ mpc' = "drive" /\ receipt.state = "Deleting" /\ NothingRemains /\ UNCHANGED proof
        /\ receipt' = [receipt EXCEPT !.state = "Complete"]
    BY <1>1, <1>6 DEF Complete, MaintenanceSteps
  <2>2. /\ receipt'.state = "Complete" /\ receipt'.id = receipt.id
        /\ receipt'.generation = receipt.generation
    BY <1>1, <2>1 DEF Receipt
  <2>3. ReceiptGeneration' /\ ProofOlder' /\ Confirmed' /\ MaintenanceSteps'
    BY <1>1, <1>4, <2>1, <2>2 DEF ReceiptGeneration, Incremented, ProofOlder, Confirmed, MaintenanceSteps
  <2>4. ReceiptHonest' /\ OneGeneration'
    BY <1>1, <1>3, <1>4, <2>1, <2>2 DEF ReceiptHonest, OneGeneration, FenceDown, ReceiptGeneration,
       ProofOlder
  <2> QED BY <2>3, <2>4 DEF DeletionRest
<1>7. CASE Prove
  <2>1. /\ mpc' = "idle" /\ receipt.state = "Complete" /\ UNCHANGED receipt
        /\ \/ proof' = receipt.id /\ NothingRemains
           \/ proof' = proof /\ UNCHANGED content
    BY <1>7 DEF Prove, Leave
  <2>2. ReceiptGeneration' /\ ProofOlder' /\ Confirmed' /\ MaintenanceSteps'
    BY <1>1, <1>4, <2>1 DEF ReceiptGeneration, Incremented, ProofOlder, Confirmed, MaintenanceSteps
  <2>3. ReceiptHonest' /\ OneGeneration'
    <3>1. CASE proof' = receipt.id /\ NothingRemains
      <4>1. \A f \in Files : content'[f].data = 0
        BY <1>2, <3>1 DEF NothingRemains, Evidence, Absent
      <4> QED BY <1>3, <2>1, <3>1, <4>1 DEF ReceiptHonest, OneGeneration
    <3>2. CASE proof' = proof
      BY <1>1, <1>2, <1>3, <1>4, <2>1, <3>2 DEF ReceiptHonest, OneGeneration, FenceDown
    <3> QED BY <2>1, <3>1, <3>2
  <2> QED BY <2>2, <2>3 DEF DeletionRest
<1> QED BY <1>5, <1>6, <1>7

LEMMA DeletionInit == Init => DeletionInv
<1> SUFFICES ASSUME Init PROVE DeletionInv
  OBVIOUS
<1>1. TypeOK
  BY TypeInit
<1>2. ReceiptGeneration /\ ProofOlder /\ MaintenanceSteps /\ ReceiptHonest /\ Confirmed
  BY DEF Init, NoReceipt, ReceiptGeneration, ProofOlder, MaintenanceSteps, ReceiptHonest, Confirmed,
         Committed
<1>3. ActiveCurrent /\ OneGeneration
  BY DEF Init, ActiveCurrent, OneGeneration, Absent
<1> QED BY <1>1, <1>2, <1>3 DEF DeletionInv

LEMMA DeletionStep == DeletionInv /\ [Next]_vars => DeletionInv'
<1> SUFFICES ASSUME DeletionInv, [Next]_vars PROVE DeletionInv'
  OBVIOUS
<1>1. ASSUME NEW c \in Clients, Client(c) PROVE DeletionInv'
  BY <1>1, ClientInv
<1>2. CASE Maintain
  <2>1. DeletionRest'
    BY <1>2, PrepareInv, CommitInv, LoopInv, CompletionInv DEF Maintain
  <2> QED BY <1>2, <2>1, MaintainRest DEF DeletionRest, DeletionInv
<1>3. CASE UNCHANGED vars
  BY <1>3 DEF vars, locks, client, DeletionInv, TypeOK, ReceiptGeneration, Incremented, ProofOlder,
     MaintenanceSteps, ReceiptHonest, Confirmed, ActiveCurrent, OneGeneration, Left, Item, FenceDown,
     Committed, Current, NothingRemains
<1> QED BY <1>1, <1>2, <1>3 DEF Next, Client, Maintain

\* Every variable keeps its type, and a completed receipt lists nothing that is left.
THEOREM TypeCorrect == Spec => []TypeOK
<1>1. DeletionInv => TypeOK
  BY DEF DeletionInv
<1> QED BY <1>1, DeletionInit, DeletionStep, PTL DEF Spec

-----------------------------------------------------------------------------
(* Generations                                                              *)

ConfirmationsFinite == IsFiniteSet(confirmed) /\ IsFiniteSet(Spent)

LEMMA ConfirmedFinite == DeletionInv => ConfirmationsFinite
<1> SUFFICES ASSUME DeletionInv PROVE IsFiniteSet(confirmed) /\ IsFiniteSet(Spent)
  BY DEF ConfirmationsFinite
<1>1. IsFiniteSet(1 .. ops) /\ confirmed \subseteq 1 .. ops
  BY FS_Interval DEF DeletionInv, TypeOK, Confirmed
<1>2. IsFiniteSet(confirmed)
  BY <1>1, FS_Subset
<1>3. Spent \subseteq confirmed
  BY DEF Spent
<1> QED BY <1>2, <1>3, FS_Subset

\* Only the increment uses up a confirmation.
LEMMA SpentGrows ==
  ASSUME DeletionInv, [Next]_vars, ~ Increment
  PROVE  generation' = generation /\ Spent \subseteq Spent'
<1>1. /\ receipt \in Receipt /\ generation \in Nat /\ receipt.generation \in Nat /\ ops \in Nat
      /\ ReceiptGeneration /\ MaintenanceSteps /\ confirmed \subseteq 1 .. ops
  BY DEF DeletionInv, TypeOK, Receipt, Confirmed
<1>2. ASSUME UNCHANGED <<receipt, generation>>, confirmed \subseteq confirmed'
      PROVE  generation' = generation /\ Spent \subseteq Spent'
  BY <1>2 DEF Spent
<1>3. ASSUME NEW c \in Clients, Client(c) PROVE generation' = generation /\ Spent \subseteq Spent'
  BY <1>2, <1>3, ClientFrame
<1>4. CASE Finalize \/ Resume \/ Abort \/ Reinventory \/ Unlink \/ Recreate \/ Prove
  <2>1. UNCHANGED <<receipt, generation>> /\ confirmed \subseteq confirmed'
    BY <1>4 DEF Finalize, Resume, Abort, Reinventory, Unlink, Recreate, Prove
  <2> QED BY <1>2, <2>1
<1>5. CASE Prepare
  <2>1. /\ receipt'.state = "Prepared" /\ receipt'.id = ops + 1 /\ UNCHANGED <<generation, confirmed>>
    BY <1>5 DEF Prepare
  <2>2. ops + 1 \notin confirmed
    BY <1>1
  <2> QED BY <2>1, <2>2 DEF Spent
<1>6. CASE Commit
  <2>1. /\ receipt.state = "Prepared" /\ generation = receipt.generation
        /\ receipt' = [receipt EXCEPT !.state = "CommitIntent"] /\ UNCHANGED <<generation, confirmed>>
    BY <1>1, <1>6 DEF Commit, MaintenanceSteps, ReceiptGeneration
  <2>2. receipt'.id = receipt.id
    BY <1>1, <2>1 DEF Receipt
  <2> QED BY <2>1, <2>2 DEF Spent
<1>7. CASE BeginDeleting \/ Compare \/ Record \/ Complete
  <2>1. /\ receipt.state \in {"CommitIntent", "Deleting", "PartialFailure"}
        /\ generation = receipt.generation + 1
    BY <1>1, <1>7 DEF BeginDeleting, Compare, Record, Complete, MaintenanceSteps, ReceiptGeneration,
                      Incremented
  <2>2. receipt'.state \in {"Deleting", "PartialFailure", "Complete"}
    BY <1>1, <1>7, <2>1 DEF BeginDeleting, Compare, Record, Complete, MaintenanceSteps, Receipt
  <2>3. UNCHANGED <<generation, confirmed>>
    BY <1>7 DEF BeginDeleting, Compare, Record, Complete
  <2> QED BY <1>1, <2>1, <2>2, <2>3 DEF Spent
<1>8. CASE UNCHANGED vars
  BY <1>2, <1>8 DEF vars
<1> QED BY <1>3, <1>4, <1>5, <1>6, <1>7, <1>8 DEF Next, Client

LEMMA IncrementsStep ==
  ASSUME DeletionInv, ConfirmationsFinite, ConfirmationsFinite', IncrementsConfirmed, [Next]_vars
  PROVE  IncrementsConfirmed'
<1>1. /\ IsFiniteSet(Spent) /\ IsFiniteSet(Spent') /\ IsFiniteSet(confirmed)
      /\ Cardinality(Spent) \in Nat /\ Cardinality(Spent') \in Nat
      /\ generation \in Nat
  BY FS_CardinalityType DEF ConfirmationsFinite, DeletionInv, TypeOK
<1>2. CASE Increment
  <2>1. /\ receipt.state = "CommitIntent" /\ generation = receipt.generation
        /\ generation' = generation + 1 /\ UNCHANGED <<receipt, confirmed>>
        /\ receipt.id \in confirmed
    BY <1>2 DEF Increment, DeletionInv, Confirmed, Committed
  <2>2. Spent = confirmed \ {receipt.id} /\ Spent' = confirmed
    BY <1>1, <2>1 DEF Spent
  <2>3. Cardinality(Spent) = Cardinality(confirmed) - 1 /\ Cardinality(confirmed) \in Nat
    BY <1>1, <2>1, <2>2, FS_RemoveElement, FS_CardinalityType
  <2> QED BY <1>1, <2>1, <2>2, <2>3 DEF IncrementsConfirmed
<1>3. CASE ~ Increment
  <2>1. generation' = generation /\ Cardinality(Spent) <= Cardinality(Spent')
    BY <1>1, <1>3, SpentGrows, FS_Subset
  <2> QED BY <1>1, <2>1 DEF IncrementsConfirmed
<1> QED BY <1>2, <1>3

\* While the fence is down the store holds evidence of one generation only, requests
\* run in it undisturbed, and each generation but the first was paid for by a
\* confirmation of its own.
THEOREM GenerationsAlwaysHold == Spec => []GenerationsHold
<1> DEFINE Inv == DeletionInv /\ IncrementsConfirmed
<1>1. Init => Inv
  <2> SUFFICES ASSUME Init PROVE IncrementsConfirmed
    BY DeletionInit
  <2>1. generation = 1 /\ Spent = {}
    BY DEF Init, Spent
  <2> QED BY <2>1, FS_EmptySet DEF IncrementsConfirmed
<1>2. DeletionInv /\ ConfirmationsFinite /\ ConfirmationsFinite' /\ IncrementsConfirmed /\ [Next]_vars
        => IncrementsConfirmed'
  BY IncrementsStep
<1>3. Inv => GenerationsHold
  <2> SUFFICES ASSUME Inv PROVE GenerationsHold
    OBVIOUS
  <2>1. ActiveUndisturbed
    BY DEF DeletionInv, ActiveCurrent, OneGeneration, ActiveUndisturbed, Current
  <2>2. OneGenerationPerDeletion
    <3>1. /\ IsFiniteSet(confirmed) /\ Spent \subseteq confirmed /\ generation \in Nat
          /\ Cardinality(Spent) \in Nat /\ Cardinality(confirmed) \in Nat
      BY ConfirmedFinite, FS_CardinalityType DEF ConfirmationsFinite, Spent, DeletionInv, TypeOK
    <3>2. Cardinality(Spent) <= Cardinality(confirmed)
      BY <3>1, FS_Subset
    <3> QED BY <3>1, <3>2 DEF IncrementsConfirmed, OneGenerationPerDeletion
  <2> QED BY <2>1, <2>2 DEF GenerationsHold, DeletionInv
<1> QED BY <1>1, <1>2, <1>3, DeletionStep, ConfirmedFinite, PTL DEF Spec

-----------------------------------------------------------------------------
(* What is deleted                                                          *)

\* A write leaves contents with a revision of their own, which no absent file has.
LEMMA WriteKeeps ==
  ASSUME TypeOK, NEW c \in Clients, Write(c), NEW f \in Evidence
  PROVE  content'[f] = content[f] \/ content'[f] # Absent
<1>1. PICK e \in Evidence :
        content' = [content EXCEPT
           ![e] = [data |-> handle[c], row |-> 0, rev |-> writes'],
           ![Projection] = [@ EXCEPT !.data = handle[c], !.rev = writes']]
  BY DEF Write
<1>2. writes' = writes + 1 /\ writes \in Nat
  BY DEF Write, TypeOK
<1>3. content \in [Files -> Content] /\ f \in Files /\ f # Projection
  BY ProjectionFile DEF TypeOK
<1>4. CASE f = e
  <2>1. content'[f].rev = writes'
    BY <1>1, <1>3, <1>4
  <2> QED BY <1>2, <2>1 DEF Absent
<1>5. CASE f # e
  BY <1>1, <1>3, <1>5
<1> QED BY <1>4, <1>5

LEMMA EvidenceFrozen == DeletionInv => CommittedEvidenceFrozen
<1> SUFFICES ASSUME DeletionInv, Committed, ~ FenceDown, NEW f \in Evidence
             PROVE  content[f] \in {Absent, receipt.preview[f]}
  BY DEF CommittedEvidenceFrozen
<1>1. receipt.state \in {"CommitIntent", "Deleting", "PartialFailure", "Complete"}
  BY DEF DeletionInv, TypeOK, Receipt, States, Committed
<1> QED BY <1>1 DEF DeletionInv, ReceiptHonest, NothingRemains

LEMMA DeletedStep ==
  ASSUME DeletionInv, [Next]_vars
  PROVE  OnlyConfirmedDeleted
<1> SUFFICES ASSUME NEW f \in Evidence, content[f] # Absent, content'[f] = Absent
             PROVE  content[f] = receipt.preview[f] /\ receipt.id \in confirmed
  BY DEF OnlyConfirmedDeleted
<1>1. CASE Unlink
  <2>1. mpc = "unlink" /\ content' = [content EXCEPT ![Item] = Absent]
    BY <1>1 DEF Unlink
  <2>2. f = Item
    BY <2>1, ProjectionFile DEF DeletionInv, TypeOK
  <2> QED BY <2>1, <2>2 DEF DeletionInv, MaintenanceSteps, Confirmed
<1>2. ASSUME NEW c \in Clients, Client(c) PROVE FALSE
  BY <1>2, ClientContent, WriteKeeps DEF DeletionInv
<1>3. CASE Maintain /\ ~ Unlink
  BY <1>3, MaintainContent DEF DeletionInv
<1>4. CASE UNCHANGED vars
  BY <1>4 DEF vars
<1> QED BY <1>1, <1>2, <1>3, <1>4 DEF Next, Client, Maintain

\* From the intent to the proof no evidence file changes or appears, and each one
\* removed was removed as the user had confirmed it.
THEOREM DeletedOnlyAsConfirmed == Spec => DeletedAsConfirmed
<1>1. DeletionInv /\ [Next]_vars => OnlyConfirmedDeleted
  BY DeletedStep
<1> QED BY <1>1, EvidenceFrozen, DeletionInit, DeletionStep, PTL DEF Spec, DeletedAsConfirmed

-----------------------------------------------------------------------------
(* Atomicity                                                                *)

\* What the clients find: the evidence, or a closed store.
Store == IF FenceDown THEN [f \in Evidence |-> content[f]] ELSE Maintenance

\* The fence comes down in front of an empty store only.
LEMMA FenceOpens ==
  ASSUME DeletionInv, Maintain, ~ FenceDown, FenceDown'
  PROVE  NothingRemains
<1>1. /\ receipt \in Receipt /\ ProofOlder /\ ReceiptHonest /\ ReceiptGeneration /\ MaintenanceSteps
      /\ receipt.state \in {"CommitIntent", "Deleting", "PartialFailure", "Complete"}
      /\ receipt.id \in Nat /\ proof \in Nat
  BY DEF DeletionInv, TypeOK, Receipt, States, FenceDown
<1>2. CASE Prepare
  BY <1>1, <1>2 DEF Prepare, ReceiptHonest
<1>3. CASE Prove
  BY <1>1, <1>3 DEF Prove, FenceDown
<1>4. CASE Complete
  BY <1>4 DEF Complete
<1>5. CASE Commit \/ BeginDeleting \/ Compare
  <2>1. \/ UNCHANGED <<receipt, proof, generation>>
        \/ receipt'.state \in {"CommitIntent", "Deleting", "PartialFailure"}
    BY <1>1, <1>5 DEF Commit, BeginDeleting, Compare, Receipt
  <2> QED BY <2>1 DEF FenceDown
<1>6. CASE Record
  <2>1. receipt.state = "Deleting" /\ receipt'.state = receipt.state
    BY <1>1, <1>6 DEF Record, MaintenanceSteps, Receipt
  <2> QED BY <2>1 DEF FenceDown
<1>7. CASE Increment
  BY <1>7 DEF Increment, FenceDown
<1>8. CASE Finalize \/ Resume \/ Abort \/ Reinventory \/ Unlink \/ Recreate
  <2>1. UNCHANGED <<receipt, proof, generation>>
    BY <1>8 DEF Finalize, Resume, Abort, Reinventory, Unlink, Recreate
  <2> QED BY <2>1 DEF FenceDown
<1> QED BY <1>2, <1>3, <1>4, <1>5, <1>6, <1>7, <1>8 DEF Maintain

\* Each step changes a file of the open store, closes it, opens it empty, or is not
\* seen by the clients.
LEMMA StoreStep ==
  ASSUME DeletionInv, [Next]_vars
  PROVE  \/ Store' = Store
         \/ /\ Store # Maintenance /\ Store' \in [Evidence -> Content]
            /\ \E f \in Evidence : \A g \in Evidence \ {f} : Store'[g] = Store[g]
         \/ Store # Maintenance /\ Store' = Maintenance
         \/ Store = Maintenance /\ Store' = [f \in Evidence |-> Absent]
<1>1. content \in [Files -> Content] /\ Evidence \subseteq Files
  BY ProjectionFile DEF DeletionInv, TypeOK
<1>2. [f \in Evidence |-> content[f]] \in [Evidence -> Content]
  BY <1>1
<1>3. FenceDown => Store # Maintenance
  BY <1>2, ClosedAssumption DEF Store
<1>4. ASSUME NEW c \in Clients, Write(c)
      PROVE  /\ Store # Maintenance /\ Store' \in [Evidence -> Content]
             /\ \E f \in Evidence : \A g \in Evidence \ {f} : Store'[g] = Store[g]
  <2>1. PICK e \in Evidence :
          content' = [content EXCEPT
             ![e] = [data |-> handle[c], row |-> 0, rev |-> writes'],
             ![Projection] = [@ EXCEPT !.data = handle[c], !.rev = writes']]
    BY <1>4 DEF Write
  <2>2. FenceDown /\ FenceDown'
    BY <1>4, WriteInFence DEF DeletionInv, Write, FenceDown
  <2>3. \A g \in Evidence \ {e} : content'[g] = content[g]
    BY <1>1, <2>1, ProjectionFile
  <2>4. content' \in [Files -> Content]
    BY <1>4, ClientContent DEF Client, DeletionInv
  <2>5. Store' \in [Evidence -> Content] /\ \A g \in Evidence \ {e} : Store'[g] = Store[g]
    BY <1>1, <2>2, <2>3, <2>4 DEF Store
  <2> QED BY <1>3, <2>2, <2>5
<1>5. ASSUME FenceDown' <=> FenceDown, \A f \in Evidence : content'[f] = content[f]
      PROVE  Store' = Store
  BY <1>5 DEF Store
<1>6. ASSUME NEW c \in Clients, Client(c), ~ Write(c) PROVE Store' = Store
  <2>1. FenceDown' <=> FenceDown
    BY <1>6, ClientFrame DEF FenceDown
  <2> QED BY <1>5, <1>6, <2>1, ClientContent DEF DeletionInv
<1>7. CASE Unlink
  <2>1. ~ FenceDown /\ ~ FenceDown'
    BY <1>7 DEF Unlink, DeletionInv, MaintenanceSteps, FenceDown
  <2> QED BY <2>1 DEF Store
<1>8. CASE Maintain /\ ~ Unlink
  <2>1. \A f \in Evidence : content'[f] = content[f]
    BY <1>8, MaintainContent DEF DeletionInv
  <2>2. CASE FenceDown /\ ~ FenceDown'
    BY <1>3, <2>2 DEF Store
  <2>3. CASE ~ FenceDown /\ FenceDown'
    <3>1. \A f \in Evidence : content'[f] = Absent
      BY <1>8, <2>1, <2>3, FenceOpens DEF NothingRemains
    <3> QED BY <2>3, <3>1 DEF Store
  <2> QED BY <1>5, <2>1, <2>2, <2>3
<1>9. CASE UNCHANGED vars
  BY <1>9 DEF vars, Store, FenceDown
<1> QED BY <1>4, <1>6, <1>7, <1>8, <1>9 DEF Next, Client, Maintain

\* To the clients a deletion is atomic, however often it is interrupted.
THEOREM DeletionIsAtomic == Spec => ImplementsAtomicDeletion
<1>1. Init => Atomic!Init
  <2> SUFFICES ASSUME Init PROVE Store = [f \in Evidence |-> Absent]
    BY DEF Atomic!Init, Atomic!Empty, Store
  <2>1. FenceDown /\ \A f \in Evidence : content[f] = Absent
    BY ProjectionFile DEF Init, FenceDown, NoReceipt
  <2> QED BY <2>1 DEF Store
<1>2. DeletionInv /\ [Next]_vars => [Atomic!Next]_Store
  BY StoreStep DEF Store, Atomic!Next, Atomic!Change, Atomic!Shut, Atomic!Reopen, Atomic!Empty
<1> QED BY <1>1, <1>2, DeletionInit, DeletionStep, PTL
    DEF Spec, ImplementsAtomicDeletion, Atomic!Spec, Store
===============================================================================
