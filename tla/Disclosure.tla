----------------------------- MODULE Disclosure -----------------------------
(* Disclosure grants and derived artifacts: receipts/disclosure-grants.json with *)
(* its grants, cursors and write receipts, the sessions of the MCP processes that *)
(* hold its lock (receipts.rs, service.rs), the immutable revision files of an *)
(* artifact with their projection (artifacts.rs, projection.rs), and what a kill, *)
(* a failed step, a power loss or a lost index leaves of them. *)
(* One artifact and one store generation; an instant is also the bucket it lies *)
(* in. A request that is refused changes nothing and is not a step, except when *)
(* refusing it stores that the grant has expired. *)
EXTENDS Integers, FiniteSets

CONSTANTS
  Grants, Scope,             \* the buckets a grant opens
  IssuedAt, ExpiresAt,       \* the instants it begins and ends
  Allowance,                 \* responses a grant may disclose in all
  MaxCursors, MaxReceipts,   \* limits of the document
  CursorLife,
  Revisions, PriorOf, StatusOf, Evidence, NoRevision,
  Requests, Writes,          \* [request, grant, revision]: what clients may send
  MaxTime, MaxWait,          \* a request waits at most MaxWait for its locks
  Faults, MaxFaults

ASSUME DisclosureAssumption ==
  /\ Scope \in [Grants -> SUBSET (0..MaxTime)]
  /\ IssuedAt \in [Grants -> 0..MaxTime] /\ ExpiresAt \in [Grants -> 0..MaxTime]
  /\ Allowance \in [Grants -> Nat]
  /\ MaxCursors \in Nat /\ MaxReceipts \in Nat /\ CursorLife \in Nat
  /\ NoRevision \notin Revisions /\ "none" \notin Grants
  /\ PriorOf \in [Revisions -> Revisions \cup {NoRevision}]
  /\ StatusOf \in [Revisions -> {"draft", "accepted", "rejected", "superseded"}]
  /\ Evidence \in [Revisions -> SUBSET (0..MaxTime)]
  /\ Writes \subseteq [request : Requests, grant : Grants, revision : Revisions]
  /\ MaxTime \in Nat /\ MaxWait \in Nat /\ MaxFaults \in Nat
  /\ Faults \subseteq {"fail", "power", "index"}

VARIABLES
  now, boot,    \* the clock, and when the machine was last started
  doc, disk,    \* the document as it is read, and as a power loss may leave it
  files,        \* revision -> who placed its file and its created_at
  synced,       \* the revisions whose directory entry is synced
  index,        \* revision -> created_at of its row in the projection
  session,      \* the request that holds the grant lock
  told,         \* history: responses returned under a grant
  answered,     \* history: writes whose response was returned
  tokens,       \* history: cursors that were returned
  silenced,     \* history: grants whose revocation was acknowledged
  orphaned,     \* history: a power loss took a file whose row is in the projection
  faults

vars == <<now, boot, doc, disk, files, synced, index, session, told, answered, tokens,
          silenced, orphaned, faults>>
history == <<told, answered, tokens, silenced, orphaned>>

Idle == [step |-> "idle"]
Absent == -1
NoFile == [grant |-> "none", created |-> Absent]

GrantState == [state : {"none", "active", "expired", "revoked"}, bytes : Nat]
Cursor == [grant : Grants, until : 0..(MaxTime + CursorLife)]
Document ==
  [grants : [Grants -> GrantState], cursors : SUBSET Cursor, receipts : SUBSET Writes,
   queries : [Grants -> Nat]]  \* queries: history, responses to reads it charged

Init ==
  /\ now = 0 /\ boot = 0
  /\ doc = [grants |-> [g \in Grants |-> [state |-> "none", bytes |-> 0]],
            cursors |-> {}, receipts |-> {}, queries |-> [g \in Grants |-> 0]]
  /\ disk = doc
  /\ files = [r \in Revisions |-> NoFile]
  /\ synced = {}
  /\ index = [r \in Revisions |-> Absent]
  /\ session = Idle
  /\ told = [g \in Grants |-> 0]
  /\ answered = {} /\ tokens = {} /\ silenced = {}
  /\ orphaned = FALSE
  /\ faults = 0

-----------------------------------------------------------------------------
(* Revision files and their projection. *)

Placed == {r \in Revisions : files[r] # NoFile}
Rows == {r \in Revisions : index[r] # Absent}

(* The revision of a set that no other one follows. *)
TipOf(S) ==
  IF S = {} THEN NoRevision ELSE CHOOSE r \in S : \A s \in S : PriorOf[s] # r

(* order_artifact_chains: one root, no branch, no missing parent, no cycle: what is *)
(* left of the files when a part of the chain is taken away has a first one too. *)
Ordered(S) ==
  /\ \A T \in SUBSET S : T # {} => \E r \in T : PriorOf[r] \notin T
  /\ \A r \in S : PriorOf[r] \in S \cup {NoRevision}
  /\ \A r, s \in S : PriorOf[r] = PriorOf[s] => r = s

ValidTransition(current, next) ==
  IF current = NoRevision THEN StatusOf[next] = "draft"
  ELSE \/ StatusOf[current] = "draft"
       \/ StatusOf[current] \in {"accepted", "rejected"}
          /\ StatusOf[next] \in {StatusOf[current], "superseded"}

(* The ranges a revision touches: its evidence and the bucket it was created in. *)
Ranges(r, created) == Evidence[r] \cup {created}

InScope(g, r, created) == Ranges(r, created) \subseteq Scope[g]

(* project_artifact: the row is there with the same bytes, or the row of the *)
(* prior revision is the current one. *)
Projects(r) ==
  \/ index[r] = files[r].created
  \/ index[r] = Absent /\ TipOf(Rows) = PriorOf[r]

(* project_canonical, or, if that fails, a rebuild: every file in chain order. *)
Replayed ==
  LET missing == Placed \ Rows
      attached == \/ missing = {}
                  \/ \E r \in missing : PriorOf[r] = TipOf(Rows) /\ PriorOf[r] \notin missing
  IN IF attached /\ \A r \in Placed \cap Rows : index[r] = files[r].created
     THEN [r \in Revisions |-> IF r \in Placed THEN files[r].created ELSE index[r]]
     ELSE [r \in Revisions |-> files[r].created]

-----------------------------------------------------------------------------
(* The document. *)

IsActive(g, at) ==
  /\ doc.grants[g].state = "active"
  /\ IssuedAt[g] <= at /\ at < ExpiresAt[g]

(* The document a session starts from: what has expired is dropped from it. *)
Loaded(at) == [doc EXCEPT !.cursors = {c \in @ : c.until > at}]

(* stage_disclosed_bytes: one more response under the grant. *)
Affordable(g) == doc.grants[g].bytes < Allowance[g]
Charged(d, g) == [d EXCEPT !.grants[g].bytes = @ + 1]

IssuedCursor(g, at) ==
  [grant |-> g, until |-> IF at + CursorLife < ExpiresAt[g] THEN at + CursorLife ELSE ExpiresAt[g]]

(* The receipts of a write's request ID, whichever grant and revision they name. *)
ReceiptsExact(d, w) == d.receipts \cap {w}
Receipts(d, w) == {v \in d.receipts : v.request = w.request}

Persisted(d, outcome) ==
  /\ doc' = d
  /\ disk' = IF outcome = "done" THEN d ELSE disk

(* atomic_write ends, or fails after the rename and before the directory sync. *)
Outcomes == {"done"} \cup (IF "fail" \in Faults /\ faults < MaxFaults THEN {"renamed"} ELSE {})
Counted(outcome) == faults' = faults + (IF outcome = "done" THEN 0 ELSE 1)

-----------------------------------------------------------------------------
(* The application: grants, recovery. *)

Free == session = Idle

(* GrantReceiptStore::install; an existing grant is never installed again. *)
Install(g) ==
  /\ Free
  /\ doc.grants[g].state = "none"
  /\ IssuedAt[g] <= now
  /\ \E outcome \in Outcomes :
       /\ Persisted([doc EXCEPT !.grants[g] = [state |-> "active", bytes |-> 0]], outcome)
       /\ Counted(outcome)
  /\ UNCHANGED <<now, boot, files, synced, index, session, history>>

(* GrantReceiptStore::revoke, with everything a retry or a page could come back to. *)
RevokeUnlocked(g) ==
  /\ doc.grants[g].state \in {"active", "expired", "revoked"}
  /\ g \notin silenced
  /\ Persisted([doc EXCEPT !.grants[g].state = "revoked",
                           !.cursors = {c \in @ : c.grant # g},
                           !.receipts = {w \in @ : w.grant # g}], "done")
  /\ silenced' = silenced \cup {g}
  /\ UNCHANGED <<now, boot, files, synced, index, session, told, answered, tokens, orphaned, faults>>
Revoke(g) ==
  /\ Free
  /\ doc.grants[g].state \in {"active", "expired", "revoked"}
  /\ g \notin silenced
  /\ \E outcome \in Outcomes :
       /\ Persisted([doc EXCEPT !.grants[g].state = "revoked",
                                !.cursors = {c \in @ : c.grant # g},
                                !.receipts = {w \in @ : w.grant # g}], outcome)
       /\ silenced' = IF outcome = "done" THEN silenced \cup {g} ELSE silenced
       /\ Counted(outcome)
  /\ UNCHANGED <<now, boot, files, synced, index, session, told, answered, tokens, orphaned>>

(* Startup recovery, under the exclusive store lock; a chain that does not order *)
(* stops it. *)
Startup ==
  /\ Free
  /\ Ordered(Placed)
  /\ index # Replayed
  /\ index' = Replayed
  /\ UNCHANGED <<now, boot, doc, disk, files, synced, session, history, faults>>

-----------------------------------------------------------------------------
(* A client's request: begin_query takes the lock, with the instant the request *)
(* was made. *)

Instants == {at \in boot..now : now - at <= MaxWait}

(* A grant that is no longer active ends the request; its expiry is stored. *)
Expire(g) ==
  /\ Free
  /\ doc.grants[g].state = "active"
  /\ \E outcome \in Outcomes, at \in Instants :
       /\ at >= ExpiresAt[g]
       /\ Persisted([Loaded(at) EXCEPT !.grants[g].state = "expired"], outcome)
       /\ Counted(outcome)
  /\ UNCHANGED <<now, boot, files, synced, index, session, history>>

(* What write_derived looks at before it writes: the projected tip and the *)
(* canonical one are within the grant, a file that is there already is this *)
(* revision's, a new one follows the canonical tip and is not older than it. *)
TipsInScopeProjected(g) ==
  TipOf(Rows) # NoRevision => InScope(g, TipOf(Rows), index[TipOf(Rows)])
TipsInScope(g) ==
  /\ TipOf(Rows) # NoRevision => InScope(g, TipOf(Rows), index[TipOf(Rows)])
  /\ TipOf(Placed) # NoRevision /\ TipOf(Placed) # TipOf(Rows)
       => InScope(g, TipOf(Placed), files[TipOf(Placed)].created)

Follows(r, at) ==
  /\ TipOf(Placed) = PriorOf[r]
  /\ TipOf(Placed) # NoRevision => files[TipOf(Placed)].created <= at

CreatedAt(r, at) == IF r \in Placed THEN files[r].created ELSE at

BeginWrite(w, at) ==
  /\ Free
  /\ at \in Instants /\ IsActive(w.grant, at)
  /\ Receipts(doc, w) = {}
  /\ TipsInScope(w.grant)
  /\ w.revision \notin Placed => Follows(w.revision, at)
  /\ InScope(w.grant, w.revision, CreatedAt(w.revision, at))
  /\ Affordable(w.grant)
  /\ Cardinality(doc.receipts) < MaxReceipts
  /\ session' = [step |-> IF w.revision \in Placed THEN "settle" ELSE "place",
                 write |-> w, at |-> CreatedAt(w.revision, at),
                 staged |-> [Charged(Loaded(at), w.grant) EXCEPT !.receipts = @ \cup {w}]]
  /\ UNCHANGED <<now, boot, doc, disk, files, synced, index, history, faults>>

(* write_revision, the new file: rename, then the directory sync. *)
Place ==
  /\ session.step = "place"
  /\ ValidTransition(TipOf(Placed), session.write.revision)
  /\ files' = [files EXCEPT ![session.write.revision] =
                 [grant |-> session.write.grant, created |-> session.at]]
  /\ session' = [session EXCEPT !.step = "settle"]
  /\ UNCHANGED <<now, boot, doc, disk, synced, index, history, faults>>

SettleUnsynced ==
  /\ session.step = "settle"
  /\ session' = [session EXCEPT !.step = "project"]
  /\ UNCHANGED <<now, boot, doc, disk, files, synced, index, history, faults>>
Settle ==
  /\ session.step = "settle"
  /\ synced' = Placed
  /\ session' = [session EXCEPT !.step = "project"]
  /\ UNCHANGED <<now, boot, doc, disk, files, index, history, faults>>

Project ==
  /\ session.step = "project"
  /\ Projects(session.write.revision)
  /\ index' = [index EXCEPT ![session.write.revision] = files[session.write.revision].created]
  /\ session' = [session EXCEPT !.step = "commit"]
  /\ UNCHANGED <<now, boot, doc, disk, files, synced, history, faults>>

(* The revision cannot be written or projected: the response is an error. *)
Conflict ==
  /\ \/ session.step = "place" /\ ~ValidTransition(TipOf(Placed), session.write.revision)
     \/ session.step = "project" /\ ~Projects(session.write.revision)
  /\ session' = Idle
  /\ UNCHANGED <<now, boot, doc, disk, files, synced, index, history, faults>>

(* The exact retry of a write that has its receipt: the response is compared with *)
(* what is stored, the receipt is made durable, nothing is charged. *)
Retry(w, at) ==
  /\ Free
  /\ at \in Instants /\ IsActive(w.grant, at)
  /\ w \in doc.receipts
  /\ w.revision \in Rows /\ InScope(w.grant, w.revision, index[w.revision])
  /\ w.revision \in Placed
  /\ w \notin answered \/ disk # doc
  /\ disk' = doc
  /\ answered' = answered \cup {w}
  /\ UNCHANGED <<now, boot, doc, files, synced, index, session, told, tokens, silenced, orphaned, faults>>

(* A read or an export: authorized, charged, with a cursor if there is more; nothing *)
(* is written before the rename of the commit. *)
Query(g, at, cursor, more) ==
  /\ Free
  /\ at \in Instants /\ IsActive(g, at)
  /\ cursor # {} => \E c \in cursor : c \in Loaded(at).cursors /\ c.grant = g
  /\ Affordable(g)
  /\ more => Cardinality(Loaded(at).cursors) < MaxCursors
  /\ LET issued == IF more THEN {IssuedCursor(g, at)} ELSE {} IN
       /\ doc' = [Charged(Loaded(at), g) EXCEPT !.queries[g] = @ + 1, !.cursors = @ \cup issued]
       /\ session' = [step |-> "answer", grant |-> g, issued |-> issued]
  /\ UNCHANGED <<now, boot, disk, files, synced, index, history, faults>>

(* A snapshot export is a read without pages. *)
Export(g, at) == Query(g, at, {}, FALSE)

(* GrantQuerySession::commit of a write: the rename ... *)
Commit ==
  /\ session.step = "commit"
  /\ doc' = session.staged
  /\ session' = [step |-> "answer", write |-> session.write]
  /\ UNCHANGED <<now, boot, disk, files, synced, index, history, faults>>

IsWrite == "write" \in DOMAIN session

(* A response that does not wait for the directory sync of the commit. *)
AnswerUnsynced ==
  /\ session.step = "answer"
  /\ IF IsWrite
     THEN /\ told' = [told EXCEPT ![session.write.grant] = @ + 1]
          /\ answered' = answered \cup {session.write}
          /\ UNCHANGED tokens
     ELSE /\ told' = [told EXCEPT ![session.grant] = @ + 1]
          /\ tokens' = tokens \cup session.issued
          /\ UNCHANGED answered
  /\ session' = Idle
  /\ UNCHANGED <<now, boot, doc, disk, files, synced, index, silenced, orphaned, faults>>

(* ... and the directory sync, after which the response is returned. *)
Answer ==
  /\ session.step = "answer"
  /\ disk' = doc
  /\ IF IsWrite
     THEN /\ told' = [told EXCEPT ![session.write.grant] = @ + 1]
          /\ answered' = answered \cup {session.write}
          /\ UNCHANGED tokens
     ELSE /\ told' = [told EXCEPT ![session.grant] = @ + 1]
          /\ tokens' = tokens \cup session.issued
          /\ UNCHANGED answered
  /\ session' = Idle
  /\ UNCHANGED <<now, boot, doc, files, synced, index, silenced, orphaned, faults>>

-----------------------------------------------------------------------------
(* The world. *)

(* Requests read the clock when they are made, so it need not move during one. *)
Tick ==
  /\ Free
  /\ now < MaxTime
  /\ now' = now + 1
  /\ UNCHANGED <<boot, doc, disk, files, synced, index, session, history, faults>>

(* A step fails or the process is killed: the locks are free, what was done stays. *)
Fail ==
  /\ "fail" \in Faults /\ faults < MaxFaults
  /\ ~Free
  /\ session' = Idle
  /\ faults' = faults + 1
  /\ UNCHANGED <<now, boot, doc, disk, files, synced, index, history>>

(* Renames that were not synced may be lost, a directory's newest first. *)
PowerLoss ==
  /\ "power" \in Faults /\ faults < MaxFaults
  /\ \E kept \in SUBSET Placed :
       /\ synced \subseteq kept
       /\ \A r \in kept : PriorOf[r] \in kept \cup {NoRevision}
       /\ files' = [r \in Revisions |-> IF r \in kept THEN files[r] ELSE NoFile]
       /\ synced' = kept
       /\ orphaned' = (orphaned \/ ~(Rows \cap Placed \subseteq kept))
  /\ \E d \in {doc, disk} : doc' = d /\ disk' = d
  /\ session' = Idle
  /\ boot' = now
  /\ faults' = faults + 1
  /\ UNCHANGED <<now, index, told, answered, tokens, silenced>>

(* The index is lost or unreadable; opening it creates an empty one. *)
LoseIndex ==
  /\ "index" \in Faults /\ faults < MaxFaults
  /\ Free /\ Rows # {}
  /\ index' = [r \in Revisions |-> Absent]
  /\ faults' = faults + 1
  /\ UNCHANGED <<now, boot, doc, disk, files, synced, session, history>>

Step == Place \/ Settle \/ Project \/ Conflict \/ Commit \/ Answer

Next ==
  \/ \E g \in Grants : Install(g) \/ Revoke(g) \/ Expire(g)
  \/ Startup
  \/ \E w \in Writes, at \in 0..MaxTime : BeginWrite(w, at) \/ Retry(w, at)
  \/ \E g \in Grants, at \in 0..MaxTime, more \in BOOLEAN,
        cursor \in {{}} \cup {{c} : c \in tokens} : Query(g, at, cursor, more)
  \/ \E g \in Grants, at \in 0..MaxTime : Export(g, at)
  \/ Step
  \/ Tick \/ Fail \/ PowerLoss \/ LoseIndex

Spec == Init /\ [][Next]_vars

-----------------------------------------------------------------------------
(* Every variable keeps its type; receipts keep within their limit and a request ID *)
(* has one of them; only a file that is there has its entry synced. *)
TypeOK ==
  /\ now \in 0..MaxTime
  /\ doc \in Document /\ disk \in Document
  /\ Cardinality(doc.receipts) <= MaxReceipts
  /\ \A v, w \in doc.receipts : v.request = w.request => v = w
  /\ \A r \in Revisions : files[r] = NoFile \/ files[r].created \in 0..now
  /\ synced \subseteq Placed
  /\ index \in [Revisions -> 0..now \cup {Absent}]
  /\ session.step \in {"idle", "place", "settle", "project", "commit", "answer"}
  /\ told \in [Grants -> Nat]
  /\ answered \subseteq Writes /\ silenced \subseteq Grants
  /\ faults \in 0..MaxFaults

(* Whatever fails, and whatever a power loss takes back, every response that was *)
(* returned is charged in the document, each write and each read once, and the *)
(* charge never exceeds what the user allowed (privacy-model.md: "cannot permit an *)
(* uncharged response", "is not charged twice"). *)
DisclosedIsCharged ==
  \A d \in {doc, disk}, g \in Grants :
    /\ told[g] <= d.grants[g].bytes
    /\ d.grants[g].bytes <= Allowance[g]
    /\ d.grants[g].state # "revoked" =>
         d.grants[g].bytes = d.queries[g] + Cardinality({w \in d.receipts : w.grant = g})

(* What a client was told stays true through kills and power losses: a write it got *)
(* an answer for has its revision on disk and, until the revocation, its receipt; *)
(* a cursor it holds resolves until it expires or the grant is revoked. *)
AnsweredIsKept ==
  /\ \A w \in answered :
       /\ w.revision \in synced
       /\ disk.grants[w.grant].state # "revoked" => w \in disk.receipts
  /\ \A c \in tokens :
       c.until > now /\ disk.grants[c.grant].state # "revoked" => c \in disk.cursors
  /\ \A g \in silenced : disk.grants[g].state = "revoked"

(* The files are always one chain that recovery accepts, in which each revision was *)
(* a permitted transition, not older than its parent, and written under a grant *)
(* that covers that parent, also while the projection does not know the parent *)
(* (data-contract.md: "projection lag cannot turn an out-of-scope parent into an *)
(* appendable artifact for another grant"). The last holds until the projection *)
(* has a row of a file that is gone: write_derived compares the IDs of the two *)
(* tips, not their content. *)
OneChain ==
  /\ Ordered(Placed)
  /\ \A r \in Placed :
       LET p == PriorOf[r] IN
       /\ ValidTransition(p, r)
       /\ p # NoRevision =>
            /\ files[p].created <= files[r].created
            /\ orphaned \/ InScope(files[r].grant, p, files[p].created)

(* Once a revocation has been acknowledged, nothing is disclosed or written under *)
(* the grant any more, whatever session was under way and whatever is retried. *)
SilencedIsSilent ==
  [][\A g \in silenced : told'[g] = told[g] /\ \A r \in Revisions :
       files'[r].grant = g => files[r].grant = g]_vars

=============================================================================
