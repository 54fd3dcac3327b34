-------------------------- MODULE DisclosureProofs --------------------------
(* Proofs about Disclosure, for every set of grants, revisions and writes, every *)
(* clock, limit and number of failures: the type invariant, that every response  *)
(* is charged, that what a client was told stays true, that the files are one    *)
(* chain, and that nothing is disclosed under a revoked grant. *)
EXTENDS Disclosure, FiniteSetTheorems, TLAPS

(* What holds of the document as it is read and as a power loss may leave it: t is *)
(* what was told under each grant, s the synced revisions, a the answered writes,  *)
(* c the cursors returned, n the instant, z the silenced grants. *)
OfGrant(d, g) == {w \in d.receipts : w.grant = g}

ChargedFor(d, t) ==
  \A g \in Grants :
    /\ t[g] <= d.grants[g].bytes
    /\ d.grants[g].bytes <= Allowance[g]
    /\ d.grants[g].state = "none" => d.grants[g].bytes = 0
    /\ d.grants[g].state # "revoked" =>
         d.grants[g].bytes = d.queries[g] + Cardinality(OfGrant(d, g))

KeptIn(d, s, a, c, n, z) ==
  /\ \A w \in d.receipts \cup a : w.revision \in s
  /\ \A w \in a : d.grants[w.grant].state # "revoked" => w \in d.receipts
  /\ \A k \in c : k.until > n /\ d.grants[k.grant].state # "revoked" => k \in d.cursors
  /\ \A g \in z : d.grants[g].state = "revoked"

Limited(d) ==
  /\ d \in Document
  /\ IsFiniteSet(d.receipts) /\ Cardinality(d.receipts) <= MaxReceipts
  /\ \A v, w \in d.receipts : v.request = w.request => v = w

Sound(d, t, s, a, c, n, z) == Limited(d) /\ ChargedFor(d, t) /\ KeptIn(d, s, a, c, n, z)
SoundNow(d) == Sound(d, told, synced, answered, tokens, now, silenced)

(* The files and their projection: any part of the files has a last one. *)
HasTips(S) == \A T \in SUBSET S : T # {} => \E r \in T : \A s \in T : PriorOf[s] # r

ChainInv ==
  /\ files \in [Revisions -> [grant : Grants \cup {"none"}, created : 0..MaxTime \cup {Absent}]]
  /\ \A r \in Revisions : files[r] = NoFile \/ files[r].created \in 0..now
  /\ synced \subseteq Placed
  /\ index \in [Revisions -> 0..now \cup {Absent}]
  /\ HasTips(Placed)
  /\ OneChain
  /\ orphaned \/ \A r \in Rows : r \in Placed /\ index[r] = files[r].created

(* What a session that holds the grant lock has established. *)
WriteSession ==
  [step : {"place", "settle", "project", "commit"}, write : Writes, at : 0..now, staged : Document]

Written(d, w) == [Charged(d, w.grant) EXCEPT !.receipts = @ \cup {w}]
Staged(w, at) == Written(Loaded(at), w)

Writing ==
  LET w == session.write
      g == session.write.grant
      r == session.write.revision
      p == PriorOf[session.write.revision]
  IN /\ session \in WriteSession
     /\ doc.grants[g].state = "active" /\ Affordable(g)
     /\ Receipts(doc, w) = {} /\ Cardinality(doc.receipts) < MaxReceipts
     /\ \E at \in 0..now : session.staged = Staged(w, at)
     /\ session.step = "place" =>
          /\ r \notin Placed /\ TipOf(Placed) = p
          /\ p # NoRevision => /\ files[p].created <= session.at
                               /\ orphaned \/ InScope(g, p, files[p].created)
     /\ session.step # "place" => r \in Placed
     /\ session.step \in {"project", "commit"} => r \in synced

AnsweringWrite ==
  /\ session \in [step : {"answer"}, write : Writes]
  /\ doc.grants[session.write.grant].state = "active"
  /\ told[session.write.grant] < doc.grants[session.write.grant].bytes
  /\ session.write \in doc.receipts

AnsweringRead ==
  /\ session \in [step : {"answer"}, grant : Grants, issued : SUBSET Cursor]
  /\ doc.grants[session.grant].state = "active"
  /\ told[session.grant] < doc.grants[session.grant].bytes
  /\ session.issued \subseteq doc.cursors

SessionInv == session = Idle \/ Writing \/ AnsweringWrite \/ AnsweringRead

HistoryType ==
  /\ now \in 0..MaxTime /\ boot \in 0..now
  /\ told \in [Grants -> Nat]
  /\ answered \subseteq Writes /\ tokens \subseteq Cursor /\ silenced \subseteq Grants
  /\ orphaned \in BOOLEAN /\ faults \in 0..MaxFaults

(* The inductive invariant. *)
DisclosureInv ==
  HistoryType /\ ChainInv /\ SessionInv /\ SoundNow(doc) /\ SoundNow(disk)
-----------------------------------------------------------------------------
(* What changes of the document keep sound. *)

(* A document's parts have their types. *)
LEMMA DocumentParts ==
  ASSUME NEW d \in Document
  PROVE  /\ d.grants \in [Grants -> GrantState]
         /\ \A g \in Grants : d.grants[g].bytes \in Nat
         /\ d.cursors \subseteq Cursor
         /\ d.receipts \subseteq Writes
         /\ d.queries \in [Grants -> Nat]
         /\ d = [grants |-> d.grants, cursors |-> d.cursors, receipts |-> d.receipts,
                 queries |-> d.queries]
<1>1. d.grants \in [Grants -> GrantState]
  BY DEF Document
<1>2. ASSUME NEW g \in Grants PROVE d.grants[g].bytes \in Nat
  BY <1>1 DEF GrantState
<1>3. d = [grants |-> d.grants, cursors |-> d.cursors, receipts |-> d.receipts,
           queries |-> d.queries]
  BY DEF Document
<1> QED  BY <1>1, <1>2, <1>3 DEF Document

(* A document's soundness depends on its parts: what a step leaves of each of them. *)
LEMMA SoundParts ==
  ASSUME NEW d \in Document, NEW t \in [Grants -> Nat], NEW s, NEW a \in SUBSET Writes,
         NEW c \in SUBSET Cursor, NEW n \in Nat, NEW z \in SUBSET Grants,
         Sound(d, t, s, a, c, n, z),
         NEW e \in Document,
         e.receipts = d.receipts, e.queries = d.queries,
         \A g \in Grants :
           /\ e.grants[g].bytes = d.grants[g].bytes
           /\ d.grants[g].state = "revoked" => e.grants[g].state = "revoked"
           /\ e.grants[g].state \in {"none", "revoked"} => e.grants[g].state = d.grants[g].state,
         \A k \in d.cursors : k.until > n => k \in e.cursors
  PROVE  Sound(e, t, s, a, c, n, z)
<1>1. Limited(e)
  BY DEF Sound, Limited
<1>2. ChargedFor(e, t)
  <2>1. ASSUME NEW g \in Grants PROVE OfGrant(e, g) = OfGrant(d, g)
    BY DEF OfGrant
  <2>2. ASSUME NEW g \in Grants
        PROVE  /\ t[g] <= e.grants[g].bytes
               /\ e.grants[g].bytes <= Allowance[g]
               /\ e.grants[g].state = "none" => e.grants[g].bytes = 0
    BY DEF Sound, ChargedFor
  <2>3. ASSUME NEW g \in Grants, e.grants[g].state # "revoked"
        PROVE  e.grants[g].bytes = e.queries[g] + Cardinality(OfGrant(e, g))
    BY <2>1, <2>3 DEF Sound, ChargedFor
  <2> QED  BY <2>2, <2>3 DEF ChargedFor
<1>3. KeptIn(e, s, a, c, n, z)
  <2>1. ASSUME NEW w \in a, e.grants[w.grant].state # "revoked" PROVE w \in e.receipts
    <3>1. w.grant \in Grants
      BY DisclosureAssumption DEF DisclosureAssumption
    <3>2. w \in d.receipts
      BY <2>1, <3>1 DEF Sound, KeptIn
    <3> QED  BY <3>2
  <2>2. ASSUME NEW k \in c, k.until > n, e.grants[k.grant].state # "revoked"
        PROVE  k \in e.cursors
    <3>1. k.grant \in Grants
      BY DEF Cursor
    <3>2. k \in d.cursors
      BY <2>2, <3>1 DEF Sound, KeptIn
    <3> QED  BY <2>2, <3>2
  <2>3. \A g \in z : e.grants[g].state = "revoked"
    BY DEF Sound, KeptIn
  <2>4. \A w \in e.receipts \cup a : w.revision \in s
    BY DEF Sound, KeptIn
  <2> QED  BY <2>1, <2>2, <2>3, <2>4 DEF KeptIn
<1> QED  BY <1>1, <1>2, <1>3 DEF Sound

(* Dropping what has expired keeps a document sound. *)
LEMMA SoundLoaded ==
  ASSUME NEW d \in Document, NEW t \in [Grants -> Nat], NEW s, NEW a \in SUBSET Writes,
         NEW c \in SUBSET Cursor, NEW n \in Nat, NEW z \in SUBSET Grants,
         Sound(d, t, s, a, c, n, z),
         NEW at \in Nat, at <= n
  PROVE  LET e == [d EXCEPT !.cursors = {k \in @ : k.until > at}] IN
         /\ e \in Document /\ Sound(e, t, s, a, c, n, z)
         /\ e.grants = d.grants /\ e.receipts = d.receipts /\ e.queries = d.queries
<1> DEFINE e == [d EXCEPT !.cursors = {k \in @ : k.until > at}]
<1>1. /\ e \in Document
      /\ e.grants = d.grants /\ e.receipts = d.receipts /\ e.queries = d.queries
      /\ e.cursors = {k \in d.cursors : k.until > at}
  BY DocumentParts DEF Document
<1>2. DisclosureAssumption
  BY DisclosureAssumption
<1>3. ASSUME NEW k \in d.cursors, k.until > n PROVE k \in e.cursors
  <2>1. k \in Cursor
    BY DocumentParts
  <2>2. k.until \in Nat
    BY <2>1, <1>2 DEF Cursor, DisclosureAssumption
  <2> QED  BY <1>1, <1>3, <2>2
<1> HIDE DEF e
<1>4. Sound(e, t, s, a, c, n, z)
  BY <1>1, <1>3, SoundParts
<1> QED  BY <1>1, <1>4 DEF e

(* Storing that a grant has expired keeps a document sound. *)
LEMMA SoundExpired ==
  ASSUME NEW d \in Document, NEW t \in [Grants -> Nat], NEW s, NEW a \in SUBSET Writes,
         NEW c \in SUBSET Cursor, NEW n \in Nat, NEW z \in SUBSET Grants,
         Sound(d, t, s, a, c, n, z),
         NEW g \in Grants, d.grants[g].state = "active"
  PROVE  LET e == [d EXCEPT !.grants[g].state = "expired"] IN
         e \in Document /\ Sound(e, t, s, a, c, n, z)
<1> DEFINE e == [d EXCEPT !.grants[g].state = "expired"]
<1>1. /\ e.cursors = d.cursors /\ e.receipts = d.receipts /\ e.queries = d.queries
      /\ e.grants = [d.grants EXCEPT ![g].state = "expired"]
  BY DocumentParts
<1>2. /\ e.grants \in [Grants -> GrantState]
      /\ \A h \in Grants :
           /\ e.grants[h].bytes = d.grants[h].bytes
           /\ e.grants[h].state = IF h = g THEN "expired" ELSE d.grants[h].state
  BY <1>1, DocumentParts DEF GrantState
<1>3. e \in Document
  BY <1>1, <1>2, DocumentParts DEF Document
<1> HIDE DEF e
<1>4. Sound(e, t, s, a, c, n, z)
  BY <1>1, <1>2, <1>3, SoundParts
<1> QED  BY <1>3, <1>4 DEF e

(* A grant that is installed has disclosed nothing. *)
LEMMA SoundInstalled ==
  ASSUME NEW d \in Document, NEW t \in [Grants -> Nat], NEW s, NEW a \in SUBSET Writes,
         NEW c \in SUBSET Cursor, NEW n \in Nat, NEW z \in SUBSET Grants,
         Sound(d, t, s, a, c, n, z),
         NEW g \in Grants, d.grants[g].state = "none"
  PROVE  LET e == [d EXCEPT !.grants[g] = [state |-> "active", bytes |-> 0]] IN
         e \in Document /\ Sound(e, t, s, a, c, n, z)
<1> DEFINE e == [d EXCEPT !.grants[g] = [state |-> "active", bytes |-> 0]]
<1>1. /\ e.cursors = d.cursors /\ e.receipts = d.receipts /\ e.queries = d.queries
      /\ e.grants = [d.grants EXCEPT ![g] = [state |-> "active", bytes |-> 0]]
  BY DocumentParts
<1>2. d.grants[g].bytes = 0
  BY DEF Sound, ChargedFor
<1>3. /\ e.grants \in [Grants -> GrantState]
      /\ \A h \in Grants :
           /\ e.grants[h].bytes = d.grants[h].bytes
           /\ e.grants[h].state = IF h = g THEN "active" ELSE d.grants[h].state
  BY <1>1, <1>2, DocumentParts DEF GrantState
<1>4. e \in Document
  BY <1>1, <1>3, DocumentParts DEF Document
<1> HIDE DEF e
<1>5. Sound(e, t, s, a, c, n, z)
  BY <1>1, <1>3, <1>4, SoundParts
<1> QED  BY <1>4, <1>5 DEF e

(* The document without a grant: it is revoked, its cursors and receipts are gone. *)
Stripped(d, g) ==
  [d EXCEPT !.grants[g].state = "revoked",
            !.cursors = {k \in @ : k.grant # g},
            !.receipts = {w \in @ : w.grant # g}]

(* Revoking a grant, with its cursors and receipts, keeps a document sound, and the *)
(* grant may be counted as silenced. *)
LEMMA SoundRevoked ==
  ASSUME NEW d \in Document, NEW t \in [Grants -> Nat], NEW s, NEW a \in SUBSET Writes,
         NEW c \in SUBSET Cursor, NEW n \in Nat, NEW z \in SUBSET Grants,
         Sound(d, t, s, a, c, n, z),
         NEW g \in Grants, NEW y \in {z, z \cup {g}}
  PROVE  Stripped(d, g) \in Document /\ Sound(Stripped(d, g), t, s, a, c, n, y)
<1> DEFINE e == [d EXCEPT !.grants[g].state = "revoked",
                          !.cursors = {k \in @ : k.grant # g},
                          !.receipts = {w \in @ : w.grant # g}]
<1>1. /\ e.cursors = {k \in d.cursors : k.grant # g}
      /\ e.receipts = {w \in d.receipts : w.grant # g}
      /\ e.queries = d.queries
      /\ e.grants = [d.grants EXCEPT ![g].state = "revoked"]
  <2>1. e.cursors = {k \in d.cursors : k.grant # g} /\ e.queries = d.queries
    BY DocumentParts
  <2>2. e.receipts = {w \in d.receipts : w.grant # g}
    BY DocumentParts
  <2>3. e.grants = [d.grants EXCEPT ![g].state = "revoked"]
    BY DocumentParts
  <2> QED  BY <2>1, <2>2, <2>3
<1>2. /\ e.grants \in [Grants -> GrantState]
      /\ \A h \in Grants :
           /\ e.grants[h].bytes = d.grants[h].bytes
           /\ e.grants[h].state = IF h = g THEN "revoked" ELSE d.grants[h].state
  BY <1>1, DocumentParts DEF GrantState
<1>3. e \in Document
  <2>1. e.cursors \subseteq Cursor /\ e.receipts \subseteq Writes /\ e.queries \in [Grants -> Nat]
    BY <1>1, DocumentParts
  <2> QED  BY <1>2, <2>1 DEF Document
<1> HIDE DEF e
<1>4. Limited(e)
  <2>1. e.receipts \subseteq d.receipts
    BY <1>1
  <2>2. IsFiniteSet(e.receipts) /\ Cardinality(e.receipts) <= Cardinality(d.receipts)
    BY <2>1, FS_Subset DEF Sound, Limited
  <2>3. Cardinality(e.receipts) \in Nat /\ Cardinality(d.receipts) \in Nat
    BY <2>2, FS_CardinalityType DEF Sound, Limited
  <2>4. Cardinality(e.receipts) <= MaxReceipts
    BY <2>2, <2>3, DisclosureAssumption DEF Sound, Limited, DisclosureAssumption
  <2> QED  BY <1>3, <2>1, <2>2, <2>4 DEF Sound, Limited
<1>5. ChargedFor(e, t)
  <2>1. ASSUME NEW h \in Grants
        PROVE  /\ t[h] <= e.grants[h].bytes
               /\ e.grants[h].bytes <= Allowance[h]
               /\ e.grants[h].state = "none" => e.grants[h].bytes = 0
    BY <1>2 DEF Sound, ChargedFor
  <2>2. ASSUME NEW h \in Grants, e.grants[h].state # "revoked"
        PROVE  e.grants[h].bytes = e.queries[h] + Cardinality(OfGrant(e, h))
    <3>1. h # g
      BY <1>2, <2>2
    <3>2. OfGrant(e, h) = OfGrant(d, h)
      BY <1>1, <3>1 DEF OfGrant
    <3> QED  BY <1>1, <1>2, <2>2, <3>1, <3>2 DEF Sound, ChargedFor
  <2> QED  BY <2>1, <2>2 DEF ChargedFor
<1>6. KeptIn(e, s, a, c, n, y)
  <2>1. ASSUME NEW w \in a, e.grants[w.grant].state # "revoked" PROVE w \in e.receipts
    <3>1. w.grant \in Grants
      BY DisclosureAssumption DEF DisclosureAssumption
    <3>2. w.grant # g /\ d.grants[w.grant].state # "revoked"
      BY <1>2, <2>1, <3>1
    <3>3. w \in d.receipts
      BY <3>2 DEF Sound, KeptIn
    <3> QED  BY <1>1, <3>2, <3>3
  <2>2. ASSUME NEW k \in c, k.until > n, e.grants[k.grant].state # "revoked"
        PROVE  k \in e.cursors
    <3>1. k.grant \in Grants
      BY DEF Cursor
    <3>2. k.grant # g /\ d.grants[k.grant].state # "revoked"
      BY <1>2, <2>2, <3>1
    <3>3. k \in d.cursors
      BY <2>2, <3>2 DEF Sound, KeptIn
    <3> QED  BY <1>1, <3>2, <3>3
  <2>3. ASSUME NEW h \in y PROVE e.grants[h].state = "revoked"
    <3>1. h \in Grants /\ (h \in z \/ h = g)
      OBVIOUS
    <3> QED  BY <1>2, <3>1 DEF Sound, KeptIn
  <2>4. \A w \in e.receipts \cup a : w.revision \in s
    BY <1>1 DEF Sound, KeptIn
  <2> QED  BY <2>1, <2>2, <2>3, <2>4 DEF KeptIn
<1>7. Sound(e, t, s, a, c, n, y)
  BY <1>4, <1>5, <1>6 DEF Sound
<1> QED  BY <1>3, <1>7 DEF e, Stripped

(* A charge is one response more under one grant. *)
LEMMA ChargedParts ==
  ASSUME NEW d \in Document, NEW g \in Grants
  PROVE  /\ Charged(d, g) \in Document
         /\ Charged(d, g).cursors = d.cursors
         /\ Charged(d, g).receipts = d.receipts
         /\ Charged(d, g).queries = d.queries
         /\ \A h \in Grants :
              /\ Charged(d, g).grants[h].bytes =
                   IF h = g THEN d.grants[h].bytes + 1 ELSE d.grants[h].bytes
              /\ Charged(d, g).grants[h].state = d.grants[h].state
<1> DEFINE e == [d EXCEPT !.grants[g].bytes = @ + 1]
<1>1. /\ e.cursors = d.cursors /\ e.receipts = d.receipts /\ e.queries = d.queries
      /\ e.grants = [d.grants EXCEPT ![g].bytes = @ + 1]
  BY DocumentParts
<1>2. /\ e.grants \in [Grants -> GrantState]
      /\ \A h \in Grants :
           /\ e.grants[h].bytes = IF h = g THEN d.grants[h].bytes + 1 ELSE d.grants[h].bytes
           /\ e.grants[h].state = d.grants[h].state
  BY <1>1, DocumentParts DEF GrantState
<1>3. e \in Document
  BY <1>1, <1>2, DocumentParts DEF Document
<1> QED  BY <1>1, <1>2, <1>3 DEF Charged

(* A read charges one response and may add cursors. *)
LEMMA SoundQueried ==
  ASSUME NEW d \in Document, NEW t \in [Grants -> Nat], NEW s, NEW a \in SUBSET Writes,
         NEW c \in SUBSET Cursor, NEW n \in Nat, NEW z \in SUBSET Grants,
         Sound(d, t, s, a, c, n, z),
         NEW g \in Grants, d.grants[g].state = "active", d.grants[g].bytes < Allowance[g],
         NEW issued \in SUBSET Cursor
  PROVE  LET e == [Charged(d, g) EXCEPT !.queries[g] = @ + 1, !.cursors = @ \cup issued] IN
         /\ e \in Document /\ Sound(e, t, s, a, c, n, z)
         /\ e.grants[g].state = "active" /\ t[g] < e.grants[g].bytes
         /\ issued \subseteq e.cursors
<1> DEFINE e == [Charged(d, g) EXCEPT !.queries[g] = @ + 1, !.cursors = @ \cup issued]
<1>1. /\ Charged(d, g) \in Document
      /\ e.cursors = d.cursors \cup issued
      /\ e.receipts = d.receipts
      /\ e.queries = [d.queries EXCEPT ![g] = @ + 1]
      /\ e.grants = Charged(d, g).grants
  <2>1. Charged(d, g) \in Document
    BY ChargedParts
  <2>2. e.cursors = d.cursors \cup issued
    BY <2>1, ChargedParts DEF Document
  <2>3. e.queries = [d.queries EXCEPT ![g] = @ + 1]
    BY <2>1, ChargedParts DEF Document
  <2>4. e.receipts = d.receipts /\ e.grants = Charged(d, g).grants
    BY <2>1, ChargedParts DEF Document
  <2> QED  BY <2>1, <2>2, <2>3, <2>4
<1>2. \A h \in Grants :
        /\ e.grants[h].bytes = IF h = g THEN d.grants[h].bytes + 1 ELSE d.grants[h].bytes
        /\ e.grants[h].state = d.grants[h].state
  BY <1>1, ChargedParts
<1>3. /\ e.queries \in [Grants -> Nat]
      /\ \A h \in Grants : e.queries[h] = IF h = g THEN d.queries[h] + 1 ELSE d.queries[h]
  BY <1>1, DocumentParts
<1>4. e \in Document
  <2>1. /\ e.cursors \subseteq Cursor /\ e.receipts \subseteq Writes
        /\ e.grants \in [Grants -> GrantState]
    BY <1>1, DocumentParts
  <2> QED  BY <1>1, <1>3, <2>1 DEF Document
<1> HIDE DEF e
<1>5. Limited(e)
  BY <1>1, <1>4 DEF Sound, Limited
<1>6. Allowance \in [Grants -> Nat]
  BY DisclosureAssumption DEF DisclosureAssumption
<1>7. ChargedFor(e, t)
  <2>1. ASSUME NEW h \in Grants
        PROVE  /\ t[h] <= e.grants[h].bytes
               /\ e.grants[h].bytes <= Allowance[h]
    <3>1. t[h] \in Nat /\ d.grants[h].bytes \in Nat /\ Allowance[h] \in Nat
      BY <1>6, DocumentParts
    <3>2. t[h] <= d.grants[h].bytes /\ d.grants[h].bytes <= Allowance[h]
      BY DEF Sound, ChargedFor
    <3> QED  BY <1>2, <3>1, <3>2
  <2>2. ASSUME NEW h \in Grants, e.grants[h].state = "none" PROVE e.grants[h].bytes = 0
    BY <1>2, <2>2 DEF Sound, ChargedFor
  <2>3. ASSUME NEW h \in Grants, e.grants[h].state # "revoked"
        PROVE  e.grants[h].bytes = e.queries[h] + Cardinality(OfGrant(e, h))
    <3>1. OfGrant(e, h) = OfGrant(d, h)
      BY <1>1 DEF OfGrant
    <3>2. /\ IsFiniteSet(OfGrant(d, h))
          /\ Cardinality(OfGrant(d, h)) \in Nat
      BY FS_Subset, FS_CardinalityType DEF OfGrant, Sound, Limited
    <3>3. d.grants[h].bytes = d.queries[h] + Cardinality(OfGrant(d, h))
      BY <1>2, <2>3 DEF Sound, ChargedFor
    <3>4. d.queries[h] \in Nat
      BY DocumentParts
    <3> QED  BY <1>2, <1>3, <3>1, <3>2, <3>3, <3>4
  <2> QED  BY <2>1, <2>2, <2>3 DEF ChargedFor
<1>8. KeptIn(e, s, a, c, n, z)
  <2>1. ASSUME NEW w \in a, e.grants[w.grant].state # "revoked" PROVE w \in e.receipts
    <3>1. w.grant \in Grants
      BY DisclosureAssumption DEF DisclosureAssumption
    <3> QED  BY <1>1, <1>2, <2>1, <3>1 DEF Sound, KeptIn
  <2>2. ASSUME NEW k \in c, k.until > n, e.grants[k.grant].state # "revoked"
        PROVE  k \in e.cursors
    <3>1. k.grant \in Grants
      BY DEF Cursor
    <3> QED  BY <1>1, <1>2, <2>2, <3>1 DEF Sound, KeptIn
  <2>3. \A h \in z : e.grants[h].state = "revoked"
    BY <1>2 DEF Sound, KeptIn
  <2>4. \A w \in e.receipts \cup a : w.revision \in s
    BY <1>1 DEF Sound, KeptIn
  <2> QED  BY <2>1, <2>2, <2>3, <2>4 DEF KeptIn
<1>9. t[g] < e.grants[g].bytes
  <2>1. t[g] \in Nat /\ d.grants[g].bytes \in Nat /\ t[g] <= d.grants[g].bytes
    BY DocumentParts DEF Sound, ChargedFor
  <2> QED  BY <1>2, <2>1
<1>10. Sound(e, t, s, a, c, n, z) /\ e.grants[g].state = "active" /\ issued \subseteq e.cursors
  BY <1>1, <1>2, <1>5, <1>7, <1>8 DEF Sound
<1> QED  BY <1>4, <1>9, <1>10 DEF e

(* A write charges one response and adds its receipt. *)
LEMMA SoundWritten ==
  ASSUME NEW d \in Document, NEW t \in [Grants -> Nat], NEW s, NEW a \in SUBSET Writes,
         NEW c \in SUBSET Cursor, NEW n \in Nat, NEW z \in SUBSET Grants,
         Sound(d, t, s, a, c, n, z),
         NEW w \in Writes, w.revision \in s,
         d.grants[w.grant].state = "active", d.grants[w.grant].bytes < Allowance[w.grant],
         Receipts(d, w) = {}, Cardinality(d.receipts) < MaxReceipts
  PROVE  /\ Written(d, w) \in Document /\ Sound(Written(d, w), t, s, a, c, n, z)
         /\ t[w.grant] < Written(d, w).grants[w.grant].bytes
         /\ w \in Written(d, w).receipts
<1> DEFINE g == w.grant
           e == [Charged(d, g) EXCEPT !.receipts = @ \cup {w}]
<1>0. g \in Grants
  BY DisclosureAssumption DEF DisclosureAssumption
<1>1. /\ e.cursors = d.cursors
      /\ e.receipts = d.receipts \cup {w}
      /\ e.queries = d.queries
      /\ e.grants = Charged(d, g).grants
      /\ e \in Document
  <2>1. Charged(d, g) \in Document
    BY <1>0, ChargedParts
  <2>2. e.cursors = d.cursors /\ e.queries = d.queries
    BY <1>0, <2>1, ChargedParts DEF Document
  <2>3. e.receipts = d.receipts \cup {w}
    BY <1>0, <2>1, ChargedParts DEF Document
  <2>4. e.grants = Charged(d, g).grants
    BY <1>0, <2>1, ChargedParts DEF Document
  <2>5. e \in Document
    BY <1>0, <2>1 DEF Document
  <2> QED  BY <2>2, <2>3, <2>4, <2>5
<1> HIDE DEF e
<1>2. \A h \in Grants :
        /\ e.grants[h].bytes = IF h = g THEN d.grants[h].bytes + 1 ELSE d.grants[h].bytes
        /\ e.grants[h].state = d.grants[h].state
  BY <1>0, <1>1, ChargedParts
<1>3. w \notin d.receipts
  BY DEF Receipts
<1> HIDE DEF g
<1>4. Limited(e)
  <2>1. /\ IsFiniteSet(e.receipts)
        /\ Cardinality(e.receipts) = Cardinality(d.receipts) + 1
    <3>1. IsFiniteSet(d.receipts)
      BY DEF Sound, Limited
    <3>2. /\ IsFiniteSet(d.receipts \cup {w})
          /\ Cardinality(d.receipts \cup {w}) = Cardinality(d.receipts) + 1
      BY <1>3, <3>1, FS_AddElement
    <3> QED  BY <1>1, <3>2
  <2>2. Cardinality(d.receipts) \in Nat
    BY FS_CardinalityType DEF Sound, Limited
  <2>3. Cardinality(e.receipts) <= MaxReceipts
    BY <2>1, <2>2, DisclosureAssumption DEF DisclosureAssumption
  <2>4. ASSUME NEW u \in e.receipts, NEW v \in e.receipts, u.request = v.request PROVE u = v
    BY <1>1, <2>4 DEF Sound, Limited, Receipts
  <2> QED  BY <1>1, <2>1, <2>3, <2>4 DEF Limited
<1>5. ChargedFor(e, t)
  <2>1. ASSUME NEW h \in Grants
        PROVE  /\ t[h] <= e.grants[h].bytes
               /\ e.grants[h].bytes <= Allowance[h]
    <3>1. t[h] \in Nat /\ d.grants[h].bytes \in Nat /\ Allowance[h] \in Nat
      BY DisclosureAssumption, DocumentParts DEF DisclosureAssumption
    <3>2. t[h] <= d.grants[h].bytes /\ d.grants[h].bytes <= Allowance[h]
      BY DEF Sound, ChargedFor
    <3> QED  BY <1>2, <3>1, <3>2 DEF g
  <2>2. ASSUME NEW h \in Grants, e.grants[h].state = "none" PROVE e.grants[h].bytes = 0
    BY <1>2, <2>2 DEF Sound, ChargedFor, g
  <2>3. ASSUME NEW h \in Grants, e.grants[h].state # "revoked"
        PROVE  e.grants[h].bytes = e.queries[h] + Cardinality(OfGrant(e, h))
    <3>1. IsFiniteSet(OfGrant(d, h))
      BY FS_Subset DEF OfGrant, Sound, Limited
    <3>2. Cardinality(OfGrant(d, h)) \in Nat
      BY <3>1, FS_CardinalityType
    <3>3. d.grants[h].bytes = d.queries[h] + Cardinality(OfGrant(d, h))
      BY <1>2, <2>3 DEF Sound, ChargedFor
    <3>4. d.queries[h] \in Nat
      BY DocumentParts
    <3>5. CASE h = g
      <4>1. OfGrant(e, h) = OfGrant(d, h) \cup {w} /\ w \notin OfGrant(d, h)
        BY <1>1, <1>3, <3>5 DEF OfGrant, g
      <4>2. Cardinality(OfGrant(e, h)) = Cardinality(OfGrant(d, h)) + 1
        BY <3>1, <4>1, FS_AddElement
      <4> QED  BY <1>1, <1>2, <3>2, <3>3, <3>4, <3>5, <4>2
    <3>6. CASE h # g
      <4>1. OfGrant(e, h) = OfGrant(d, h)
        BY <1>1, <3>6 DEF OfGrant, g
      <4> QED  BY <1>1, <1>2, <3>3, <3>6, <4>1
    <3> QED  BY <3>5, <3>6
  <2> QED  BY <2>1, <2>2, <2>3 DEF ChargedFor
<1>6. KeptIn(e, s, a, c, n, z)
  <2>1. ASSUME NEW v \in a, e.grants[v.grant].state # "revoked" PROVE v \in e.receipts
    <3>1. v.grant \in Grants
      BY DisclosureAssumption DEF DisclosureAssumption
    <3> QED  BY <1>1, <1>2, <2>1, <3>1 DEF Sound, KeptIn
  <2>2. ASSUME NEW k \in c, k.until > n, e.grants[k.grant].state # "revoked"
        PROVE  k \in e.cursors
    <3>1. k.grant \in Grants
      BY DEF Cursor
    <3> QED  BY <1>1, <1>2, <2>2, <3>1 DEF Sound, KeptIn
  <2>3. \A h \in z : e.grants[h].state = "revoked"
    BY <1>2 DEF Sound, KeptIn
  <2>4. \A v \in e.receipts \cup a : v.revision \in s
    BY <1>1 DEF Sound, KeptIn
  <2> QED  BY <2>1, <2>2, <2>3, <2>4 DEF KeptIn
<1>7. t[g] < e.grants[g].bytes
  <2>1. t[g] \in Nat /\ d.grants[g].bytes \in Nat /\ t[g] <= d.grants[g].bytes
    BY <1>0, DocumentParts DEF Sound, ChargedFor
  <2> QED  BY <1>0, <1>2, <2>1
<1>8. Sound(e, t, s, a, c, n, z) /\ w \in e.receipts
  BY <1>0, <1>1, <1>2, <1>4, <1>5, <1>6 DEF Sound, g
<1> QED  BY <1>1, <1>7, <1>8 DEF e, g, Written

(* More synced files and a later instant take nothing from a document. *)
LEMMA SoundLater ==
  ASSUME NEW d \in Document, NEW t \in [Grants -> Nat], NEW s, NEW a \in SUBSET Writes,
         NEW c \in SUBSET Cursor, NEW n \in Nat, NEW z \in SUBSET Grants,
         Sound(d, t, s, a, c, n, z),
         NEW s2, s \subseteq s2, NEW n2 \in Nat, n <= n2
  PROVE  Sound(d, t, s2, a, c, n2, z)
<1>1. ASSUME NEW k \in c, k.until > n2, d.grants[k.grant].state # "revoked"
      PROVE  k \in d.cursors
  <2>1. k.until \in Nat
    BY DisclosureAssumption DEF DisclosureAssumption, Cursor
  <2>2. k.until > n
    BY <1>1, <2>1
  <2> QED  BY <1>1, <2>2 DEF Sound, KeptIn
<1>2. KeptIn(d, s2, a, c, n2, z)
  BY <1>1 DEF Sound, KeptIn
<1> QED  BY <1>2 DEF Sound

(* A response that is returned under a grant with a charge to spare, with what the *)
(* document holds. *)
LEMMA SoundAnswered ==
  ASSUME NEW d \in Document, NEW t \in [Grants -> Nat], NEW s, NEW a \in SUBSET Writes,
         NEW c \in SUBSET Cursor, NEW n \in Nat, NEW z \in SUBSET Grants,
         Sound(d, t, s, a, c, n, z),
         NEW g \in Grants, t[g] < d.grants[g].bytes,
         NEW b \in SUBSET d.receipts, NEW k \in SUBSET d.cursors
  PROVE  Sound(d, [t EXCEPT ![g] = @ + 1], s, a \cup b, c \cup k, n, z)
<1> DEFINE u == [t EXCEPT ![g] = @ + 1]
<1>1. ASSUME NEW h \in Grants PROVE u[h] <= d.grants[h].bytes
  <2>1. t[h] \in Nat /\ d.grants[h].bytes \in Nat /\ t[h] <= d.grants[h].bytes
    BY DocumentParts DEF Sound, ChargedFor
  <2> QED  BY <2>1
<1>2. ChargedFor(d, u)
  BY <1>1 DEF Sound, ChargedFor
<1>3. KeptIn(d, s, a \cup b, c \cup k, n, z)
  BY DEF Sound, KeptIn
<1> QED  BY <1>2, <1>3 DEF Sound

(* The exact retry of a write that has its receipt is told nothing new. *)
LEMMA SoundRetried ==
  ASSUME NEW d \in Document, NEW t \in [Grants -> Nat], NEW s, NEW a \in SUBSET Writes,
         NEW c \in SUBSET Cursor, NEW n \in Nat, NEW z \in SUBSET Grants,
         Sound(d, t, s, a, c, n, z),
         NEW b \in SUBSET d.receipts
  PROVE  Sound(d, t, s, a \cup b, c, n, z)
BY DEF Sound, KeptIn

-----------------------------------------------------------------------------
(* The chain of files. *)

(* The tip of files is one of them, and no other one follows it. *)
LEMMA TipIsLast ==
  ASSUME NEW S, HasTips(S), NEW T \in SUBSET S
  PROVE  /\ T = {} => TipOf(T) = NoRevision
         /\ T # {} => TipOf(T) \in T /\ \A s \in T : PriorOf[s] # TipOf(T)
<1>1. ASSUME T # {} PROVE TipOf(T) \in T /\ \A s \in T : PriorOf[s] # TipOf(T)
  <2>1. PICK r \in T : \A s \in T : PriorOf[s] # r
    BY <1>1 DEF HasTips
  <2>2. TipOf(T) = CHOOSE q \in T : \A s \in T : PriorOf[s] # q
    BY <1>1 DEF TipOf
  <2> QED  BY <2>1, <2>2
<1> QED  BY <1>1 DEF TipOf

(* A file that follows the tip makes a longer chain. *)
LEMMA ChainExtended ==
  ASSUME NEW S \in SUBSET Revisions, Ordered(S), HasTips(S),
         NEW r \in Revisions, r \notin S, TipOf(S) = PriorOf[r]
  PROVE  Ordered(S \cup {r}) /\ HasTips(S \cup {r})
<1> DEFINE R == S \cup {r}
<1>1. /\ S = {} => PriorOf[r] = NoRevision
      /\ S # {} => PriorOf[r] \in S /\ \A s \in S : PriorOf[s] # PriorOf[r]
  BY TipIsLast
<1>2. NoRevision \notin Revisions
  BY DisclosureAssumption DEF DisclosureAssumption
<1>3. PriorOf[r] # r /\ \A s \in S : PriorOf[s] # r
  BY <1>1, <1>2 DEF Ordered
<1>4. ASSUME NEW T \in SUBSET R, T # {} PROVE \E q \in T : PriorOf[q] \notin T
  <2>1. CASE T \cap S = {}
    <3>1. T = {r}
      BY <1>4, <2>1
    <3> QED  BY <1>3, <3>1
  <2>2. CASE T \cap S # {}
    <3>1. PICK q \in T \cap S : PriorOf[q] \notin T \cap S
      BY <2>2 DEF Ordered
    <3>2. PriorOf[q] \in S \cup {NoRevision}
      BY DEF Ordered
    <3>3. NoRevision \notin T
      BY <1>2
    <3> QED  BY <3>1, <3>2, <3>3
  <2> QED  BY <2>1, <2>2
<1>5. ASSUME NEW T \in SUBSET R, T # {} PROVE \E q \in T : \A s \in T : PriorOf[s] # q
  <2>1. CASE r \in T
    BY <1>3, <2>1
  <2>2. CASE r \notin T
    <3>1. T \in SUBSET S
      BY <2>2
    <3> QED  BY <1>5, <3>1 DEF HasTips
  <2> QED  BY <2>1, <2>2
<1>6. \A q \in R : PriorOf[q] \in R \cup {NoRevision}
  BY <1>1 DEF Ordered
<1>7. ASSUME NEW q \in R, NEW s \in R, PriorOf[q] = PriorOf[s] PROVE q = s
  <2>1. ASSUME NEW x \in S PROVE PriorOf[x] # PriorOf[r]
    BY <1>1
  <2> QED  BY <1>7, <2>1 DEF Ordered
<1> QED  BY <1>4, <1>5, <1>6, <1>7 DEF Ordered, HasTips

(* What a power loss leaves, a part with the parents of its files, is a chain too. *)
LEMMA ChainCut ==
  ASSUME NEW S, Ordered(S), HasTips(S), NEW T \in SUBSET S,
         \A r \in T : PriorOf[r] \in T \cup {NoRevision}
  PROVE  Ordered(T) /\ HasTips(T)
<1>1. Ordered(T)
  BY DEF Ordered
<1>2. HasTips(T)
  BY DEF HasTips
<1> QED  BY <1>1, <1>2

(* Steps that leave the files and their projection alone. *)
LEMMA ChainStays ==
  ASSUME HistoryType, ChainInv, UNCHANGED <<files, synced, index, orphaned>>,
         now' \in 0..MaxTime, now <= now'
  PROVE  ChainInv'
<1>1. Placed' = Placed /\ Rows' = Rows
  BY DEF Placed, Rows
<1>2. now \in Nat /\ now' \in Nat
  BY DisclosureAssumption DEF HistoryType, DisclosureAssumption
<1>3. ASSUME NEW r \in Revisions, files[r] # NoFile PROVE files'[r].created \in 0..now'
  <2>1. files[r].created \in 0..now
    BY <1>3 DEF ChainInv
  <2> QED  BY <1>2, <2>1
<1>4. index' \in [Revisions -> 0..now' \cup {Absent}]
  <2>1. index \in [Revisions -> 0..now \cup {Absent}] /\ index' = index
    BY DEF ChainInv
  <2>2. 0..now \subseteq 0..now'
    BY <1>2
  <2> QED  BY <2>1, <2>2
<1>5. OneChain'
  BY <1>1 DEF ChainInv, OneChain
<1>6. (HasTips(Placed))'
  BY <1>1 DEF ChainInv, HasTips
<1>7. files' \in [Revisions -> [grant : Grants \cup {"none"}, created : 0..MaxTime \cup {Absent}]]
  BY DEF ChainInv
<1>8. synced' \subseteq Placed'
  BY <1>1 DEF ChainInv
<1>9. orphaned' \/ \A r \in Rows' : r \in Placed' /\ index'[r] = files'[r].created
  BY <1>1 DEF ChainInv
<1> QED  BY <1>3, <1>4, <1>5, <1>6, <1>7, <1>8, <1>9 DEF ChainInv

-----------------------------------------------------------------------------
(* The document's steps. *)

(* What the step of a session says of it. *)
LEMMA SessionSteps ==
  ASSUME SessionInv
  PROVE  /\ session.step \in {"place", "settle", "project", "commit"} => Writing
         /\ session.step = "answer" =>
              \/ AnsweringWrite /\ IsWrite
              \/ AnsweringRead /\ ~IsWrite
         /\ session.step \in {"idle", "place", "settle", "project", "commit", "answer"}
<1>1. CASE session = Idle
  BY <1>1 DEF Idle
<1>2. CASE Writing
  <2>1. session.step \in {"place", "settle", "project", "commit"}
    BY <1>2 DEF Writing, WriteSession
  <2> QED  BY <1>2, <2>1
<1>3. CASE AnsweringWrite
  <2>1. session.step = "answer" /\ IsWrite
    BY <1>3 DEF AnsweringWrite, IsWrite
  <2> QED  BY <1>3, <2>1
<1>4. CASE AnsweringRead
  <2>1. session.step = "answer" /\ ~IsWrite
    BY <1>4 DEF AnsweringRead, IsWrite
  <2> QED  BY <1>4, <2>1
<1> QED  BY <1>1, <1>2, <1>3, <1>4 DEF SessionInv

(* The types that the lemmas about documents ask for. *)
LEMMA InvTypes ==
  ASSUME DisclosureInv
  PROVE  /\ doc \in Document /\ disk \in Document
         /\ told \in [Grants -> Nat] /\ answered \in SUBSET Writes
         /\ tokens \in SUBSET Cursor /\ silenced \in SUBSET Grants
         /\ now \in Nat /\ now \in 0..MaxTime /\ boot \in 0..now
BY DisclosureAssumption
   DEF DisclosureInv, HistoryType, SoundNow, Sound, Limited, DisclosureAssumption

(* Faults are counted up to their bound. *)
LEMMA CountedFaults ==
  ASSUME faults \in 0..MaxFaults, NEW outcome \in Outcomes, Counted(outcome)
  PROVE  faults' \in 0..MaxFaults
BY DisclosureAssumption DEF Counted, Outcomes, DisclosureAssumption

(* The document a session starts from is sound. *)
LEMMA LoadedSound ==
  ASSUME DisclosureInv, NEW at \in Nat, at <= now
  PROVE  /\ Loaded(at) \in Document
         /\ Sound(Loaded(at), told, synced, answered, tokens, now, silenced)
         /\ Loaded(at).grants = doc.grants /\ Loaded(at).receipts = doc.receipts
<1>1. Sound(doc, told, synced, answered, tokens, now, silenced)
  BY DEF DisclosureInv, SoundNow
<1> QED  BY <1>1, InvTypes, SoundLoaded DEF Loaded

(* A document that is stored with nothing else changing. *)
LEMMA StoredKeeps ==
  ASSUME DisclosureInv, NEW d, NEW outcome \in Outcomes, Persisted(d, outcome), Counted(outcome),
         Sound(d, told, synced, answered, tokens, now, silenced'),
         Sound(disk, told, synced, answered, tokens, now, silenced') \/ outcome = "done",
         silenced' \subseteq Grants, Free,
         UNCHANGED <<now, boot, files, synced, index, session, told, answered, tokens, orphaned>>
  PROVE  DisclosureInv'
<1>1. HistoryType'
  BY CountedFaults DEF DisclosureInv, HistoryType
<1>2. ChainInv'
  BY ChainStays, InvTypes DEF DisclosureInv
<1>3. SessionInv'
  BY DEF Free, SessionInv
<1>4. (SoundNow(doc))'
  BY DEF SoundNow, Persisted
<1>5. (SoundNow(disk))'
  BY DEF SoundNow, Persisted
<1> QED  BY <1>1, <1>2, <1>3, <1>4, <1>5 DEF DisclosureInv

LEMMA InstallKeeps ==
  ASSUME DisclosureInv, NEW g \in Grants, Install(g)
  PROVE  DisclosureInv'
<1> DEFINE d == [doc EXCEPT !.grants[g] = [state |-> "active", bytes |-> 0]]
<1>1. PICK outcome \in Outcomes : Persisted(d, outcome) /\ Counted(outcome)
  BY DEF Install
<1>2. Sound(d, told, synced, answered, tokens, now, silenced)
  BY InvTypes, SoundInstalled DEF Install, DisclosureInv, SoundNow
<1>3. /\ Free /\ silenced' = silenced
      /\ UNCHANGED <<now, boot, files, synced, index, session, told, answered, tokens, orphaned>>
  BY DEF Install, history
<1>4. Sound(disk, told, synced, answered, tokens, now, silenced) /\ silenced \subseteq Grants
  BY InvTypes DEF DisclosureInv, SoundNow
<1> HIDE DEF d
<1> QED  BY <1>1, <1>2, <1>3, <1>4, StoredKeeps

LEMMA ExpireKeeps ==
  ASSUME DisclosureInv, NEW g \in Grants, Expire(g)
  PROVE  DisclosureInv'
<1>1. PICK outcome \in Outcomes, at \in Instants :
        /\ Persisted([Loaded(at) EXCEPT !.grants[g].state = "expired"], outcome)
        /\ Counted(outcome)
  BY DEF Expire
<1> DEFINE d == [Loaded(at) EXCEPT !.grants[g].state = "expired"]
<1>2. at \in Nat /\ at <= now
  BY InvTypes DEF Instants
<1>3. /\ Loaded(at) \in Document
      /\ Sound(Loaded(at), told, synced, answered, tokens, now, silenced)
      /\ Loaded(at).grants = doc.grants
  BY <1>2, LoadedSound
<1>4. Sound(d, told, synced, answered, tokens, now, silenced)
  BY <1>3, InvTypes, SoundExpired DEF Expire
<1>5. /\ Free /\ silenced' = silenced
      /\ UNCHANGED <<now, boot, files, synced, index, session, told, answered, tokens, orphaned>>
  BY DEF Expire, history
<1>6. Sound(disk, told, synced, answered, tokens, now, silenced) /\ silenced \subseteq Grants
  BY InvTypes DEF DisclosureInv, SoundNow
<1> QED  BY <1>1, <1>4, <1>5, <1>6, StoredKeeps

LEMMA RevokeKeeps ==
  ASSUME DisclosureInv, NEW g \in Grants, Revoke(g)
  PROVE  DisclosureInv'
<1> DEFINE d == Stripped(doc, g)
<1>1. PICK outcome \in Outcomes :
        /\ Persisted(d, outcome)
        /\ silenced' = IF outcome = "done" THEN silenced \cup {g} ELSE silenced
        /\ Counted(outcome)
  BY DEF Revoke, Stripped
<1>2. silenced' \in {silenced, silenced \cup {g}} /\ silenced' \subseteq Grants
  BY <1>1, InvTypes
<1>3. Sound(d, told, synced, answered, tokens, now, silenced')
  <2> DEFINE y == silenced'
  <2>1. Sound(doc, told, synced, answered, tokens, now, silenced)
    BY DEF DisclosureInv, SoundNow
  <2>2. y \in {silenced, silenced \cup {g}}
    BY <1>2
  <2> HIDE DEF y
  <2>3. /\ doc \in Document /\ told \in [Grants -> Nat] /\ answered \in SUBSET Writes
        /\ tokens \in SUBSET Cursor /\ silenced \in SUBSET Grants /\ now \in Nat
    BY InvTypes
  <2>4. Sound(d, told, synced, answered, tokens, now, y)
    BY <2>1, <2>2, <2>3, SoundRevoked
  <2> QED  BY <2>4 DEF y
<1>4. /\ Free
      /\ UNCHANGED <<now, boot, files, synced, index, session, told, answered, tokens, orphaned>>
  BY DEF Revoke
<1>5. Sound(disk, told, synced, answered, tokens, now, silenced') \/ outcome = "done"
  BY <1>1 DEF DisclosureInv, SoundNow
<1> HIDE DEF d
<1> QED  BY <1>1, <1>2, <1>3, <1>4, <1>5, StoredKeeps

(* A read charges what it may return before it returns it. *)
LEMMA QueryKeeps ==
  ASSUME DisclosureInv, NEW g \in Grants, NEW at \in 0..MaxTime, NEW cursor, NEW more \in BOOLEAN,
         Query(g, at, cursor, more)
  PROVE  DisclosureInv'
<1> DEFINE issued == IF more THEN {IssuedCursor(g, at)} ELSE {}
           d == [Charged(Loaded(at), g) EXCEPT !.queries[g] = @ + 1, !.cursors = @ \cup issued]
<1>1. /\ Free /\ doc' = d
      /\ session' = [step |-> "answer", grant |-> g, issued |-> issued]
      /\ UNCHANGED <<now, boot, disk, files, synced, index, told, answered, tokens, silenced,
                     orphaned, faults>>
  BY DEF Query, history
<1>2. at \in Nat /\ at <= now /\ at < ExpiresAt[g]
  BY InvTypes DEF Query, Instants, IsActive
<1>3. /\ Loaded(at) \in Document
      /\ Sound(Loaded(at), told, synced, answered, tokens, now, silenced)
      /\ Loaded(at).grants = doc.grants
  BY <1>2, LoadedSound
<1>4. issued \in SUBSET Cursor
  <2>1. IssuedCursor(g, at).until \in 0..(MaxTime + CursorLife)
    BY <1>2, DisclosureAssumption DEF IssuedCursor, DisclosureAssumption
  <2>2. IssuedCursor(g, at) \in Cursor
    BY <2>1 DEF IssuedCursor, Cursor
  <2> QED  BY <2>2
<1> HIDE DEF issued
<1>5. /\ d \in Document
      /\ Sound(d, told, synced, answered, tokens, now, silenced)
      /\ d.grants[g].state = "active" /\ told[g] < d.grants[g].bytes
      /\ issued \subseteq d.cursors
  <2>1. Loaded(at).grants[g].state = "active" /\ Loaded(at).grants[g].bytes < Allowance[g]
    BY <1>3 DEF Query, IsActive, Affordable
  <2> QED  BY <1>3, <1>4, <2>1, InvTypes, SoundQueried
<1> HIDE DEF d
<1>6. SessionInv'
  <2>1. AnsweringRead'
    BY <1>1, <1>4, <1>5 DEF AnsweringRead
  <2> QED  BY <2>1 DEF SessionInv
<1>7. HistoryType' /\ ChainInv'
  BY <1>1, ChainStays, InvTypes DEF DisclosureInv, HistoryType
<1>8. (SoundNow(doc))' /\ (SoundNow(disk))'
  BY <1>1, <1>5 DEF DisclosureInv, SoundNow
<1> QED  BY <1>6, <1>7, <1>8 DEF DisclosureInv

LEMMA RetryKeeps ==
  ASSUME DisclosureInv, NEW w \in Writes, NEW at \in 0..MaxTime, Retry(w, at)
  PROVE  DisclosureInv'
<1>1. /\ Free /\ disk' = doc /\ w \in doc.receipts /\ answered' = answered \cup {w}
      /\ UNCHANGED <<now, boot, doc, files, synced, index, session, told, tokens, silenced,
                     orphaned, faults>>
  BY DEF Retry
<1>2. Sound(doc, told, synced, answered \cup {w}, tokens, now, silenced)
  BY <1>1, InvTypes, SoundRetried DEF DisclosureInv, SoundNow
<1>3. HistoryType' /\ ChainInv'
  BY <1>1, ChainStays, InvTypes DEF DisclosureInv, HistoryType
<1>4. SessionInv'
  BY <1>1 DEF Free, SessionInv
<1> QED  BY <1>1, <1>2, <1>3, <1>4 DEF DisclosureInv, SoundNow

-----------------------------------------------------------------------------
(* The steps of a write, and those of the world. *)

(* Steps that leave the document alone, as it is read and as it is stored. *)
LEMMA DocumentStays ==
  ASSUME DisclosureInv, now' \in Nat, now <= now', synced \subseteq synced',
         UNCHANGED <<doc, disk, told, answered, tokens, silenced>>
  PROVE  (SoundNow(doc))' /\ (SoundNow(disk))'
<1> DEFINE s2 == synced'
           n2 == now'
<1>1. n2 \in Nat /\ now <= n2 /\ synced \subseteq s2
  OBVIOUS
<1>2. /\ doc \in Document /\ disk \in Document /\ told \in [Grants -> Nat]
      /\ answered \in SUBSET Writes /\ tokens \in SUBSET Cursor
      /\ silenced \in SUBSET Grants /\ now \in Nat
  BY InvTypes
<1>3. /\ Sound(doc, told, synced, answered, tokens, now, silenced)
      /\ Sound(disk, told, synced, answered, tokens, now, silenced)
  BY DEF DisclosureInv, SoundNow
<1> HIDE DEF s2, n2
<1>4. /\ Sound(doc, told, s2, answered, tokens, n2, silenced)
      /\ Sound(disk, told, s2, answered, tokens, n2, silenced)
  BY <1>1, <1>2, <1>3, SoundLater
<1> QED  BY <1>4 DEF SoundNow, s2, n2

(* Between the tips that a write may follow, it is the canonical one that counts. *)
LEMMA TipCovered ==
  ASSUME ChainInv, ~orphaned, NEW g \in Grants, TipsInScope(g), TipOf(Placed) # NoRevision
  PROVE  InScope(g, TipOf(Placed), files[TipOf(Placed)].created)
<1>1. Placed # {} /\ TipOf(Placed) \in Placed
  BY TipIsLast DEF ChainInv
<1>2. CASE TipOf(Placed) # TipOf(Rows)
  BY <1>2 DEF TipsInScope
<1>3. CASE TipOf(Placed) = TipOf(Rows)
  <2>1. Rows \in SUBSET Placed
    BY DEF ChainInv
  <2>2. Rows # {}
    BY <1>3, <2>1, TipIsLast DEF ChainInv
  <2>3. TipOf(Rows) \in Rows
    BY <2>1, <2>2, TipIsLast DEF ChainInv
  <2>4. index[TipOf(Rows)] = files[TipOf(Rows)].created
    BY <2>3 DEF ChainInv
  <2> QED  BY <1>3, <2>4 DEF TipsInScope
<1> QED  BY <1>2, <1>3

LEMMA BeginWriteKeeps ==
  ASSUME DisclosureInv, NEW w \in Writes, NEW at \in 0..MaxTime, BeginWrite(w, at)
  PROVE  DisclosureInv'
<1> DEFINE g == w.grant
           r == w.revision
           p == PriorOf[w.revision]
           begun == CreatedAt(w.revision, at)
           step == IF w.revision \in Placed THEN "settle" ELSE "place"
<1>1. /\ Free
      /\ session' = [step |-> step, write |-> w, at |-> begun, staged |-> Staged(w, at)]
      /\ UNCHANGED <<now, boot, doc, disk, files, synced, index, told, answered, tokens,
                     silenced, orphaned, faults>>
  BY DEF BeginWrite, history, Staged, Written
<1>2. g \in Grants /\ r \in Revisions /\ NoRevision \notin Revisions
  BY DisclosureAssumption DEF DisclosureAssumption
<1>3. at \in Nat /\ at <= now /\ at \in 0..now
  BY InvTypes DEF BeginWrite, Instants
<1>4. begun \in 0..now
  BY <1>2, <1>3 DEF CreatedAt, Placed, DisclosureInv, ChainInv
<1>5. Staged(w, at) \in Document
  <2>1. Loaded(at) \in Document
    BY <1>3, LoadedSound
  <2>2. Charged(Loaded(at), g) \in Document
    BY <1>2, <2>1, ChargedParts
  <2> HIDE DEF g
  <2>3. [Charged(Loaded(at), g) EXCEPT !.receipts = @ \cup {w}] \in Document
    BY <2>2 DEF Document
  <2> QED  BY <2>3 DEF Staged, Written, g
<1> HIDE DEF begun
<1>6. session' \in WriteSession /\ session'.write = w /\ session'.at = begun
      /\ session'.step = step /\ session'.staged = Staged(w, at)
  BY <1>1, <1>4, <1>5 DEF WriteSession
<1>7. /\ doc.grants[g].state = "active" /\ Affordable(g)
      /\ Receipts(doc, w) = {} /\ Cardinality(doc.receipts) < MaxReceipts
  BY DEF BeginWrite, IsActive
<1>8. ASSUME step = "place"
      PROVE  /\ r \notin Placed /\ TipOf(Placed) = p
             /\ p # NoRevision => /\ files[p].created <= begun
                                  /\ orphaned \/ InScope(g, p, files[p].created)
  <2>1. r \notin Placed
    BY <1>8
  <2>2. TipOf(Placed) = p /\ (p # NoRevision => files[p].created <= at)
    BY <2>1 DEF BeginWrite, Follows
  <2>3. begun = at
    BY <2>1 DEF begun, CreatedAt
  <2>4. p # NoRevision => orphaned \/ InScope(g, p, files[p].created)
    BY <1>2, <2>2, TipCovered DEF BeginWrite, DisclosureInv
  <2> QED  BY <2>1, <2>2, <2>3, <2>4
<1>9. step # "place" => r \in Placed
  OBVIOUS
<1>10. Placed' = Placed
  BY <1>1 DEF Placed
<1>11. Writing'
  <2>1. session'.step \in {"place", "settle"}
    BY <1>6
  <2>2. /\ doc'.grants[session'.write.grant].state = "active"
        /\ doc'.grants[session'.write.grant].bytes < Allowance[session'.write.grant]
        /\ {v \in doc'.receipts : v.request = session'.write.request} = {}
        /\ Cardinality(doc'.receipts) < MaxReceipts
    BY <1>1, <1>6, <1>7 DEF Receipts, Affordable
  <2>3. (\E i \in 0..now : session.staged = Staged(session.write, i))'
    BY <1>1, <1>3, <1>6 DEF Staged, Loaded
  <2>4. ASSUME session'.step = "place"
        PROVE  /\ session'.write.revision \notin Placed'
               /\ TipOf(Placed') = PriorOf[session'.write.revision]
               /\ PriorOf[session'.write.revision] # NoRevision =>
                    /\ files'[PriorOf[session'.write.revision]].created <= session'.at
                    /\ \/ orphaned'
                       \/ InScope(session'.write.grant, PriorOf[session'.write.revision],
                                  files'[PriorOf[session'.write.revision]].created)
    BY <1>1, <1>6, <1>8, <1>10, <2>4
  <2>5. session'.step # "place" => session'.write.revision \in Placed'
    BY <1>6, <1>9, <1>10
  <2> QED
    <3>1. (/\ doc.grants[session.write.grant].state = "active"
           /\ Affordable(session.write.grant)
           /\ Receipts(doc, session.write) = {} /\ Cardinality(doc.receipts) < MaxReceipts)'
      BY <2>2 DEF Receipts, Affordable
    <3>4. (session \in WriteSession)'
      BY <1>1, <1>6 DEF WriteSession
    <3>2. (session.step = "place" =>
             /\ session.write.revision \notin Placed
             /\ TipOf(Placed) = PriorOf[session.write.revision]
             /\ PriorOf[session.write.revision] # NoRevision =>
                  /\ files[PriorOf[session.write.revision]].created <= session.at
                  /\ \/ orphaned
                     \/ InScope(session.write.grant, PriorOf[session.write.revision],
                                files[PriorOf[session.write.revision]].created))'
      BY <2>4
    <3>3. (/\ session.step # "place" => session.write.revision \in Placed
           /\ session.step \in {"project", "commit"} => session.write.revision \in synced)'
      BY <2>1, <2>5
    <3> QED  BY <2>3, <3>1, <3>2, <3>3, <3>4 DEF Writing
<1>12. HistoryType' /\ ChainInv'
  BY <1>1, ChainStays, InvTypes DEF DisclosureInv, HistoryType
<1>13. (SoundNow(doc))' /\ (SoundNow(disk))'
  BY <1>1, InvTypes, DocumentStays
<1> QED  BY <1>11, <1>12, <1>13 DEF DisclosureInv, SessionInv

(* A session that goes on with the file in its place. *)
LEMMA SessionAdvances ==
  ASSUME DisclosureInv, Writing, NEW step \in {"settle", "project", "commit"},
         session' = [session EXCEPT !.step = step], UNCHANGED <<now, doc>>,
         session.write.revision \in Placed',
         step \in {"project", "commit"} => session.write.revision \in synced'
  PROVE  SessionInv'
<1>1. session \in WriteSession
  BY DEF Writing
<1>2. /\ session'.step = step /\ session'.write = session.write
      /\ session'.staged = session.staged
      /\ (session \in WriteSession)'
  BY <1>1 DEF WriteSession
<1>3. (/\ doc.grants[session.write.grant].state = "active"
       /\ Affordable(session.write.grant)
       /\ Receipts(doc, session.write) = {} /\ Cardinality(doc.receipts) < MaxReceipts)'
  BY <1>2 DEF Writing, Receipts, Affordable
<1>4. (\E at \in 0..now : session.staged = Staged(session.write, at))'
  BY <1>2 DEF Writing, Staged, Loaded
<1>5. (/\ session.step # "place"
       /\ session.step # "place" => session.write.revision \in Placed
       /\ session.step \in {"project", "commit"} => session.write.revision \in synced)'
  BY <1>2
<1> QED  BY <1>2, <1>3, <1>4, <1>5 DEF Writing, SessionInv

(* A file that follows the tip, of a permitted status, leaves one chain. *)
LEMMA PlaceKeeps ==
  ASSUME DisclosureInv, Place
  PROVE  DisclosureInv'
<1> DEFINE g == session.write.grant
           r == session.write.revision
           p == PriorOf[session.write.revision]
<1>1. /\ ValidTransition(TipOf(Placed), r)
      /\ files' = [files EXCEPT ![r] = [grant |-> g, created |-> session.at]]
      /\ session' = [session EXCEPT !.step = "settle"]
      /\ UNCHANGED <<now, boot, doc, disk, synced, index, told, answered, tokens,
                     silenced, orphaned, faults>>
  BY DEF Place, history
<1>2. /\ Writing /\ session.step = "place"
      /\ r \notin Placed /\ TipOf(Placed) = p
      /\ p # NoRevision => /\ files[p].created <= session.at
                           /\ orphaned \/ InScope(g, p, files[p].created)
  <2>1. session.step = "place"
    BY DEF Place
  <2> QED  BY <2>1, SessionSteps DEF DisclosureInv, Writing
<1>3. /\ g \in Grants /\ r \in Revisions /\ NoRevision \notin Revisions /\ "none" \notin Grants
      /\ session.at \in 0..now /\ now \in 0..MaxTime
  <2>1. session.write \in Writes /\ session.at \in 0..now
    BY <1>2 DEF Writing, WriteSession
  <2>2. session.write \in [request : Requests, grant : Grants, revision : Revisions]
    BY <2>1, DisclosureAssumption DEF DisclosureAssumption
  <2> QED  BY <2>1, <2>2, InvTypes, DisclosureAssumption DEF DisclosureAssumption
<1>4. session.at \in 0..MaxTime
  BY <1>3, DisclosureAssumption DEF DisclosureAssumption
<1>5. PriorOf[r] = p
  OBVIOUS
<1> HIDE DEF g, r, p
<1>6. files' \in [Revisions -> [grant : Grants \cup {"none"}, created : 0..MaxTime \cup {Absent}]]
  BY <1>1, <1>3, <1>4 DEF DisclosureInv, ChainInv
<1>7. \A q \in Revisions :
        files'[q] = IF q = r THEN [grant |-> g, created |-> session.at] ELSE files[q]
  BY <1>1, <1>3 DEF DisclosureInv, ChainInv
<1>8. Placed' = Placed \cup {r}
  <2>1. [grant |-> g, created |-> session.at] # NoFile
    BY <1>3 DEF NoFile
  <2> QED  BY <1>3, <1>7, <2>1 DEF Placed
<1>9. Ordered(Placed') /\ HasTips(Placed')
  <2>1. Placed \in SUBSET Revisions /\ Ordered(Placed) /\ HasTips(Placed)
    BY DEF Placed, DisclosureInv, ChainInv, OneChain
  <2>2. Ordered(Placed \cup {r}) /\ HasTips(Placed \cup {r})
    BY <1>2, <1>3, <1>5, <2>1, ChainExtended
  <2> QED  BY <1>8, <2>2
<1>10. ASSUME NEW q \in Placed'
       PROVE  /\ ValidTransition(PriorOf[q], q)
              /\ PriorOf[q] # NoRevision =>
                   /\ files'[PriorOf[q]].created <= files'[q].created
                   /\ orphaned \/ InScope(files'[q].grant, PriorOf[q], files'[PriorOf[q]].created)
  <2>1. CASE q = r
    <3>1. ValidTransition(PriorOf[q], q)
      BY <1>1, <1>2, <1>5, <2>1
    <3>2. ASSUME p # NoRevision PROVE p \in Placed /\ p # r /\ p \in Revisions
      <4>1. p \in Placed
        BY <1>2, <3>2, TipIsLast DEF DisclosureInv, ChainInv
      <4> QED  BY <1>2, <4>1 DEF Placed
    <3>3. ASSUME p # NoRevision
          PROVE  /\ files'[p].created <= files'[q].created
                 /\ orphaned \/ InScope(files'[q].grant, p, files'[p].created)
      <4>1. files'[p] = files[p]
        BY <1>7, <3>2, <3>3
      <4>2. files'[q].created = session.at /\ files'[q].grant = g
        BY <1>3, <1>7, <2>1
      <4> QED  BY <1>2, <3>3, <4>1, <4>2
    <3> QED  BY <1>5, <2>1, <3>1, <3>3
  <2>2. CASE q \in Placed
    <3>1. q # r /\ q \in Revisions
      BY <1>2, <2>2 DEF Placed
    <3>2. PriorOf[q] # NoRevision => PriorOf[q] \in Placed /\ PriorOf[q] # r
      BY <1>2, <2>2 DEF DisclosureInv, ChainInv, OneChain, Ordered
    <3>3. files'[q] = files[q] /\ (PriorOf[q] # NoRevision => files'[PriorOf[q]] = files[PriorOf[q]])
      BY <1>7, <3>1, <3>2 DEF Placed
    <3>4. /\ ValidTransition(PriorOf[q], q)
          /\ PriorOf[q] # NoRevision =>
               /\ files[PriorOf[q]].created <= files[q].created
               /\ orphaned \/ InScope(files[q].grant, PriorOf[q], files[PriorOf[q]].created)
      BY <2>2 DEF DisclosureInv, ChainInv, OneChain
    <3> QED  BY <3>3, <3>4
  <2> QED  BY <1>8, <2>1, <2>2
<1>11. OneChain'
  BY <1>1, <1>9, <1>10 DEF OneChain
<1>12. \A q \in Revisions : files'[q] = NoFile \/ files'[q].created \in 0..now'
  BY <1>1, <1>3, <1>7 DEF DisclosureInv, ChainInv
<1>13. ASSUME ~orphaned, NEW q \in Rows' PROVE q \in Placed' /\ index'[q] = files'[q].created
  <2>1. q \in Rows
    BY <1>1 DEF Rows
  <2>2. q \in Placed /\ index[q] = files[q].created
    BY <1>13, <2>1 DEF DisclosureInv, ChainInv
  <2>3. files'[q] = files[q]
    BY <1>2, <1>7, <2>2 DEF Placed
  <2> QED  BY <1>1, <1>8, <2>2, <2>3
<1>14. ChainInv'
  <2>1. synced' \subseteq Placed' /\ index' \in [Revisions -> 0..now' \cup {Absent}]
    BY <1>1, <1>8 DEF DisclosureInv, ChainInv
  <2> QED  BY <1>1, <1>6, <1>9, <1>11, <1>12, <1>13, <2>1 DEF ChainInv
<1>15. SessionInv'
  <2>1. session.write.revision \in Placed'
    BY <1>8 DEF r
  <2> QED  BY <1>1, <1>2, <2>1, SessionAdvances
<1>16. HistoryType'
  BY <1>1 DEF DisclosureInv, HistoryType
<1>17. (SoundNow(doc))' /\ (SoundNow(disk))'
  BY <1>1, InvTypes, DocumentStays
<1> QED  BY <1>14, <1>15, <1>16, <1>17 DEF DisclosureInv

LEMMA SettleKeeps ==
  ASSUME DisclosureInv, Settle
  PROVE  DisclosureInv'
<1>1. /\ session.step = "settle" /\ synced' = Placed
      /\ session' = [session EXCEPT !.step = "project"]
      /\ UNCHANGED <<now, boot, doc, disk, files, index, told, answered, tokens,
                     silenced, orphaned, faults>>
  BY DEF Settle, history
<1>2. Writing /\ session.write.revision \in Placed
  BY <1>1, SessionSteps DEF DisclosureInv, Writing
<1>3. Placed' = Placed /\ Rows' = Rows
  BY <1>1 DEF Placed, Rows
<1>4. ChainInv'
  <2>1. OneChain'
    BY <1>1, <1>3 DEF DisclosureInv, ChainInv, OneChain
  <2>2. (HasTips(Placed))'
    BY <1>3 DEF DisclosureInv, ChainInv, HasTips
  <2> QED  BY <1>1, <1>3, <2>1, <2>2 DEF DisclosureInv, ChainInv
<1>5. SessionInv'
  BY <1>1, <1>2, <1>3, SessionAdvances
<1>6. HistoryType'
  BY <1>1 DEF DisclosureInv, HistoryType
<1>7. (SoundNow(doc))' /\ (SoundNow(disk))'
  <2>1. synced \subseteq synced'
    BY <1>1 DEF DisclosureInv, ChainInv
  <2> QED  BY <1>1, <2>1, InvTypes, DocumentStays
<1> QED  BY <1>4, <1>5, <1>6, <1>7 DEF DisclosureInv

(* Steps that change the projection only, so that its rows are files that are there. *)
LEMMA ProjectionKeeps ==
  ASSUME DisclosureInv,
         UNCHANGED <<now, boot, doc, disk, files, synced, told, answered, tokens,
                     silenced, orphaned>>,
         index' \in [Revisions -> 0..now \cup {Absent}],
         ~orphaned => \A r \in Rows' : r \in Placed /\ index'[r] = files[r].created,
         SessionInv', faults' \in 0..MaxFaults
  PROVE  DisclosureInv'
<1>1. Placed' = Placed
  BY DEF Placed
<1>2. OneChain'
  BY <1>1 DEF DisclosureInv, ChainInv, OneChain
<1>3. (HasTips(Placed))'
  BY <1>1 DEF DisclosureInv, ChainInv, HasTips
<1>4. ChainInv'
  BY <1>1, <1>2, <1>3 DEF DisclosureInv, ChainInv
<1>5. HistoryType'
  BY DEF DisclosureInv, HistoryType
<1>6. (SoundNow(doc))' /\ (SoundNow(disk))'
  BY InvTypes, DocumentStays
<1> QED  BY <1>4, <1>5, <1>6 DEF DisclosureInv

LEMMA ProjectKeeps ==
  ASSUME DisclosureInv, Project
  PROVE  DisclosureInv'
<1> DEFINE r == session.write.revision
<1>1. /\ session.step = "project"
      /\ index' = [index EXCEPT ![r] = files[r].created]
      /\ session' = [session EXCEPT !.step = "commit"]
      /\ UNCHANGED <<now, boot, doc, disk, files, synced, told, answered, tokens,
                     silenced, orphaned, faults>>
  BY DEF Project, history
<1>2. Writing /\ r \in synced
  BY <1>1, SessionSteps DEF DisclosureInv, Writing
<1>3. r \in Placed /\ r \in Revisions /\ files[r].created \in 0..now
  BY <1>2 DEF DisclosureInv, ChainInv, Placed
<1>4. SessionInv'
  <2>1. Placed' = Placed
    BY <1>1 DEF Placed
  <2> QED  BY <1>1, <1>2, <1>3, <2>1, SessionAdvances
<1> HIDE DEF r
<1>5. index' \in [Revisions -> 0..now \cup {Absent}]
  BY <1>1, <1>3 DEF DisclosureInv, ChainInv
<1>6. ASSUME ~orphaned, NEW q \in Rows' PROVE q \in Placed /\ index'[q] = files[q].created
  <2>1. index'[q] = IF q = r THEN files[r].created ELSE index[q]
    BY <1>1, <1>3 DEF DisclosureInv, ChainInv, Rows
  <2>2. q # r => q \in Rows
    BY <2>1 DEF Rows
  <2> QED  BY <1>3, <1>6, <2>1, <2>2 DEF DisclosureInv, ChainInv
<1>7. faults' \in 0..MaxFaults
  BY <1>1 DEF DisclosureInv, HistoryType
<1> QED  BY <1>1, <1>4, <1>5, <1>6, <1>7, ProjectionKeeps

LEMMA StartupKeeps ==
  ASSUME DisclosureInv, Startup
  PROVE  DisclosureInv'
<1>1. /\ Free /\ index' = Replayed
      /\ UNCHANGED <<now, boot, doc, disk, files, synced, session, told, answered, tokens,
                     silenced, orphaned, faults>>
  BY DEF Startup, history
<1>2. \/ index' = [r \in Revisions |-> IF r \in Placed THEN files[r].created ELSE index[r]]
      \/ index' = [r \in Revisions |-> files[r].created]
  BY <1>1 DEF Replayed
<1>3. \A r \in Revisions : files[r].created \in 0..now \cup {Absent}
  BY DEF DisclosureInv, ChainInv, NoFile
<1>4. \A r \in Revisions : r \notin Placed => files[r].created = Absent
  BY DEF Placed, NoFile
<1>5. index' \in [Revisions -> 0..now \cup {Absent}]
  BY <1>2, <1>3 DEF DisclosureInv, ChainInv
<1>6. ASSUME ~orphaned, NEW r \in Rows' PROVE r \in Placed /\ index'[r] = files[r].created
  <2>1. r \in Revisions /\ index'[r] # Absent
    BY DEF Rows
  <2>2. r \notin Placed => index[r] = Absent
    BY <1>6, <2>1 DEF DisclosureInv, ChainInv, Rows
  <2> QED  BY <1>2, <1>4, <2>1, <2>2
<1>7. SessionInv' /\ faults' \in 0..MaxFaults
  BY <1>1 DEF Free, SessionInv, DisclosureInv, HistoryType
<1> QED  BY <1>1, <1>5, <1>6, <1>7, ProjectionKeeps

LEMMA LoseIndexKeeps ==
  ASSUME DisclosureInv, LoseIndex
  PROVE  DisclosureInv'
<1>1. /\ Free /\ index' = [r \in Revisions |-> Absent]
      /\ faults < MaxFaults /\ faults' = faults + 1
      /\ UNCHANGED <<now, boot, doc, disk, files, synced, session, told, answered, tokens,
                     silenced, orphaned>>
  BY DEF LoseIndex, history
<1>2. index' \in [Revisions -> 0..now \cup {Absent}] /\ Rows' = {}
  BY <1>1 DEF Rows
<1>3. SessionInv' /\ faults' \in 0..MaxFaults
  BY <1>1, DisclosureAssumption
  DEF Free, SessionInv, DisclosureInv, HistoryType, DisclosureAssumption
<1> QED  BY <1>1, <1>2, <1>3, ProjectionKeeps

(* A session that ends without a response leaves what it did. *)
LEMMA SessionEnds ==
  ASSUME DisclosureInv, session' = Idle,
         UNCHANGED <<now, boot, doc, disk, files, synced, index, told, answered, tokens,
                     silenced, orphaned>>,
         faults' \in 0..MaxFaults
  PROVE  DisclosureInv'
<1>1. HistoryType' /\ ChainInv'
  BY ChainStays, InvTypes DEF DisclosureInv, HistoryType
<1>2. (SoundNow(doc))' /\ (SoundNow(disk))'
  BY InvTypes, DocumentStays
<1> QED  BY <1>1, <1>2 DEF DisclosureInv, SessionInv

LEMMA ConflictKeeps ==
  ASSUME DisclosureInv, Conflict
  PROVE  DisclosureInv'
BY SessionEnds DEF Conflict, history, DisclosureInv, HistoryType

LEMMA FailKeeps ==
  ASSUME DisclosureInv, Fail
  PROVE  DisclosureInv'
<1>1. faults' \in 0..MaxFaults
  BY DisclosureAssumption DEF Fail, DisclosureInv, HistoryType, DisclosureAssumption
<1> QED  BY <1>1, SessionEnds DEF Fail, history

(* The charge and the receipt of a write are stored once its file is settled. *)
LEMMA CommitKeeps ==
  ASSUME DisclosureInv, Commit
  PROVE  DisclosureInv'
<1>1. /\ session.step = "commit" /\ doc' = session.staged
      /\ session' = [step |-> "answer", write |-> session.write]
      /\ UNCHANGED <<now, boot, disk, files, synced, index, told, answered, tokens,
                     silenced, orphaned, faults>>
  BY DEF Commit, history
<1>2. Writing /\ session.write.revision \in synced
  BY <1>1, SessionSteps DEF DisclosureInv, Writing
<1>3. PICK w \in Writes : w = session.write
  BY <1>2 DEF Writing, WriteSession
<1>4. /\ w.revision \in synced
      /\ doc.grants[w.grant].state = "active" /\ doc.grants[w.grant].bytes < Allowance[w.grant]
      /\ Receipts(doc, w) = {} /\ Cardinality(doc.receipts) < MaxReceipts
  BY <1>2, <1>3 DEF Writing, Affordable
<1>5. PICK at \in 0..now : session.staged = Staged(w, at)
  BY <1>2, <1>3 DEF Writing
<1>6. at \in Nat /\ at <= now
  BY InvTypes
<1>7. /\ Loaded(at) \in Document
      /\ Sound(Loaded(at), told, synced, answered, tokens, now, silenced)
      /\ Loaded(at).grants = doc.grants /\ Loaded(at).receipts = doc.receipts
  BY <1>6, LoadedSound
<1>8. /\ Sound(doc', told, synced, answered, tokens, now, silenced)
      /\ doc'.grants[w.grant].state = "active" /\ told[w.grant] < doc'.grants[w.grant].bytes
      /\ w \in doc'.receipts
  <2>1. PICK l \in Document : l = Loaded(at)
    BY <1>7
  <2>2. Sound(l, told, synced, answered, tokens, now, silenced)
    BY <1>7, <2>1
  <2>3. l.grants[w.grant].state = "active" /\ l.grants[w.grant].bytes < Allowance[w.grant]
    BY <1>4, <1>7, <2>1
  <2>4. Receipts(l, w) = {} /\ Cardinality(l.receipts) < MaxReceipts
    BY <1>4, <1>7, <2>1 DEF Receipts
  <2>5. /\ told \in [Grants -> Nat] /\ answered \in SUBSET Writes
        /\ tokens \in SUBSET Cursor /\ silenced \in SUBSET Grants /\ now \in Nat
    BY InvTypes
  <2>6. w.revision \in synced
    BY <1>4
  <2>7. /\ Sound(Written(l, w), told, synced, answered, tokens, now, silenced)
        /\ told[w.grant] < Written(l, w).grants[w.grant].bytes
        /\ w \in Written(l, w).receipts
    BY <2>2, <2>3, <2>4, <2>5, <2>6, SoundWritten
  <2>8. doc' = Written(l, w)
    BY <1>1, <1>5, <2>1 DEF Staged
  <2>9. Written(l, w).grants[w.grant].state = l.grants[w.grant].state
    <3>1. w.grant \in Grants
      BY DisclosureAssumption DEF DisclosureAssumption
    <3>2. Charged(l, w.grant).grants[w.grant].state = l.grants[w.grant].state
      BY <3>1, ChargedParts
    <3>3. Written(l, w).grants = Charged(l, w.grant).grants
      BY <3>1, ChargedParts DEF Written, Document
    <3> QED  BY <3>2, <3>3
  <2> QED  BY <2>3, <2>7, <2>8, <2>9
<1>9. SessionInv'
  <2>1. AnsweringWrite'
    BY <1>1, <1>3, <1>8 DEF AnsweringWrite
  <2> QED  BY <2>1 DEF SessionInv
<1>10. HistoryType' /\ ChainInv'
  BY <1>1, ChainStays, InvTypes DEF DisclosureInv, HistoryType
<1>11. (SoundNow(doc))' /\ (SoundNow(disk))'
  BY <1>1, <1>8 DEF DisclosureInv, SoundNow
<1> QED  BY <1>9, <1>10, <1>11 DEF DisclosureInv

(* A response is returned with its charge, and what it promises, on the disk. *)
LEMMA AnswerKeeps ==
  ASSUME DisclosureInv, Answer
  PROVE  DisclosureInv'
<1>1. /\ session.step = "answer" /\ disk' = doc /\ session' = Idle
      /\ UNCHANGED <<now, boot, doc, files, synced, index, silenced, orphaned, faults>>
  BY DEF Answer
<1>2. PICK g \in Grants, b \in SUBSET doc.receipts, k \in SUBSET doc.cursors :
        /\ told[g] < doc.grants[g].bytes
        /\ told' = [told EXCEPT ![g] = @ + 1]
        /\ answered' = answered \cup b /\ tokens' = tokens \cup k
  <2>1. CASE AnsweringWrite /\ IsWrite
    <3>1. session.write.grant \in Grants /\ {session.write} \in SUBSET doc.receipts
      BY <2>1, DisclosureAssumption DEF AnsweringWrite, DisclosureAssumption
    <3>2. /\ told[session.write.grant] < doc.grants[session.write.grant].bytes
          /\ told' = [told EXCEPT ![session.write.grant] = @ + 1]
          /\ answered' = answered \cup {session.write} /\ tokens' = tokens \cup {}
      BY <2>1 DEF AnsweringWrite, Answer
    <3>3. {} \in SUBSET doc.cursors
      OBVIOUS
    <3> QED  BY <3>1, <3>2, <3>3
  <2>2. CASE AnsweringRead /\ ~IsWrite
    <3>1. session.grant \in Grants /\ session.issued \in SUBSET doc.cursors
      BY <2>2 DEF AnsweringRead
    <3>2. /\ told[session.grant] < doc.grants[session.grant].bytes
          /\ told' = [told EXCEPT ![session.grant] = @ + 1]
          /\ answered' = answered \cup {} /\ tokens' = tokens \cup session.issued
      BY <2>2 DEF AnsweringRead, Answer
    <3>3. {} \in SUBSET doc.receipts
      OBVIOUS
    <3> QED  BY <3>1, <3>2, <3>3
  <2> QED  BY <1>1, <2>1, <2>2, SessionSteps DEF DisclosureInv
<1>3. Sound(doc, told', synced, answered', tokens', now, silenced)
  <2>1. Sound(doc, told, synced, answered, tokens, now, silenced)
    BY DEF DisclosureInv, SoundNow
  <2>2. Sound(doc, [told EXCEPT ![g] = @ + 1], synced, answered \cup b, tokens \cup k, now, silenced)
    BY <1>2, <2>1, InvTypes, SoundAnswered
  <2> QED  BY <1>2, <2>2
<1>4. HistoryType'
  <2>1. told' \in [Grants -> Nat]
    BY <1>2, InvTypes
  <2>2. answered' \subseteq Writes /\ tokens' \subseteq Cursor
    BY <1>2, InvTypes, DocumentParts
  <2> QED  BY <1>1, <2>1, <2>2 DEF DisclosureInv, HistoryType
<1>5. ChainInv'
  BY <1>1, ChainStays, InvTypes DEF DisclosureInv
<1> QED  BY <1>1, <1>3, <1>4, <1>5 DEF DisclosureInv, SessionInv, SoundNow

LEMMA TickKeeps ==
  ASSUME DisclosureInv, Tick
  PROVE  DisclosureInv'
<1>1. /\ Free /\ now < MaxTime /\ now' = now + 1
      /\ UNCHANGED <<boot, doc, disk, files, synced, index, session, told, answered, tokens,
                     silenced, orphaned, faults>>
  BY DEF Tick, history
<1>2. now \in Nat /\ MaxTime \in Nat /\ now' \in 0..MaxTime /\ now <= now' /\ now' \in Nat
  BY <1>1, InvTypes, DisclosureAssumption DEF DisclosureAssumption
<1>3. HistoryType'
  BY <1>1, <1>2 DEF DisclosureInv, HistoryType
<1>4. ChainInv'
  BY <1>1, <1>2, ChainStays DEF DisclosureInv
<1>5. (SoundNow(doc))' /\ (SoundNow(disk))'
  BY <1>1, <1>2, DocumentStays
<1> QED  BY <1>1, <1>3, <1>4, <1>5 DEF DisclosureInv, Free, SessionInv

(* A power loss keeps the synced files with their parents, and one of the documents. *)
LEMMA PowerLossKeeps ==
  ASSUME DisclosureInv, PowerLoss
  PROVE  DisclosureInv'
<1>1. PICK kept \in SUBSET Placed :
        /\ synced \subseteq kept
        /\ \A r \in kept : PriorOf[r] \in kept \cup {NoRevision}
        /\ files' = [r \in Revisions |-> IF r \in kept THEN files[r] ELSE NoFile]
        /\ synced' = kept
        /\ orphaned' = (orphaned \/ ~(Rows \cap Placed \subseteq kept))
  BY DEF PowerLoss
<1>2. /\ \E d \in {doc, disk} : doc' = d /\ disk' = d
      /\ session' = Idle /\ boot' = now
      /\ faults < MaxFaults /\ faults' = faults + 1
      /\ UNCHANGED <<now, index, told, answered, tokens, silenced>>
  BY DEF PowerLoss
<1>3. Placed' = kept /\ Rows' = Rows
  BY <1>1, <1>2 DEF Placed, Rows
<1>4. Ordered(Placed') /\ HasTips(Placed')
  <2>1. Ordered(Placed) /\ HasTips(Placed)
    BY DEF DisclosureInv, ChainInv, OneChain
  <2> QED  BY <1>1, <1>3, <2>1, ChainCut
<1>5. \A r \in kept : files'[r] = files[r] /\ r \in Revisions
  BY <1>1 DEF Placed
<1>6. ASSUME NEW r \in Placed'
      PROVE  /\ ValidTransition(PriorOf[r], r)
             /\ PriorOf[r] # NoRevision =>
                  /\ files'[PriorOf[r]].created <= files'[r].created
                  /\ orphaned' \/ InScope(files'[r].grant, PriorOf[r], files'[PriorOf[r]].created)
  <2>1. r \in kept /\ r \in Placed
    BY <1>1, <1>3
  <2>2. files'[r] = files[r] /\ (PriorOf[r] # NoRevision => files'[PriorOf[r]] = files[PriorOf[r]])
    BY <1>1, <1>5, <2>1
  <2>3. /\ ValidTransition(PriorOf[r], r)
        /\ PriorOf[r] # NoRevision =>
             /\ files[PriorOf[r]].created <= files[r].created
             /\ orphaned \/ InScope(files[r].grant, PriorOf[r], files[PriorOf[r]].created)
    BY <2>1 DEF DisclosureInv, ChainInv, OneChain
  <2> QED  BY <1>1, <2>2, <2>3
<1>7. OneChain'
  BY <1>4, <1>6 DEF OneChain
<1>8. files' \in [Revisions -> [grant : Grants \cup {"none"}, created : 0..MaxTime \cup {Absent}]]
  <2>1. NoFile \in [grant : Grants \cup {"none"}, created : 0..MaxTime \cup {Absent}]
    BY DEF NoFile
  <2> QED  BY <1>1, <2>1 DEF DisclosureInv, ChainInv
<1>9. \A r \in Revisions : files'[r] = NoFile \/ files'[r].created \in 0..now'
  BY <1>1, <1>2 DEF DisclosureInv, ChainInv
<1>10. ASSUME ~orphaned', NEW r \in Rows' PROVE r \in Placed' /\ index'[r] = files'[r].created
  <2>1. ~orphaned /\ Rows \cap Placed \subseteq kept
    BY <1>1, <1>10
  <2>2. r \in Placed /\ index[r] = files[r].created
    BY <1>3, <2>1 DEF DisclosureInv, ChainInv
  <2> QED  BY <1>2, <1>3, <1>5, <2>1, <2>2
<1>11. ChainInv'
  <2>1. synced' \subseteq Placed' /\ index' \in [Revisions -> 0..now' \cup {Absent}]
    BY <1>1, <1>2, <1>3 DEF DisclosureInv, ChainInv
  <2> QED  BY <1>4, <1>7, <1>8, <1>9, <1>10, <2>1 DEF ChainInv
<1>12. HistoryType'
  <2>1. faults' \in 0..MaxFaults
    BY <1>2, DisclosureAssumption DEF DisclosureInv, HistoryType, DisclosureAssumption
  <2>2. boot' \in 0..now'
    BY <1>2, InvTypes
  <2>3. orphaned' \in BOOLEAN
    BY <1>1
  <2> QED  BY <1>2, <2>1, <2>2, <2>3 DEF DisclosureInv, HistoryType
<1>13. (SoundNow(doc))' /\ (SoundNow(disk))'
  <2>1. ASSUME NEW d \in {doc, disk}
        PROVE  Sound(d, told, kept, answered, tokens, now, silenced)
    <3>1. Sound(d, told, synced, answered, tokens, now, silenced) /\ d \in Document
      BY InvTypes DEF DisclosureInv, SoundNow
    <3>2. now <= now
      BY InvTypes
    <3> QED  BY <1>1, <3>1, <3>2, InvTypes, SoundLater
  <2> QED  BY <1>1, <1>2, <2>1 DEF SoundNow
<1> QED  BY <1>2, <1>11, <1>12, <1>13 DEF DisclosureInv, SessionInv

-----------------------------------------------------------------------------
(* The theorems. *)

LEMMA DisclosureInit == Init => DisclosureInv
<1> SUFFICES ASSUME Init PROVE DisclosureInv
  OBVIOUS
<1> DEFINE d == [grants |-> [g \in Grants |-> [state |-> "none", bytes |-> 0]],
                 cursors |-> {}, receipts |-> {}, queries |-> [g \in Grants |-> 0]]
<1>1. doc = d /\ disk = d
  BY DEF Init
<1>2. d \in Document
  BY DEF Document, GrantState
<1>3. IsFiniteSet({}) /\ Cardinality({}) = 0
  BY FS_EmptySet
<1>4. Limited(d)
  BY <1>2, <1>3, DisclosureAssumption DEF Limited, DisclosureAssumption
<1>5. ChargedFor(d, told)
  <2>1. \A g \in Grants : OfGrant(d, g) = {}
    BY DEF OfGrant
  <2>2. ASSUME NEW g \in Grants
        PROVE  /\ d.grants[g].bytes = 0 /\ d.queries[g] = 0 /\ told[g] = 0
               /\ Allowance[g] \in Nat
    BY DisclosureAssumption DEF Init, DisclosureAssumption
  <2> HIDE DEF d
  <2>3. Cardinality({}) = 0
    BY <1>3
  <2> QED  BY <2>1, <2>2, <2>3 DEF ChargedFor
<1>6. KeptIn(d, synced, answered, tokens, now, silenced)
  BY DEF KeptIn, Init
<1>7. SoundNow(doc) /\ SoundNow(disk)
  BY <1>1, <1>4, <1>5, <1>6 DEF SoundNow, Sound
<1>8. Placed = {} /\ Rows = {}
  BY DEF Init, Placed, Rows
<1>9. ChainInv
  <2>1. OneChain /\ HasTips(Placed)
    BY <1>8 DEF OneChain, Ordered, HasTips
  <2>2. /\ files \in [Revisions -> [grant : Grants \cup {"none"}, created : 0..MaxTime \cup {Absent}]]
        /\ \A r \in Revisions : files[r] = NoFile
    BY DEF Init, NoFile
  <2>3. index \in [Revisions -> 0..now \cup {Absent}] /\ synced \subseteq Placed
    BY DEF Init
  <2> QED  BY <1>8, <2>1, <2>2, <2>3 DEF ChainInv
<1>10. HistoryType
  <2>1. now = 0 /\ boot = 0 /\ faults = 0 /\ MaxTime \in Nat /\ MaxFaults \in Nat
    BY DisclosureAssumption DEF Init, DisclosureAssumption
  <2>2. now \in 0..MaxTime /\ boot \in 0..now /\ faults \in 0..MaxFaults
    BY <2>1
  <2>3. told \in [Grants -> Nat]
    BY DEF Init
  <2>4. answered = {} /\ tokens = {} /\ silenced = {} /\ orphaned \in BOOLEAN
    BY DEF Init
  <2> QED  BY <2>2, <2>3, <2>4 DEF HistoryType
<1>11. SessionInv
  BY DEF SessionInv, Init
<1> QED  BY <1>7, <1>9, <1>10, <1>11 DEF DisclosureInv

LEMMA DisclosureStep == DisclosureInv /\ [Next]_vars => DisclosureInv'
<1> SUFFICES ASSUME DisclosureInv, [Next]_vars PROVE DisclosureInv'
  OBVIOUS
<1>1. ASSUME NEW g \in Grants, Install(g) \/ Revoke(g) \/ Expire(g) PROVE DisclosureInv'
  BY <1>1, InstallKeeps, RevokeKeeps, ExpireKeeps
<1>2. CASE Startup
  BY <1>2, StartupKeeps
<1>3. ASSUME NEW w \in Writes, NEW at \in 0..MaxTime, BeginWrite(w, at) \/ Retry(w, at)
      PROVE  DisclosureInv'
  BY <1>3, BeginWriteKeeps, RetryKeeps
<1>4. ASSUME NEW g \in Grants, NEW at \in 0..MaxTime, NEW more \in BOOLEAN, NEW cursor,
             Query(g, at, cursor, more)
      PROVE  DisclosureInv'
  BY <1>4, QueryKeeps
<1>5. ASSUME NEW g \in Grants, NEW at \in 0..MaxTime, Export(g, at) PROVE DisclosureInv'
  BY <1>5, QueryKeeps DEF Export
<1>6. CASE Step
  BY <1>6, PlaceKeeps, SettleKeeps, ProjectKeeps, ConflictKeeps, CommitKeeps, AnswerKeeps DEF Step
<1>7. CASE Tick \/ Fail \/ PowerLoss \/ LoseIndex
  BY <1>7, TickKeeps, FailKeeps, PowerLossKeeps, LoseIndexKeeps
<1>8. CASE UNCHANGED vars
  <2>1. UNCHANGED <<now, boot, doc, disk, files, synced, index, session, told, answered, tokens,
                    silenced, orphaned, faults>>
    BY <1>8 DEF vars
  <2>2. ChainInv' /\ HistoryType'
    BY <2>1, ChainStays, InvTypes DEF DisclosureInv, HistoryType
  <2>3. (SoundNow(doc))' /\ (SoundNow(disk))'
    BY <2>1, InvTypes, DocumentStays
  <2>4. SessionInv'
    <3>1. Placed' = Placed /\ (\A w, at : Staged(w, at)' = Staged(w, at))
      BY <2>1 DEF Placed, Staged, Loaded
    <3>2. Writing <=> Writing'
      BY <2>1, <3>1
      DEF Writing, WriteSession, Affordable, Receipts, Staged, Loaded
    <3>3. (AnsweringWrite <=> AnsweringWrite') /\ (AnsweringRead <=> AnsweringRead')
      BY <2>1 DEF AnsweringWrite, AnsweringRead
    <3> QED  BY <2>1, <3>2, <3>3 DEF DisclosureInv, SessionInv
  <2> QED  BY <2>2, <2>3, <2>4 DEF DisclosureInv
<1> QED
  BY <1>1, <1>2, <1>3, <1>4, <1>5, <1>6, <1>7, <1>8 DEF Next

LEMMA DisclosureAlways == Spec => []DisclosureInv
BY DisclosureInit, DisclosureStep, PTL DEF Spec

LEMMA InvGivesTypeOK == DisclosureInv => TypeOK
<1> SUFFICES ASSUME DisclosureInv PROVE TypeOK
  OBVIOUS
<1>1. /\ now \in 0..MaxTime /\ doc \in Document /\ disk \in Document
      /\ told \in [Grants -> Nat] /\ answered \subseteq Writes /\ silenced \subseteq Grants
  BY InvTypes
<1>2. /\ Cardinality(doc.receipts) <= MaxReceipts
      /\ \A v, w \in doc.receipts : v.request = w.request => v = w
  BY DEF DisclosureInv, SoundNow, Sound, Limited
<1>3. /\ \A r \in Revisions : files[r] = NoFile \/ files[r].created \in 0..now
      /\ synced \subseteq Placed /\ index \in [Revisions -> 0..now \cup {Absent}]
  BY DEF DisclosureInv, ChainInv
<1>4. session.step \in {"idle", "place", "settle", "project", "commit", "answer"}
  BY SessionSteps DEF DisclosureInv
<1>5. faults \in 0..MaxFaults
  BY DEF DisclosureInv, HistoryType
<1> QED  BY <1>1, <1>2, <1>3, <1>4, <1>5 DEF TypeOK

LEMMA InvGivesCharged == DisclosureInv => DisclosedIsCharged
<1> SUFFICES ASSUME DisclosureInv, NEW d \in {doc, disk}, NEW g \in Grants
             PROVE  /\ told[g] <= d.grants[g].bytes
                    /\ d.grants[g].bytes <= Allowance[g]
                    /\ d.grants[g].state # "revoked" =>
                         d.grants[g].bytes =
                           d.queries[g] + Cardinality({w \in d.receipts : w.grant = g})
  BY DEF DisclosedIsCharged
<1>1. ChargedFor(d, told)
  BY DEF DisclosureInv, SoundNow, Sound
<1> QED  BY <1>1 DEF ChargedFor, OfGrant

LEMMA InvGivesKept == DisclosureInv => AnsweredIsKept
<1> SUFFICES ASSUME DisclosureInv PROVE AnsweredIsKept
  OBVIOUS
<1>1. KeptIn(disk, synced, answered, tokens, now, silenced)
  BY DEF DisclosureInv, SoundNow, Sound
<1> QED  BY <1>1 DEF KeptIn, AnsweredIsKept

LEMMA InvGivesChain == DisclosureInv => OneChain
BY DEF DisclosureInv, ChainInv

(* A step after the revocation of a grant was acknowledged discloses and writes *)
(* nothing under it: the session that is under way is another grant's. *)
LEMMA SilencedStep ==
  ASSUME DisclosureInv, [Next]_vars, NEW g \in silenced
  PROVE  told'[g] = told[g] /\ \A r \in Revisions : files'[r].grant = g => files[r].grant = g
<1>1. g \in Grants /\ doc.grants[g].state = "revoked"
  BY InvTypes DEF DisclosureInv, SoundNow, Sound, KeptIn
<1>2. CASE Answer
  <2>1. files' = files
    BY <1>2 DEF Answer
  <2>2. session.step = "answer"
    BY <1>2 DEF Answer
  <2>3. CASE AnsweringWrite /\ IsWrite
    <3>1. session.write.grant # g
      BY <1>1, <2>3 DEF AnsweringWrite
    <3>2. told' = [told EXCEPT ![session.write.grant] = @ + 1]
      BY <1>2, <2>3 DEF Answer
    <3>3. told \in [Grants -> Nat]
      BY InvTypes
    <3> QED  BY <1>1, <2>1, <3>1, <3>2, <3>3
  <2>4. CASE AnsweringRead /\ ~IsWrite
    <3>1. session.grant # g
      BY <1>1, <2>4 DEF AnsweringRead
    <3>2. told' = [told EXCEPT ![session.grant] = @ + 1]
      BY <1>2, <2>4 DEF Answer
    <3>3. told \in [Grants -> Nat]
      BY InvTypes
    <3> QED  BY <1>1, <2>1, <3>1, <3>2, <3>3
  <2> QED  BY <2>2, <2>3, <2>4, SessionSteps DEF DisclosureInv
<1>3. CASE Place
  <2>1. session.step = "place"
    BY <1>3 DEF Place
  <2>2. Writing
    BY <2>1, SessionSteps DEF DisclosureInv
  <2>3. session.write.grant # g
    BY <1>1, <2>2 DEF Writing
  <2>4. /\ told' = told
        /\ files' = [files EXCEPT ![session.write.revision] =
                       [grant |-> session.write.grant, created |-> session.at]]
    BY <1>3 DEF Place, history
  <2>5. \A r \in Revisions : \/ files'[r] = files[r]
                             \/ files'[r].grant = session.write.grant
    BY <2>4 DEF DisclosureInv, ChainInv
  <2> QED  BY <2>3, <2>4, <2>5
<1>4. CASE PowerLoss
  <2>1. told' = told /\ \A r \in Revisions : files'[r] \in {files[r], NoFile}
    BY <1>4 DEF PowerLoss
  <2>2. NoFile.grant # g
    BY <1>1, DisclosureAssumption DEF NoFile, DisclosureAssumption
  <2> QED  BY <2>1, <2>2
<1>5. CASE told' = told /\ files' = files
  BY <1>5
<1>6. (told' = told /\ files' = files) \/ Answer \/ Place \/ PowerLoss
  <2>1. ASSUME NEW h \in Grants, Install(h) \/ Revoke(h) \/ Expire(h)
        PROVE  told' = told /\ files' = files
    BY <2>1 DEF Install, Revoke, Expire, history
  <2>2. CASE Startup \/ Tick \/ Fail \/ LoseIndex
    BY <2>2 DEF Startup, Tick, Fail, LoseIndex, history
  <2>3. ASSUME NEW w \in Writes, NEW at \in 0..MaxTime, BeginWrite(w, at) \/ Retry(w, at)
        PROVE  told' = told /\ files' = files
    BY <2>3 DEF BeginWrite, Retry, history
  <2>4. ASSUME NEW h \in Grants, NEW at \in 0..MaxTime, NEW more \in BOOLEAN, NEW cursor,
               Query(h, at, cursor, more) \/ Export(h, at)
        PROVE  told' = told /\ files' = files
    BY <2>4 DEF Query, Export, history
  <2>5. CASE Settle \/ Project \/ Conflict \/ Commit
    BY <2>5 DEF Settle, Project, Conflict, Commit, history
  <2>6. CASE UNCHANGED vars
    BY <2>6 DEF vars
  <2> QED  BY <2>1, <2>2, <2>3, <2>4, <2>5, <2>6 DEF Next, Step
<1> QED  BY <1>2, <1>3, <1>4, <1>5, <1>6

LEMMA SilencedSteps ==
  DisclosureInv /\ [Next]_vars =>
    [\A g \in silenced : told'[g] = told[g] /\ \A r \in Revisions :
       files'[r].grant = g => files[r].grant = g]_vars
BY SilencedStep

(* Every variable keeps its type, the receipts of the document keep within their *)
(* limit, and a request ID has at most one of them, whatever fails. *)
THEOREM TypeCorrect == Spec => []TypeOK
BY DisclosureAlways, InvGivesTypeOK, PTL

(* Whatever the grants, their limits and the number of failures, every response that *)
(* was returned is charged in the document that is read and in the one a power loss *)
(* may leave, and never beyond the allowance. *)
THEOREM DisclosureIsCharged == Spec => []DisclosedIsCharged
BY DisclosureAlways, InvGivesCharged, PTL

(* What a client was told (a written revision, its receipt, a cursor, a revocation) *)
(* stays so through kills, power losses and lost indexes. *)
THEOREM AnswersAreKept == Spec => []AnsweredIsKept
BY DisclosureAlways, InvGivesKept, PTL

(* The files of an artifact are at every moment one chain that recovery accepts, in *)
(* which each revision follows its parent under a grant that covers it. *)
THEOREM FilesAreOneChain == Spec => []OneChain
BY DisclosureAlways, InvGivesChain, PTL

(* No step discloses or writes anything under a grant whose revocation has been *)
(* acknowledged. *)
THEOREM RevocationSilences == Spec => SilencedIsSilent
<1>1. DisclosureInv /\ [Next]_vars =>
        [\A g \in silenced : told'[g] = told[g] /\ \A r \in Revisions :
           files'[r].grant = g => files[r].grant = g]_vars
  BY SilencedSteps
<1> QED  BY <1>1, DisclosureAlways, PTL DEF Spec, SilencedIsSilent
===============================================================================
