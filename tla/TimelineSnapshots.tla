-------------------------- MODULE TimelineSnapshots --------------------------
(* Readers of the projection while it changes under them: the pages and details *)
(* of the app, which all belong to one snapshot token (lib.rs of chronicle-ffi), *)
(* and the pages of the shared service, which follow the current rows from a *)
(* cursor (service.rs, queries.rs, search.rs). The projection grows by late *)
(* evidence and by revisions whose instant lies in the past, is replaced by a *)
(* rebuild, and is emptied by a deletion. *)
(* One device. An instant is a whole second and stands for the bucket that begins *)
(* with it: bucket b is [b, b + 1), and its chunk is due at b + 1. A reader sends *)
(* the filter it began with, so the scope digest of its token always fits; a call *)
(* that is refused changes nothing and is not a step. *)
EXTENDS Naturals, Sequences, SequencesExt

CONSTANTS
  Events, BucketOf,    \* event IDs in the order of (observed_at, event_id)
  Gaps,                \* the events that are recording gaps
  Texts,               \* the observations whose text a search looks for
  Artifacts, Cites,    \* the evidence the revisions of an artifact cite
  MaxRevisions,        \* IDs for the revisions of a chunk or an artifact
  MaxRecords, MaxAll,  \* records written: of each kind, and of all kinds
  Filters,             \* [from, until, events]; no events: no filter but the range
  Grants,              \* time scopes: [from, until], or [seconds] before now
  PageLimit, DayLength,
  MaxTime,
  Faults, MaxFaults

ASSUME TimelineAssumption ==
  /\ Events \subseteq Nat \ {0} /\ Artifacts \subseteq Nat \ {0}
  /\ BucketOf \in [Events -> 1..MaxTime]
  /\ Gaps \subseteq Events /\ Texts \subseteq Events \ Gaps
  /\ Cites \in [Artifacts -> SUBSET Events]
  /\ Filters \subseteq [from : 1..MaxTime, until : 1..MaxTime, events : SUBSET Events]
  /\ Grants \subseteq [from : 1..MaxTime, until : 1..MaxTime] \cup [seconds : 1..MaxTime]
  /\ MaxRecords \in [{"event", "chunk", "artifact"} -> Nat]
  /\ {MaxRevisions, PageLimit, DayLength} \subseteq Nat \ {0} /\ MaxAll \in Nat
  /\ MaxTime \in Nat /\ MaxFaults \in Nat
  /\ Faults \subseteq {"rollback", "lag", "rebuild", "delete"}

VARIABLES
  now,
  journal,     \* kind -> the canonical records, in the order they were written
  rows,        \* kind -> the rows of the projection, by rowid
  instance,    \* projection_identity of the index file
  generation,  \* of the store
  handle,      \* generation the app's handle was opened with, 0: closed
  reader,      \* the reader in progress and the pages it has been given
  faults

vars == <<now, journal, rows, instance, generation, handle, reader, faults>>

Kinds == {"event", "chunk", "artifact"}
Buckets == {BucketOf[e] : e \in Events}

(* A record: the ID of what it belongs to and its own, when it was recorded, *)
(* generated or created, and the events it cites. *)
Record ==
  [id : (Events \cup Buckets \cup Artifacts) \X (1..MaxRevisions),
   at : 1..MaxTime, cites : SUBSET Events]

NoReader == [side |-> "none"]
None == <<>>

Init ==
  /\ now = 1
  /\ journal = [k \in Kinds |-> <<>>]
  /\ rows = journal
  /\ instance = 1 /\ generation = 1
  /\ handle = 1
  /\ reader = NoReader
  /\ faults = 0

Group(r) == r.id[1]
Recs(s) == {s[i] : i \in DOMAIN s}
Groups(S) == {Group(r) : r \in S}
OfGroup(s, g) == SelectSeq(s, LAMBDA r : Group(r) = g)
Greatest(S) == CHOOSE x \in S : \A y \in S : y <= x
CanFail(kind) == kind \in Faults /\ faults < MaxFaults

-----------------------------------------------------------------------------
(* The projection. *)

Unprojected(k) == SelectSeq(journal[k], LAMBDA r : r \notin Recs(rows[k]))
Lagging == \E k \in Kinds : Unprojected(k) # <<>>

(* The current pointer: each revision is projected after its prior one. *)
Current(k, g) == Last(OfGroup(rows[k], g))
Currents(k) == {Current(k, g) : g \in Groups(Recs(rows[k]))}

(* A record is written, and projected unless that fails. *)
Written(k, r) ==
  /\ Len(journal[k]) < MaxRecords[k]
  /\ Len(journal["event"]) + Len(journal["chunk"]) + Len(journal["artifact"]) < MaxAll
  /\ journal' = [journal EXCEPT ![k] = Append(@, r)]
  /\ \/ rows' = [rows EXCEPT ![k] = Append(@, r)] /\ UNCHANGED faults
     \/ CanFail("lag") /\ faults' = faults + 1 /\ UNCHANGED rows

(* IngestEngine::ingest: an observation or a gap is recorded, perhaps late. Only the *)
(* app, which holds the capture lease, records and finalizes. *)
Ingest(e) ==
  /\ handle # 0 /\ ~Lagging
  /\ BucketOf[e] <= now
  /\ \A r \in Recs(journal["event"]) : Group(r) # e
  /\ Written("event", [id |-> <<e, 1>>, at |-> now, cites |-> {e}])
  /\ UNCHANGED <<now, instance, generation, handle, reader>>

(* build_chunk: everything recorded of the bucket; the revision's instant is when *)
(* the bucket was due or its last evidence was recorded. *)
EvidenceOf(b) == {r \in Recs(rows["event"]) : BucketOf[Group(r)] = b}
GeneratedAt(b) == Greatest({b + 1} \cup {r.at : r \in EvidenceOf(b)})
(* Revision IDs are digests, in any order. They are only compared with each other, *)
(* so that the first one may be the middle one. *)
NewIds(k, g) ==
  LET taken == {r.id : r \in Recs(OfGroup(journal[k], g))} IN
    IF taken = {} THEN {<<g, (MaxRevisions + 1) \div 2>>}
    ELSE {<<g, n>> : n \in 1..MaxRevisions} \ taken

(* finalize_due, for one bucket: its evidence is not the current revision's, and the *)
(* instant of the revision has come. *)
FinalizeAtNow(b) ==
  /\ handle # 0 /\ ~Lagging
  /\ EvidenceOf(b) # {} /\ b + 1 <= now
  /\ LET cites == Groups(EvidenceOf(b)) IN
       /\ \A r \in Currents("chunk") : Group(r) = b => r.cites # cites
       /\ \E id \in NewIds("chunk", b) :
            Written("chunk", [id |-> id, at |-> now, cites |-> cites])
  /\ UNCHANGED <<now, instance, generation, handle, reader>>
Finalize(b) ==
  /\ handle # 0 /\ ~Lagging
  /\ EvidenceOf(b) # {} /\ GeneratedAt(b) <= now
  /\ LET cites == Groups(EvidenceOf(b)) IN
       /\ \A r \in Currents("chunk") : Group(r) = b => r.cites # cites
       /\ \E id \in NewIds("chunk", b) :
            Written("chunk", [id |-> id, at |-> GeneratedAt(b), cites |-> cites])
  /\ UNCHANGED <<now, instance, generation, handle, reader>>

(* write_derived: a revision of an artifact, not older than the one it follows. *)
Derive(a) ==
  /\ ~Lagging
  /\ Cites[a] \subseteq Groups(Recs(rows["event"]))
  /\ \A r \in Currents("artifact") : Group(r) = a => r.at <= now
  /\ \E id \in NewIds("artifact", a) :
       Written("artifact", [id |-> id, at |-> now, cites |-> Cites[a]])
  /\ UNCHANGED <<now, instance, generation, handle, reader>>

(* project_unindexed: what the journals have and the projection has not. *)
CaughtUpAgain == [k \in Kinds |-> rows[k] \o journal[k]]
CaughtUp == [k \in Kinds |-> rows[k] \o Unprojected(k)]
Recover ==
  /\ Lagging
  /\ rows' = CaughtUp
  /\ UNCHANGED <<now, journal, instance, generation, handle, reader, faults>>

(* rebuild_index_locked: events and chunks by the day of their shard, artifacts one *)
(* chain after the other, into a new index file that replaces the old one. A chunk *)
(* revision that would come before its prior one stops it. *)
Day(r) == r.at \div DayLength
ByDay(s) ==
  FoldLeft(LAMBDA t, d : t \o SelectSeq(s, LAMBDA r : Day(r) = d), <<>>,
           SetToSortSeq({Day(r) : r \in Recs(s)}, <))
ByArtifact(s) ==
  FoldLeft(LAMBDA t, a : t \o OfGroup(s, a), <<>>, SetToSortSeq(Groups(Recs(s)), <))
Rescanned ==
  [k \in Kinds |-> IF k = "artifact" THEN ByArtifact(journal[k]) ELSE ByDay(journal[k])]
Rebuild ==
  /\ CanFail("rebuild")
  /\ \A b \in Buckets : OfGroup(Rescanned["chunk"], b) = OfGroup(journal["chunk"], b)
  /\ rows' = Rescanned
  /\ instance' = instance + 1
  /\ faults' = faults + 1
  /\ UNCHANGED <<now, journal, generation, handle, reader>>

(* An evidence deletion takes the capture lease, so the app's handle is closed. *)
(* Here it takes everything. *)
Delete ==
  /\ CanFail("delete")
  /\ handle = 0
  /\ journal' = [k \in Kinds |-> <<>>]
  /\ rows' = [k \in Kinds |-> <<>>]
  /\ instance' = instance + 1 /\ generation' = generation + 1
  /\ faults' = faults + 1
  /\ UNCHANGED <<now, handle, reader>>

Tick ==
  /\ now < MaxTime
  /\ now' = now + 1
  /\ UNCHANGED <<journal, rows, instance, generation, handle, reader, faults>>

RollBack ==
  /\ CanFail("rollback")
  /\ now > 1
  /\ now' = now - 1
  /\ faults' = faults + 1
  /\ UNCHANGED <<journal, rows, instance, generation, handle, reader>>

-----------------------------------------------------------------------------
(* Snapshot tokens. *)

HighWater == [k \in Kinds |-> Len(rows[k])]
Anchors(high) ==
  [k \in Kinds |-> IF high[k] \in DOMAIN rows[k] THEN rows[k][high[k]].id ELSE None]

Mint(cutoff) ==
  [generation |-> handle, instance |-> instance, cutoff |-> cutoff,
   high |-> HighWater, anchors |-> Anchors(HighWater)]

(* ensure_snapshot_projection_identity. *)
SameProjectionByHeight(token) == \A k \in Kinds : token.high[k] <= Len(rows[k])
SameProjection(token) ==
  /\ token.instance = instance
  /\ \A k \in Kinds : token.high[k] <= Len(rows[k])
  /\ Anchors(token.high) = token.anchors

Serves == handle # 0 /\ handle = generation
Accepts(token) ==
  /\ Serves /\ token.generation = handle
  /\ token.cutoff <= now
  /\ SameProjection(token)

(* The rows of a snapshot. The recorded_at of an event is compared as text with the *)
(* cutoff, in another notation of UTC that sorts before it: the very second of the *)
(* cutoff is not in. The columns of the other rows have the notation of the cutoff. *)
Within(k, r, cutoff) == IF k = "event" THEN r.at < cutoff ELSE r.at <= cutoff
VisibleUnbounded(k, token) == {r \in Recs(rows[k]) : Within(k, r, token.cutoff)}
Visible(k, token) ==
  {r \in Recs(SubSeq(rows[k], 1, token.high[k])) : Within(k, r, token.cutoff)}

Newer(s, r) ==
  /\ Group(s) = Group(r)
  /\ \/ s.at > r.at
     \/ s.at = r.at /\ s.id[2] > r.id[2]
Latest(k, token) ==
  {r \in Visible(k, token) : \A s \in Visible(k, token) : ~Newer(s, r)}

(* Only some readers take a filter of events. *)
FilterFits(kind, f) ==
  /\ f.from < f.until
  /\ kind \in {"analysis", "list-derived", "supporting-evidence"} => f.events = {}
  /\ kind = "supporting-evidence" => f.until = f.from + 1   \* of one chunk

InRange(f, t) == f.from <= t /\ t < f.until
Matches(f, r) == f.events # {} => f.events \cap r.cites # {}

(* The factual report of a range: the chunks it has, the buckets without one, which *)
(* count as a gap, and the events the chunks cite. *)
CurrentInRange(f) == {r \in Currents("chunk") : InRange(f, Group(r))}
ChunksAtCutoff(f, token) == {r \in Latest("chunk", token) : InRange(f, Group(r))}
Statistics(f, chunks) ==
  [activity_chunks |-> chunks,
   missing |-> {b \in f.from .. f.until - 1 : \A r \in chunks : Group(r) # b}]
FactualReport(f) ==
  LET report == Statistics(f, CurrentInRange(f)) IN
    [activity_buckets |-> report.activity_chunks, missing |-> report.missing,
     source_event_ids |-> UNION {r.cites : r \in report.activity_chunks}]

(* What the pages of one token are pages of, and the report every page carries. *)
ChunkScope(f, token) ==
  {r \in Latest("chunk", token) : InRange(f, Group(r)) /\ Matches(f, r)}
SearchScope(f, token) ==
  {r \in Visible("event", token) :
     InRange(f, BucketOf[Group(r)]) /\ Matches(f, r) /\ Group(r) \in Texts}
ArtifactScope(f, token) == {r \in Latest("artifact", token) : InRange(f, r.at)}

TimelinePage(f, token) ==
  [scope |-> ChunkScope(f, token), coverage |-> Statistics(f, ChunksAtCutoff(f, token))]
TimelineSearch(f, token) ==
  [scope |-> SearchScope(f, token), coverage |-> Statistics(f, ChunksAtCutoff(f, token))]
AnalysisPage(f, token) ==
  [scope |-> ArtifactScope(f, token), coverage |-> None]
Answer(kind, f, token) ==
  CASE kind = "page" -> TimelinePage(f, token)
    [] kind = "search" -> TimelineSearch(f, token)
    [] kind = "analysis" -> AnalysisPage(f, token)

(* Details, asked for by ID with a token: a set of at most one record. *)
RevisionAtSnapshot(token, id) == {r \in Visible("chunk", token) : r.id = id}
ChunkAtCutoffOfAny(token, b) ==
  LET all == {r \in VisibleUnbounded("chunk", token) : Group(r) = b}
  IN {r \in all : \A s \in all : ~Newer(s, r)}
ChunkAtCutoff(token, b) ==
  LET all == {r \in Visible("chunk", token) : Group(r) = b}
  IN {r \in all : \A s \in all : ~Newer(s, r)}
EventAtSnapshot(token, e) == {r \in Visible("event", token) : Group(r) = e}
ArtifactAtSnapshot(token, a, ids) ==
  IF ids = {} THEN {r \in Latest("artifact", token) : Group(r) = a}
  ELSE {r \in Visible("artifact", token) : Group(r) = a /\ r.id \in ids}

ChunkDetail(token, b, ids) ==
  IF ~Accepts(token) THEN {}
  ELSE IF ids = {} THEN ChunkAtCutoff(token, b)
  ELSE UNION {RevisionAtSnapshot(token, id) : id \in ids}
EventDetail(token, e) == IF Accepts(token) THEN EventAtSnapshot(token, e) ELSE {}
AnalysisDetail(token, a, ids) ==
  IF Accepts(token) THEN ArtifactAtSnapshot(token, a, ids) ELSE {}

-----------------------------------------------------------------------------
(* Readers. *)

Ordered(S) == SetToSortSeq(S, LAMBDA r, s : Group(r) < Group(s))

(* What follows the cursor; one row more than the page tells whether there is a *)
(* next one. *)
After(S, cursor) == Ordered({r \in S : cursor = 0 \/ Group(r) > cursor})
Page(rest) == IF Len(rest) <= PageLimit THEN rest ELSE SubSeq(rest, 1, PageLimit)
NextCursor(rest) == IF Len(rest) > PageLimit THEN Group(rest[PageLimit]) ELSE 0
Turned(d, rest) == [d EXCEPT !.pages = @ \o Page(rest), !.next = NextCursor(rest)]

(* timeline_page, timeline_search, analysis_page without a token; the app's cutoff *)
(* is its clock ... *)
FirstPage(kind, f) ==
  /\ reader = NoReader
  /\ Serves
  /\ FilterFits(kind, f) /\ f.until <= now
  /\ LET token == Mint(now)
         answer == Answer(kind, f, token)
     IN /\ answer.scope # {}   \* a bound: nothing is asked of an empty page
        /\ reader' = Turned([side |-> "app", kind |-> kind, filter |-> f, token |-> token,
                             pages |-> <<>>, next |-> 0,
                             began |-> [answer EXCEPT !.scope = Ordered(@)]],
                            After(answer.scope, 0))
  /\ UNCHANGED <<now, journal, rows, instance, generation, handle, faults>>

(* ... and with the token and the cursor of the page before. *)
NextPage ==
  /\ reader.side = "app" /\ reader.next # 0
  /\ Accepts(reader.token)
  /\ LET S == Answer(reader.kind, reader.filter, reader.token).scope IN
       /\ reader.next \in Groups(S)
       /\ reader' = Turned(reader, After(S, reader.next))
  /\ UNCHANGED <<now, journal, rows, instance, generation, handle, faults>>

(* What a request of the shared service selects, and the *)
(* cursors it knows: a cursor has to be found again among all current chunks, the hits *)
(* or the supporting events; that of the artifacts is only a lower bound. *)
ChunksOfFilter(f) == {r \in CurrentInRange(f) : Matches(f, r)}
Hits(f) ==
  {r \in Recs(rows["event"]) :
     InRange(f, BucketOf[Group(r)]) /\ Matches(f, r) /\ Group(r) \in Texts}
SupportingEvents(b) ==
  {r \in Recs(rows["event"]) :
     \E c \in Currents("chunk") : Group(c) = b /\ Group(r) \in c.cites}
ArtifactsOfRange(f) ==
  {r \in Currents("artifact") :
     InRange(f, r.at) /\ \A e \in r.cites : InRange(f, BucketOf[e])}
ArtifactRanges(r) == {r.at} \cup {BucketOf[e] : e \in r.cites}

ListChunks(f) ==
  [rows |-> ChunksOfFilter(f), cursors |-> Groups(Currents("chunk"))]
SearchActivity(f) == [rows |-> Hits(f), cursors |-> Groups(Hits(f))]
SupportingEvidence(f) ==
  [rows |-> SupportingEvents(f.from), cursors |-> Groups(SupportingEvents(f.from))]
ListDerived(f) ==
  [rows |-> {r \in ArtifactsOfRange(f) : \A t \in ArtifactRanges(r) : InRange(f, t)},
   cursors |-> Artifacts]
Selected(kind, f) ==
  CASE kind = "list-chunks" -> ListChunks(f)
    [] kind = "search-activity" -> SearchActivity(f)
    [] kind = "supporting-evidence" -> SupportingEvidence(f)
    [] kind = "list-derived" -> ListDerived(f)

(* authorize_query: the part of the range that the grant allows now. A request for a *)
(* single chunk is not cut down. The scope digest of a cursor covers the result. *)
Allowed(g) ==
  IF "seconds" \in DOMAIN g
  THEN [from |-> IF now > g.seconds THEN now - g.seconds ELSE 1, until |-> now] ELSE g
Effective(g, f) ==
  [f EXCEPT !.from = Greatest({@, Allowed(g).from}),
            !.until = IF @ < Allowed(g).until THEN @ ELSE Allowed(g).until]
RequiresFullRange(kind) == kind = "supporting-evidence"
Authorized(g, kind, f) ==
  LET e == Effective(g, f) IN
    /\ e.from < e.until
    /\ RequiresFullRange(kind) => e = f
ScopeDigestOfRequest(g, kind, f) == <<kind, f>>
ScopeDigest(g, kind, f) == <<kind, f, Effective(g, f)>>

SharedAfter(S, cursor) == Ordered({r \in S : cursor = 0 \/ Group(r) > cursor})

SharedPage(g, kind, f) ==
  /\ reader = NoReader
  /\ FilterFits(kind, f) /\ f.events \cap Gaps = {}
  /\ Authorized(g, kind, f)
  /\ LET S == Selected(kind, Effective(g, f)).rows
     IN /\ S # {}
        /\ reader' = Turned([side |-> "shared", grant |-> g, kind |-> kind, filter |-> f,
                             token |-> [generation |-> generation,
                                        scope |-> ScopeDigest(g, kind, f)],
                             pages |-> <<>>, next |-> 0, began |-> Ordered(S)],
                            SharedAfter(S, 0))
  /\ UNCHANGED <<now, journal, rows, instance, generation, handle, faults>>

SharedNextPage ==
  /\ reader.side = "shared" /\ reader.next # 0
  /\ reader.token.generation = generation
  /\ Authorized(reader.grant, reader.kind, reader.filter)
  /\ reader.token.scope = ScopeDigest(reader.grant, reader.kind, reader.filter)
  /\ LET selected == Selected(reader.kind, Effective(reader.grant, reader.filter)) IN
       /\ reader.next \in selected.cursors
       /\ reader' = Turned(reader, SharedAfter(selected.rows, reader.next))
  /\ UNCHANGED <<now, journal, rows, instance, generation, handle, faults>>

(* The reader goes away, or starts over after a refusal. *)
Leave ==
  /\ reader # NoReader
  /\ reader' = NoReader
  /\ UNCHANGED <<now, journal, rows, instance, generation, handle, faults>>

(* chronicle_open recovers the projection and keeps the capture lease until *)
(* chronicle_close. *)
Open ==
  /\ handle = 0
  /\ handle' = generation
  /\ rows' = CaughtUp
  /\ UNCHANGED <<now, journal, instance, generation, reader, faults>>
Close ==
  /\ handle # 0
  /\ CanFail("delete") /\ reader # NoReader   \* a bound: only to delete under a reader
  /\ handle' = 0
  /\ UNCHANGED <<now, journal, rows, instance, generation, reader, faults>>

AppKinds == {"page", "search", "analysis"}
SharedKinds == {"list-chunks", "search-activity", "supporting-evidence", "list-derived"}

Next ==
  \/ \E e \in Events : Ingest(e)
  \/ \E b \in Buckets : Finalize(b)
  \/ \E a \in Artifacts : Derive(a)
  \/ Recover \/ Rebuild \/ Delete \/ Tick \/ RollBack \/ Open \/ Close
  \/ \E kind \in AppKinds, f \in Filters : FirstPage(kind, f)
  \/ \E g \in Grants, kind \in SharedKinds, f \in Filters : SharedPage(g, kind, f)
  \/ NextPage \/ SharedNextPage \/ Leave

Spec == Init /\ [][Next]_vars

-----------------------------------------------------------------------------
(* The rows are records of the journals, each once, revisions after their prior *)
(* one; the handle was opened in this generation or a deletion waits for it. *)
TypeOK ==
  /\ now \in 1..MaxTime
  /\ \A k \in Kinds :
       /\ Recs(journal[k]) \subseteq Record
       /\ IsInjective(rows[k]) /\ Recs(rows[k]) \subseteq Recs(journal[k])
       /\ \A g \in Groups(Recs(rows[k])) :
            IsPrefix(OfGroup(rows[k], g), OfGroup(journal[k], g))
  /\ handle \in {0, generation}

(* The pages of one token are pages of one snapshot: what they have shown so far *)
(* begins what a single page would have shown when the token was minted, the last *)
(* page completes it, until then the cursor is found again, and all of them say the *)
(* same of what is covered - whatever late revision, catch-up, rebuild or deletion *)
(* came in between (lib.rs, resolve_timeline_snapshot; queries.rs, *)
(* projection_high_water). *)
OneSnapshot ==
  reader.side = "app" =>
    /\ IsPrefix(reader.pages, reader.began.scope)
    /\ (reader.next = 0) => reader.pages = reader.began.scope
    /\ Accepts(reader.token) =>
         LET answer == Answer(reader.kind, reader.filter, reader.token) IN
           /\ (reader.next # 0) => reader.next \in Groups(answer.scope)
           /\ answer.coverage = reader.began.coverage

(* As long as the token is accepted, every band of a page opens as the revision it *)
(* shows, by revision and by chunk, so does every artifact, and the evidence of a *)
(* band that was recorded before the cutoff opens too (timeline_chunk_detail, *)
(* timeline_event_detail, analysis_detail). *)
DetailsOpen ==
  (reader.side = "app" /\ Accepts(reader.token)) =>
    \A r \in Recs(reader.pages) :
      /\ (reader.kind = "page") =>
           /\ ChunkDetail(reader.token, Group(r), {r.id}) = {r}
           /\ ChunkDetail(reader.token, Group(r), {}) = {r}
           /\ \A e \in Recs(rows["event"]) :
                (Group(e) \in r.cites /\ e.at < reader.token.cutoff) =>
                  EventDetail(reader.token, Group(e)) = {e}
      /\ (reader.kind = "search") => EventDetail(reader.token, Group(r)) = {r}
      /\ (reader.kind = "analysis") =>
           /\ AnalysisDetail(reader.token, Group(r), {}) = {r}
           /\ AnalysisDetail(reader.token, Group(r), {r.id}) = {r}

(* A timeline opened now shows what the factual report counts: nothing where that *)
(* sees a gap, and otherwise the same revision of each chunk, unless that one is *)
(* generated after now or shares its instant with an earlier one, when their IDs *)
(* decide (chunks_in_range_at_cutoff, current_chunks_in_range). *)
TimelineShowsReport ==
  Serves =>
    LET timeline == Latest("chunk", Mint(now))
        shown(b) == {r \in timeline : Group(r) = b} IN
      \A f \in Filters :
        LET report == FactualReport(f) IN
          /\ \A b \in report.missing : shown(b) = {}
          /\ report.source_event_ids \subseteq Groups(Recs(rows["event"]))
          /\ \A c \in report.activity_buckets :
               \/ shown(Group(c)) = {c}
               \/ c.at > now
               \/ \E r \in shown(Group(c)) : r.at = c.at

(* A reader of the shared service sees nothing twice, and when it has come to the *)
(* last page it has seen everything that was there when it began: chunks and events *)
(* whatever revision came in between, artifacts unless they were revised (service.rs, *)
(* run_query; current_chunk_page, search_inner, paginate_events). *)
WalkMissesNothing ==
  reader.side = "shared" =>
    /\ \A i, j \in DOMAIN reader.pages : i < j => Group(reader.pages[i]) < Group(reader.pages[j])
    /\ (reader.next = 0) =>
         \A r \in Recs(reader.began) :
           \/ Group(r) \in Groups(Recs(reader.pages))
           \/ reader.kind = "list-derived" /\ r \notin Currents("artifact")
=============================================================================
