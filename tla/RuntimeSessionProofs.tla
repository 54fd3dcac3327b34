------------------------- MODULE RuntimeSessionProofs -------------------------
(* Proofs about RuntimeSession, for every clock, every number of launches, of clock *)
(* corrections, of attempts and of failures, and every set of studies: the type     *)
(* invariant, that the session never claims time the journal does not account for,  *)
(* that gaps and evidence stay apart while the clock is not set back, and that a    *)
(* study found over admits nothing.                                                  *)
EXTENDS RuntimeSession, FiniteSetTheorems, TLAPS

(* The documents of config.json and the records of the journal. *)
Times == 0 .. MaxInstant
SessionSet == [id : {0} \cup Sessions, started : Times, heartbeat : Times, closed : Times]
ModeSet == [window : {<<>>} \cup Instants \X (1 .. MaxInstant + 1), expired : BOOLEAN]
GapSet ==
  [kind : {"gap"}, session : {0} \cup Sessions, start : Times, end : Times,
   reason : RuntimeReasons \cup {"quit", "clock-correction"}, recorded : Times]
AttemptSet == [kind : {"captured", "user-paused"}, observed : Times, recorded : Instants]
CompletionSet == [kind : {"completion"}, recorded : Instants]
EventSet == GapSet \cup AttemptSet \cup CompletionSet
ProofSet == {[id |-> <<k, t>>, at |-> t] : k \in {"attempt", "completion"}, t \in Instants}
StartupSet == [session : SessionSet, gaps : Seq(GapSet)]
ConfigSet ==
  [preference : BOOLEAN, mode : ModeSet, session : SessionSet, intent : SUBSET ProofSet,
   gap : GapSet \cup {NoGap}, last : {NoLast} \cup [session : {0} \cup Sessions,
   reason : RuntimeReasons, at : Times], startup : StartupSet \cup {NoStartup}]

(* What a document that waits in config.json says of the session. *)
PendingGap(c) ==
  /\ c.intent = {} /\ c.startup = NoStartup /\ c.session.closed = 0
  /\ c.gap = RuntimeGap(c.session.id, c.session.heartbeat, c.gap.recorded, c.gap.reason)
  /\ c.session.id # 0 /\ c.gap.reason \in RuntimeReasons /\ c.gap.recorded \in Instants
  /\ c.gap.reason # "clock-correction" => c.gap.recorded > c.session.heartbeat

CoveredBy(t, gaps) == \E i \in DOMAIN gaps : gaps[i].start <= t /\ t < gaps[i].end

PendingStartup(c) ==
  LET gaps == c.startup.gaps
      from == Boundary(c.session)
  IN /\ c.intent = {} /\ c.gap = NoGap
     /\ c.session.id # 0 /\ c.session.id < c.startup.session.id
     /\ c.startup.session = NewSession(c.startup.session.id, c.startup.session.started)
     /\ gaps # <<>> /\ from <= Last(gaps).end
     /\ \A t \in from .. Last(gaps).end - 1 : CoveredBy(t, gaps)
     /\ \A t \in Between(from, c.startup.session.started) : CoveredBy(t, gaps)

Document(c, l) ==
  /\ c \in ConfigSet
  /\ c.session.started <= c.session.heartbeat
  /\ Cardinality(c.intent) <= 2
  /\ c.session.id <= l
  /\ c.session.closed # 0 => c.intent = {} /\ c.session.closed >= c.session.heartbeat
  /\ c.gap # NoGap => PendingGap(c)
  /\ c.startup # NoStartup => PendingStartup(c) /\ c.startup.session.id <= l

(* The app and its launches l: it runs with the session of the last launch. *)
Ready(c, l) ==
  c.session.id = l /\ l # 0 /\ c.session.closed = 0 /\ c.startup = NoStartup

Launched(c, a, o, l) ==
  /\ a = "up" => Ready(c, l)
  /\ c.session.closed # 0 => c.session.id < l \/ (a = "off" /\ o.call # "startup")

(* What a call has established, by the step it is at. *)
CallOf(o, a, l, n) ==
  /\ o = [call |-> o.call, step |-> o.step, at |-> o.at, arg |-> o.arg]
  /\ o.at = n
  /\ \/ o.call = "startup" /\ o.arg = l /\ l # 0 /\ a # "up"
     \/ o.call = "gap" /\ o.arg \in RuntimeReasons /\ a = "up"
     \/ /\ o.call \in {"ingest", "retain"} /\ a = "up"
        /\ o.arg \in AttemptSet /\ o.arg.recorded = n
     \/ o.call = "terminate" /\ a = "up"

AnnouncedBy(o) ==
  {Proof(o.arg, o.arg.recorded)}
    \cup IF o.call = "retain" THEN {Proof(Completion(o.at), o.at)} ELSE {}

StepOf(o, c, j, x) ==
  \/ o.step = "intent" /\ c.gap = NoGap /\ c.startup = NoStartup
  \/ o.step = "record" /\ c.gap # NoGap
  \/ o.step = "settle" /\ c.gap # NoGap /\ c.gap \in j
  \/ o.step = "prepare" /\ c.gap = NoGap /\ c.intent = {}
  \/ /\ o.call = "startup" /\ c.startup # NoStartup /\ c.startup.session.id = o.arg
     /\ \/ o.step = "append"
        \/ o.step = "commit" /\ \A i \in DOMAIN c.startup.gaps : c.startup.gaps[i] \in j
  \/ /\ o.call = "gap" /\ c.gap # NoGap
     /\ o.step = "append" \/ (o.step = "commit" /\ c.gap \in j)
  \/ /\ o.call \in {"ingest", "retain"} /\ c.gap = NoGap /\ c.intent = AnnouncedBy(o)
     /\ \/ o.step = "append" /\ ~ x
        \/ o.step = "complete" /\ o.call = "retain"
        \/ o.step = "commit" /\ (IF o.call = "retain" THEN Completion(o.at) ELSE o.arg) \in j

Calling(o, c, j, a, l, n, x) == o = NoOp \/ (CallOf(o, a, l, n) /\ StepOf(o, c, j, x))

Counted ==
  /\ now \in Instants /\ corrections \in 0 .. MaxCorrections /\ moves \in 0 .. MaxMoves
  /\ app \in {"off", "failed", "up"} /\ launches \in {0} \cup Sessions
  /\ settings \in 0 .. MaxSettings /\ attempts \in 0 .. MaxAttempts
  /\ expired \in BOOLEAN /\ faults \in 0 .. MaxFaults

ExpiredSays(c, x) == x => c.mode.window # <<>> /\ c.mode.expired

SessionInv ==
  /\ Counted
  /\ journal \subseteq EventSet
  /\ Document(config, launches)
  /\ Launched(config, app, op, launches)
  /\ Calling(op, config, journal, app, launches, now, expired)
  /\ ExpiredSays(config, expired)

(* As long as the clock has not been set back, it is ahead of everything recorded; a *)
(* gap that is recorded ends by the end of the session's time, or waits to be         *)
(* committed; evidence is behind the heartbeat, or announced.                          *)
GapsOf(j) == {e \in j : e.kind = "gap"}
EvidenceOf(j) == j \ GapsOf(j)

Apart(g, h) == g = h \/ g.end <= h.start \/ h.end <= g.start
Outside(e, g) ==
  /\ e.recorded <= g.start \/ g.end <= e.recorded
  /\ e.kind # "completion" => e.observed <= g.start \/ g.end <= e.observed
Honestly(j) ==
  /\ \A g, h \in GapsOf(j) : Apart(g, h)
  /\ \A g \in GapsOf(j), e \in EvidenceOf(j) : Outside(e, g)

Chained(c, n) ==
  LET gaps == c.startup.gaps
  IN /\ Last(gaps).end <= n /\ c.startup.session.started = Last(gaps).end
     /\ \A i \in DOMAIN gaps :
          gaps[i].start >= Boundary(c.session) /\ gaps[i].end <= Last(gaps).end
     /\ \A i, k \in DOMAIN gaps : i < k => gaps[i].end <= gaps[k].start

Filed(g, c) ==
  \/ g.end <= Boundary(c.session)
  \/ c.gap # NoGap /\ g = c.gap
  \/ c.startup # NoStartup /\ \E i \in DOMAIN c.startup.gaps : g = c.startup.gaps[i]

Ahead(c, j, o, n) ==
  /\ c.session.heartbeat <= n /\ c.session.closed <= n
  /\ c.gap # NoGap => c.gap.recorded <= n /\ c.session.heartbeat < c.gap.recorded
  /\ \A p \in c.intent : p.at <= n
  /\ c.startup # NoStartup => Chained(c, n)
  /\ \A e \in j \cap AttemptSet : e.observed <= e.recorded
  /\ \A g \in GapsOf(j) : Filed(g, c)
  /\ \A e \in EvidenceOf(j) :
       e.recorded <= Boundary(c.session) \/ Proof(e, e.recorded) \in c.intent
  /\ o.call \in {"ingest", "retain"} =>
       /\ o.arg.observed <= n
       /\ \A g \in GapsOf(j) : g.end <= o.arg.observed
       /\ c.gap # NoGap => c.gap.end <= o.arg.observed
  /\ Honestly(j)

AheadInv == corrections = 0 => Ahead(config, journal, op, now)

-----------------------------------------------------------------------------
(* Lemmas about the operators                                               *)

\* A set of numbers that is not empty has a least element: the intervals up to its
\* elements are well-founded by inclusion.
LEMMA LeastInstant ==
  ASSUME NEW T \in SUBSET Nat, T # {}
  PROVE  \E x \in T : \A y \in T : x <= y
<1> DEFINE R == StrictSubsetOrdering(Nat)
           U == {1 .. x : x \in T}
<1>1. IsWellFoundedOn(R, FiniteSubsetsOf(Nat))
  BY FS_StrictSubsetOrderingWellFounded
<1>2. U \subseteq FiniteSubsetsOf(Nat) /\ U # {}
  <2>1. \A x \in T : 1 .. x \in SUBSET Nat /\ IsFiniteSet(1 .. x)
    BY FS_Interval
  <2> QED BY <2>1 DEF FiniteSubsetsOf
<1>3. PICK m \in U : \A n \in U : ~ (<<n, m>> \in R)
  <2> HIDE DEF R, U
  <2> QED BY <1>1, <1>2, WFMin
<1>4. PICK x \in T : m = 1 .. x
  BY <1>3
<1>5. ASSUME NEW y \in T, y < x PROVE FALSE
  <2>1. 1 .. y \subseteq 1 .. x /\ x \in 1 .. x /\ x \notin 1 .. y
    BY <1>5
  <2>2. <<1 .. y, 1 .. x>> \in R
    BY <2>1 DEF StrictSubsetOrdering
  <2> QED BY <1>3, <1>4, <2>2
<1> QED BY <1>4, <1>5

\* A set of instants has a greatest: the distances from the last one have a least.
LEMMA GreatestInstant ==
  ASSUME NEW S \in SUBSET Times, S # {}
  PROVE  Max(S) \in S /\ \A y \in S : Max(S) >= y
<1> DEFINE T == {MaxInstant - y : y \in S}
<1>1. MaxInstant \in Nat
  BY SessionAssumption
<1>2. T \subseteq Nat /\ T # {}
  <2>1. \A y \in Times : MaxInstant - y \in Nat
    BY <1>1 DEF Times
  <2> QED BY <2>1
<1>3. PICK d \in T : \A e \in T : d <= e
  <2> HIDE DEF T
  <2> QED BY <1>2, LeastInstant
<1>4. PICK x \in S : d = MaxInstant - x
  BY <1>3
<1>5. \A y \in S : x >= y
  <2> TAKE y \in S
  <2>1. MaxInstant - x <= MaxInstant - y
    BY <1>3, <1>4
  <2> QED BY <1>1, <2>1 DEF Times
<1> QED  BY <1>4, <1>5 DEF Max

LEMMA OfTwo ==
  ASSUME NEW a \in Nat, NEW b \in Nat
  PROVE  /\ Max({a, b}) = IF a <= b THEN b ELSE a
         /\ Min({a, b}) = IF a <= b THEN a ELSE b
<1>1. \E x \in {a, b} : \A y \in {a, b} : x >= y
  BY SMT
<1>2. \E x \in {a, b} : \A y \in {a, b} : x <= y
  BY SMT
<1>3. Max({a, b}) \in {a, b} /\ \A y \in {a, b} : Max({a, b}) >= y
  BY <1>1 DEF Max
<1>4. Min({a, b}) \in {a, b} /\ \A y \in {a, b} : Min({a, b}) <= y
  BY <1>2 DEF Min
<1> QED  BY <1>3, <1>4

LEMMA BetweenTwo ==
  ASSUME NEW a \in Nat, NEW b \in Nat, NEW t
  PROVE  t \in Between(a, b) <=> t \in Int /\ ((a <= t /\ t < b) \/ (b <= t /\ t < a))
BY OfTwo DEF Between

LEMMA TimesNat == Times \subseteq Nat /\ Instants \subseteq Times /\ 0 \in Times
BY SessionAssumption DEF Times, Instants

LEMMA AtMostTwo ==
  ASSUME NEW a, NEW b
  PROVE  Cardinality({a}) <= 2 /\ Cardinality({a, b}) <= 2 /\ Cardinality({}) <= 2
<1>1. IsFiniteSet({}) /\ Cardinality({}) = 0 /\ IsFiniteSet({a}) /\ Cardinality({a}) = 1
  BY FS_EmptySet, FS_Singleton
<1>2. Cardinality({a} \cup {b}) \in {1, 2}
  <2>1. Cardinality({a} \cup {b}) = IF b \in {a} THEN Cardinality({a}) ELSE Cardinality({a}) + 1
    BY <1>1, FS_AddElement
  <2> QED BY <1>1, <2>1
<1>3. {a, b} = {a} \cup {b}
  OBVIOUS
<1> QED  BY <1>1, <1>2, <1>3

\* What an event ID says: gaps have reasons that no attempt has.
LEMMA AttemptsID ==
  ASSUME NEW e \in EventSet, NEW k \in {"attempt", "completion"}, NEW t, ID(e) = <<k, t>>
  PROVE  e.kind # "gap" /\ e.recorded = t
<1>1. CASE e \in GapSet
  <2>1. e.kind = "gap" /\ e.reason \notin {"attempt", "completion"}
    BY <1>1, SessionAssumption DEF GapSet, RuntimeReasons
  <2>2. ID(e)[1] = e.reason
    BY <2>1 DEF ID
  <2> QED BY <2>1, <2>2
<1>2. CASE e \in AttemptSet
  BY <1>2 DEF AttemptSet, ID
<1>3. CASE e \in CompletionSet
  BY <1>3 DEF CompletionSet, ID
<1> QED  BY <1>1, <1>2, <1>3 DEF EventSet

LEMMA Kinds ==
  /\ \A e \in GapSet : e.kind = "gap"
  /\ \A e \in AttemptSet : e.kind # "gap" /\ e.kind # "completion"
  /\ \A e \in CompletionSet : e.kind = "completion"
BY DEF GapSet, AttemptSet, CompletionSet

LEMMA GapHasFields ==
  ASSUME NEW g \in GapSet
  PROVE  /\ g.session \in {0} \cup Sessions /\ g.start \in Times /\ g.end \in Times
         /\ g.recorded \in Times /\ g.kind = "gap"
         /\ g.reason \in RuntimeReasons \cup {"quit", "clock-correction"}
         /\ g # NoGap
<1>1. DOMAIN g = {"kind", "session", "start", "end", "reason", "recorded"}
  BY DEF GapSet
<1>2. DOMAIN NoGap = {"session"}
  BY DEF NoGap
<1> QED  BY <1>1, <1>2 DEF GapSet

LEMMA RuntimeGapType ==
  ASSUME NEW s \in {0} \cup Sessions, NEW from \in Times, NEW to \in Times,
         NEW reason \in RuntimeReasons
  PROVE  /\ RuntimeGap(s, from, to, reason) \in GapSet
         /\ RuntimeGap(s, from, to, reason).session = s
         /\ RuntimeGap(s, from, to, reason).reason = reason
         /\ RuntimeGap(s, from, to, reason).recorded = to
         /\ RuntimeGap(s, from, to, reason).start = IF from <= to THEN from ELSE to
         /\ RuntimeGap(s, from, to, reason).end = IF from <= to THEN to ELSE from
BY OfTwo, TimesNat DEF RuntimeGap, Gap, GapSet

LEMMA RestartGapType ==
  ASSUME NEW from \in Times, NEW to \in Times
  PROVE  /\ RestartGap(from, to) \in GapSet
         /\ RestartGap(from, to).start = IF from < to THEN from ELSE to
         /\ RestartGap(from, to).end = IF from < to THEN to ELSE from
BY TimesNat, SessionAssumption DEF RestartGap, Gap, GapSet, RuntimeReasons

LEMMA ConcatEmpty == \A q \in Seq(GapSet) : q \o <<>> = q
OBVIOUS

\* The gaps of several launches that did not finish reach, without a hole, from where
\* the last session ended to the last of these launches.
LEMMA NextGap ==
  ASSUME NEW gaps \in Seq(GapSet), NEW b \in Times, NEW from \in Times, NEW at \in Times,
         b <= from, from # at, \A t \in b .. from - 1 : CoveredBy(t, gaps)
  PROVE  LET new == gaps \o <<RestartGap(from, at)>>
         IN /\ new \in Seq(GapSet) /\ new # <<>> /\ Last(new) = RestartGap(from, at)
            /\ b <= Last(new).end
            /\ \A t \in b .. Last(new).end - 1 : CoveredBy(t, new)
            /\ \A t \in Between(b, at) : CoveredBy(t, new)
<1> DEFINE g == RestartGap(from, at)
           new == gaps \o <<g>>
<1>1. /\ g \in GapSet /\ g.start = (IF from < at THEN from ELSE at)
      /\ g.end = IF from < at THEN at ELSE from
  BY RestartGapType
<1>2. g.start \in Nat /\ g.end \in Nat /\ b \in Nat /\ from \in Nat /\ at \in Nat
  BY <1>1, TimesNat
<1> HIDE DEF g
<1>3. new \in Seq(GapSet) /\ Len(new) = Len(gaps) + 1 /\ new[Len(new)] = g
  BY <1>1
<1>4. /\ DOMAIN gaps = 1 .. Len(gaps) /\ Len(gaps) \in Nat /\ DOMAIN new = 1 .. Len(gaps) + 1
      /\ \A i \in DOMAIN gaps : i \in DOMAIN new /\ new[i] = gaps[i]
      /\ Len(gaps) + 1 \in DOMAIN new /\ new[Len(gaps) + 1] = g
  BY <1>1, <1>3
<1> HIDE DEF new
<1>5. Last(new) = g /\ new # <<>>
  BY <1>3, <1>4 DEF Last
<1>6. \A t : CoveredBy(t, gaps) => CoveredBy(t, new)
  BY <1>4 DEF CoveredBy
<1>7. \A t \in Int : g.start <= t /\ t < g.end => CoveredBy(t, new)
  BY <1>4 DEF CoveredBy
<1>8. \A t \in b .. g.end - 1 : CoveredBy(t, new)
  <2> TAKE t \in b .. g.end - 1
  <2>1. CASE t < from
    BY <2>1, <1>2, <1>6
  <2>2. CASE ~ (t < from)
    <3>1. g.start <= t /\ t < g.end /\ t \in Int
      BY <2>2, <1>1, <1>2
    <3> QED BY <3>1, <1>7
  <2> QED BY <2>1, <2>2
<1>9. \A t \in Between(b, at) : CoveredBy(t, new)
  <2> TAKE t \in Between(b, at)
  <2>1. t \in Int /\ ((b <= t /\ t < at) \/ (at <= t /\ t < b))
    BY <1>2, BetweenTwo
  <2>2. (t \in b .. g.end - 1) \/ (g.start <= t /\ t < g.end)
    BY <2>1, <1>1, <1>2
  <2> QED BY <2>1, <2>2, <1>7, <1>8
<1> QED  BY <1>1, <1>2, <1>3, <1>5, <1>8, <1>9 DEF g, new

-----------------------------------------------------------------------------
(* What the steps write into config.json                                     *)

\* The fields of a document and of the record that replaces one of them.
LEMMA DocumentHas ==
  ASSUME NEW c \in ConfigSet
  PROVE  /\ c.session \in SessionSet /\ c.session.id \in {0} \cup Sessions
         /\ c.session.started \in Times /\ c.session.heartbeat \in Times
         /\ c.session.closed \in Times /\ Boundary(c.session) \in Times
         /\ c.intent \in SUBSET ProofSet /\ c.mode \in ModeSet /\ c.preference \in BOOLEAN
         /\ c.gap \in GapSet \cup {NoGap} /\ c.startup \in StartupSet \cup {NoStartup}
BY DEF ConfigSet, SessionSet, Boundary

LEMMA ProofHas ==
  ASSUME NEW p \in ProofSet
  PROVE  /\ p.at \in Instants
         /\ p.id = <<"attempt", p.at>> \/ p.id = <<"completion", p.at>>
BY DEF ProofSet

LEMMA SessionHas ==
  ASSUME NEW id \in {0} \cup Sessions, NEW t \in Times
  PROVE  /\ NewSession(id, t) \in SessionSet
         /\ NewSession(id, t).id = id /\ NewSession(id, t).started = t
         /\ NewSession(id, t).heartbeat = t /\ NewSession(id, t).closed = 0
         /\ Boundary(NewSession(id, t)) = t
BY TimesNat DEF NewSession, SessionSet, Boundary

LEMMA StartupHas ==
  ASSUME NEW s \in SessionSet, NEW gaps \in Seq(GapSet), gaps # <<>>
  PROVE  /\ [session |-> s, gaps |-> gaps] \in StartupSet
         /\ [session |-> s, gaps |-> gaps] # NoStartup
BY DEF StartupSet, NoStartup

\* Resolving an intent moves the heartbeat to the latest of the proofs, or leaves it.
LEMMA ResolvedHeartbeat ==
  ASSUME config \in ConfigSet, NEW ids
  PROVE  LET d == Resolved(ids)
             proved == {p.at : p \in {q \in config.intent : q.id \in ids}}
         IN /\ d = [config EXCEPT !.intent = {},
                      !.session = [config.session EXCEPT !.heartbeat = d.session.heartbeat]]
            /\ d.session.heartbeat \in {config.session.heartbeat} \cup proved
            /\ \A t \in {config.session.heartbeat} \cup proved : d.session.heartbeat >= t
            /\ proved \subseteq Instants
<1> DEFINE d == Resolved(ids)
           proved == {p.at : p \in {q \in config.intent : q.id \in ids}}
           top == Max({config.session.heartbeat} \cup proved)
<1>1. proved \subseteq Instants
  BY DocumentHas, ProofHas
<1>2. {config.session.heartbeat} \cup proved \in SUBSET Times
  BY <1>1, DocumentHas, TimesNat
<1>3. /\ top \in {config.session.heartbeat} \cup proved
      /\ \A t \in {config.session.heartbeat} \cup proved : top >= t
  <2> HIDE DEF proved
  <2> QED BY <1>2, GreatestInstant
<1>4. config.session \in SessionSet /\ config \in ConfigSet
  BY DocumentHas
<1>5. d = [config EXCEPT !.intent = {}, !.session.heartbeat = top]
  BY DEF Resolved
<1> HIDE DEF top, d, proved
<1>6. d.session = [config.session EXCEPT !.heartbeat = top]
  BY <1>4, <1>5 DEF ConfigSet
<1>7. d.session.heartbeat = top
  BY <1>4, <1>6 DEF SessionSet
<1>8. d = [config EXCEPT !.intent = {}, !.session = [config.session EXCEPT !.heartbeat = top]]
  BY <1>4, <1>5 DEF ConfigSet
<1> QED  BY <1>1, <1>3, <1>7, <1>8 DEF d, proved

\* What two documents of the same session have in common.
Alike(d, c) ==
  /\ d \in ConfigSet
  /\ d.session.id = c.session.id /\ d.session.closed = c.session.closed
  /\ d.mode = c.mode /\ d.preference = c.preference

LEMMA ResolvedDocument ==
  ASSUME Document(config, launches), config.gap = NoGap, config.startup = NoStartup, NEW ids
  PROVE  LET d == Resolved(ids)
         IN /\ Document(d, launches) /\ Alike(d, config)
            /\ d.intent = {} /\ d.gap = NoGap /\ d.startup = NoStartup
<1> DEFINE d == Resolved(ids)
           h == d.session.heartbeat
           proved == {p.at : p \in {q \in config.intent : q.id \in ids}}
<1>1. config \in ConfigSet
  BY DEF Document
<1>2. /\ d = [config EXCEPT !.intent = {}, !.session = [config.session EXCEPT !.heartbeat = h]]
      /\ h \in {config.session.heartbeat} \cup proved
      /\ h >= config.session.heartbeat
      /\ proved \subseteq Instants
  BY <1>1, ResolvedHeartbeat
<1>3. config.intent = {} => proved = {}
  OBVIOUS
<1> HIDE DEF d, proved
<1>4. h \in Times /\ config.session \in SessionSet
  BY <1>1, <1>2, DocumentHas, TimesNat
<1> HIDE DEF h
<1>5. /\ d.session = [config.session EXCEPT !.heartbeat = h] /\ d.intent = {}
      /\ d.gap = NoGap /\ d.startup = NoStartup
      /\ d.mode = config.mode /\ d.preference = config.preference
  BY <1>1, <1>2 DEF ConfigSet
<1>6. /\ d.session \in SessionSet
      /\ d.session.id = config.session.id /\ d.session.closed = config.session.closed
      /\ d.session.started = config.session.started /\ d.session.heartbeat = h
  BY <1>4, <1>5 DEF SessionSet
<1>7. d \in ConfigSet
  BY <1>1, <1>2, <1>5, <1>6 DEF ConfigSet
<1>8. d.session.started <= d.session.heartbeat
  <2>1. /\ config.session.started \in Nat /\ config.session.heartbeat \in Nat /\ h \in Nat
        /\ config.session.started <= config.session.heartbeat
    BY <1>1, <1>4, DocumentHas, TimesNat DEF Document
  <2> QED BY <1>2, <1>6, <2>1
<1>9. d.session.closed # 0 => d.intent = {} /\ d.session.closed >= d.session.heartbeat
  BY <1>2, <1>3, <1>5, <1>6 DEF Document
<1>10. Cardinality(d.intent) <= 2
  BY <1>5, AtMostTwo
<1>11. Document(d, launches)
  BY <1>5, <1>6, <1>7, <1>8, <1>9, <1>10 DEF Document
<1> QED  BY <1>5, <1>6, <1>7, <1>11 DEF Alike, d

\* Once a gap is committed the heartbeat is where it was recorded.
LEMMA ReconciledDocument ==
  ASSUME Document(config, launches), config.gap # NoGap
  PROVE  /\ Document(Reconciled, launches) /\ Alike(Reconciled, config)
         /\ Reconciled.intent = {} /\ Reconciled.gap = NoGap /\ Reconciled.startup = NoStartup
         /\ Reconciled.session.heartbeat = config.gap.recorded
<1> DEFINE gap == config.gap
           back == gap.reason = "clock-correction" /\ gap.recorded < config.session.started
           start == IF back THEN gap.recorded ELSE config.session.started
           d == Reconciled
<1>1. config \in ConfigSet /\ PendingGap(config)
  BY DEF Document
<1>2. /\ gap \in GapSet /\ gap.recorded \in Times /\ gap.session \in {0} \cup Sessions
      /\ gap.reason \in RuntimeReasons
  BY <1>1, DocumentHas, GapHasFields DEF PendingGap
<1>3. /\ config.session \in SessionSet /\ config.session.started \in Times
      /\ config.session.heartbeat \in Times
  BY <1>1, DocumentHas
<1>4. start \in Times
  BY <1>2, <1>3
<1>5. d = [config EXCEPT !.gap = NoGap, !.session.heartbeat = gap.recorded,
             !.session.started = start,
             !.last = [session |-> gap.session, reason |-> gap.reason, at |-> gap.recorded]]
  BY <1>1 DEF Reconciled, ConfigSet, SessionSet
<1> HIDE DEF start, d
<1>6. d.session = [[config.session EXCEPT !.heartbeat = gap.recorded] EXCEPT !.started = start]
  BY <1>1, <1>5 DEF ConfigSet
<1>7. /\ d.session \in SessionSet
      /\ d.session.id = config.session.id /\ d.session.closed = config.session.closed
      /\ d.session.started = start /\ d.session.heartbeat = gap.recorded
  BY <1>2, <1>3, <1>4, <1>6 DEF SessionSet
<1>8. /\ d.intent = config.intent /\ d.gap = NoGap /\ d.startup = config.startup
      /\ d.mode = config.mode /\ d.preference = config.preference
      /\ d.last = [session |-> gap.session, reason |-> gap.reason, at |-> gap.recorded]
  BY <1>1, <1>5 DEF ConfigSet
<1>9. d \in ConfigSet
  <2>1. d.last \in [session : {0} \cup Sessions, reason : RuntimeReasons, at : Times]
    BY <1>2, <1>8
  <2>2. DOMAIN d = DOMAIN config /\ d = [preference |-> d.preference, mode |-> d.mode,
             session |-> d.session, intent |-> d.intent, gap |-> d.gap, last |-> d.last,
             startup |-> d.startup]
    BY <1>1, <1>5 DEF ConfigSet
  <2>3. /\ d.preference \in BOOLEAN /\ d.mode \in ModeSet /\ d.intent \in SUBSET ProofSet
        /\ d.startup \in StartupSet \cup {NoStartup}
    BY <1>1, <1>8, DocumentHas
  <2> QED BY <2>1, <2>2, <2>3, <1>7, <1>8 DEF ConfigSet
<1>10. d.session.started <= d.session.heartbeat
  <2>1. /\ config.session.started \in Nat /\ config.session.heartbeat \in Nat
        /\ gap.recorded \in Nat
        /\ config.session.started <= config.session.heartbeat
    BY <1>2, <1>3, TimesNat DEF Document
  <2>2. gap.reason # "clock-correction" => gap.recorded > config.session.heartbeat
    BY <1>1 DEF PendingGap
  <2> QED BY <1>7, <2>1, <2>2 DEF start
<1>11. d.intent = {} /\ d.startup = NoStartup /\ d.session.closed = 0
  BY <1>1, <1>7, <1>8 DEF PendingGap
<1>12. Document(d, launches)
  BY <1>7, <1>8, <1>9, <1>10, <1>11, AtMostTwo DEF Document
<1> QED  BY <1>7, <1>8, <1>9, <1>11, <1>12 DEF Alike, d

\* A change of the preference or of the recording mode leaves everything else alone.
LEMMA SettingsDocument ==
  ASSUME Document(config, launches), NEW mode \in ModeSet, NEW preference \in BOOLEAN,
         NEW d, d = [config EXCEPT !.mode = mode, !.preference = preference]
  PROVE  /\ Document(d, launches) /\ d.mode = mode
         /\ d.session = config.session /\ d.intent = config.intent /\ d.gap = config.gap
         /\ d.startup = config.startup
<1>1. config \in ConfigSet
  BY DEF Document
<1>2. /\ d.session = config.session /\ d.intent = config.intent /\ d.gap = config.gap
      /\ d.startup = config.startup /\ d.mode = mode /\ d \in ConfigSet
  BY <1>1 DEF ConfigSet
<1>3. /\ PendingGap(config) => PendingGap(d)
      /\ PendingStartup(config) => PendingStartup(d)
  BY <1>2 DEF PendingGap, PendingStartup
<1> QED  BY <1>2, <1>3 DEF Document

LEMMA AnnouncedDocument ==
  ASSUME Document(config, launches), config.gap = NoGap, Ready(config, launches),
         NEW i \in SUBSET ProofSet, Cardinality(i) <= 2,
         NEW d, d = [config EXCEPT !.intent = i]
  PROVE  /\ Document(d, launches) /\ Alike(d, config) /\ d.session = config.session
         /\ d.intent = i /\ d.gap = NoGap /\ d.startup = NoStartup
<1>1. config \in ConfigSet
  BY DEF Document
<1>2. /\ d.session = config.session /\ d.intent = i /\ d.gap = config.gap
      /\ d.startup = config.startup /\ d \in ConfigSet
      /\ d.mode = config.mode /\ d.preference = config.preference
  BY <1>1 DEF ConfigSet
<1>3. Document(d, launches)
  BY <1>2 DEF Document, Ready
<1> QED  BY <1>2, <1>3 DEF Ready, Alike

\* The gap that a runtime call writes down reaches from the heartbeat to the call.
Awaiting(at, reason) ==
  [config EXCEPT !.gap = RuntimeGap(config.session.id, config.session.heartbeat, at, reason)]

LEMMA GapDocument ==
  ASSUME Document(config, launches), config.gap = NoGap, config.intent = {},
         Ready(config, launches),
         NEW at \in Instants, NEW reason \in RuntimeReasons,
         reason # "clock-correction" => at > config.session.heartbeat,
         NEW d, d = Awaiting(at, reason)
  PROVE  /\ Document(d, launches) /\ Alike(d, config) /\ d.session = config.session
         /\ d.gap # NoGap /\ d.gap.recorded = at /\ d.intent = {} /\ d.startup = NoStartup
<1> DEFINE g == RuntimeGap(config.session.id, config.session.heartbeat, at, reason)
<1>1. config \in ConfigSet
  BY DEF Document
<1>2. /\ config.session.id \in {0} \cup Sessions /\ config.session.heartbeat \in Times
      /\ at \in Times
  BY <1>1, DocumentHas, TimesNat
<1>3. /\ g \in GapSet /\ g.session = config.session.id /\ g.reason = reason
      /\ g.recorded = at
  <2>1. PICK s \in {0} \cup Sessions, h \in Times :
          s = config.session.id /\ h = config.session.heartbeat
    BY <1>2
  <2>2. /\ RuntimeGap(s, h, at, reason) \in GapSet
        /\ RuntimeGap(s, h, at, reason).session = s
        /\ RuntimeGap(s, h, at, reason).reason = reason
        /\ RuntimeGap(s, h, at, reason).recorded = at
    BY <1>2, RuntimeGapType
  <2> QED BY <2>1, <2>2
<1>4. g # NoGap
  BY <1>3, GapHasFields
<1>5. /\ d.session = config.session /\ d.intent = config.intent /\ d.gap = g
      /\ d.startup = config.startup /\ d \in ConfigSet
      /\ d.mode = config.mode /\ d.preference = config.preference
  <2> HIDE DEF g
  <2>1. d = [config EXCEPT !.gap = g]
    BY DEF g, Awaiting
  <2> QED BY <1>1, <1>3, <2>1 DEF ConfigSet
<1>6. PendingGap(d)
  <2>1. d.gap = RuntimeGap(d.session.id, d.session.heartbeat, d.gap.recorded, d.gap.reason)
    <3>1. g = RuntimeGap(config.session.id, config.session.heartbeat, at, reason)
      BY DEF g
    <3> HIDE DEF g
    <3> QED BY <1>3, <1>5, <3>1
  <2>2. /\ d.intent = {} /\ d.startup = NoStartup /\ d.session.closed = 0
        /\ d.session.id # 0
    BY <1>5 DEF Ready
  <2>3. /\ d.gap.reason \in RuntimeReasons /\ d.gap.recorded \in Instants
        /\ d.gap.reason # "clock-correction" => d.gap.recorded > d.session.heartbeat
    BY <1>3, <1>5
  <2> QED BY <2>1, <2>2, <2>3 DEF PendingGap
<1>7. Document(d, launches)
  BY <1>5, <1>6 DEF Document, Ready
<1> QED  BY <1>3, <1>4, <1>5, <1>7 DEF Ready, Alike

Ended(at) ==
  [config EXCEPT !.session.closed = IF @ # 0 THEN @ ELSE Max({config.session.heartbeat, at})]

LEMMA ClosedDocument ==
  ASSUME Document(config, launches), config.gap = NoGap, config.intent = {},
         Ready(config, launches), NEW at \in Instants,
         NEW d, d = Ended(at)
  PROVE  /\ Document(d, launches) /\ d \in ConfigSet
         /\ d.session = [config.session EXCEPT !.closed = d.session.closed]
         /\ d.session.closed = IF config.session.heartbeat <= at THEN at
                               ELSE config.session.heartbeat
         /\ d.session.closed # 0
         /\ d.intent = {} /\ d.gap = NoGap /\ d.startup = NoStartup /\ d.mode = config.mode
<1> DEFINE x == IF config.session.heartbeat <= at THEN at ELSE config.session.heartbeat
<1>1. config \in ConfigSet
  BY DEF Document
<1>2. /\ config.session \in SessionSet /\ config.session.heartbeat \in Times /\ at \in Times
      /\ at \in Nat /\ config.session.heartbeat \in Nat /\ at # 0
  <2>1. config.session \in SessionSet /\ config.session.heartbeat \in Times
    BY <1>1, DocumentHas
  <2>2. at \in Times /\ at \in Nat /\ config.session.heartbeat \in Nat
    BY <2>1, TimesNat
  <2>3. at # 0
    BY DEF Instants
  <2> QED BY <2>1, <2>2, <2>3
<1>3. Max({config.session.heartbeat, at}) = x
  BY <1>2, OfTwo
<1>4. x \in Times /\ x # 0 /\ x >= config.session.heartbeat
  BY <1>2
<1>5. d = [config EXCEPT !.session = [config.session EXCEPT !.closed = x]]
  BY <1>1, <1>3 DEF Ended, Ready, ConfigSet, SessionSet
<1> HIDE DEF x
<1>6. /\ d.session = [config.session EXCEPT !.closed = x] /\ d.intent = config.intent
      /\ d.gap = config.gap /\ d.startup = config.startup /\ d.mode = config.mode
  BY <1>1, <1>5 DEF ConfigSet
<1>7. /\ d.session \in SessionSet /\ d.session.closed = x
      /\ d.session.id = config.session.id /\ d.session.started = config.session.started
      /\ d.session.heartbeat = config.session.heartbeat
  BY <1>2, <1>4, <1>6 DEF SessionSet
<1>8. d \in ConfigSet
  BY <1>1, <1>5, <1>6, <1>7 DEF ConfigSet
<1>9. Document(d, launches)
  BY <1>4, <1>6, <1>7, <1>8 DEF Document, Ready
<1> QED  BY <1>4, <1>6, <1>7, <1>8, <1>9 DEF Ready, x

\* A launch takes over the session, or writes down the gaps that come first.
LEMMA StartupDocument ==
  ASSUME Document(config, launches), config.gap = NoGap, config.intent = {},
         op.arg = launches, launches \in Sessions, op.at \in Instants,
         NEW d, d = PreparedStartup
  PROVE  /\ Document(d, launches) /\ d.mode = config.mode
         /\ d.intent = {} /\ d.gap = NoGap
         /\ \/ d = config /\ config.startup = NoStartup /\ config.session.id = launches
            \/ d = config /\ config.startup # NoStartup
                 /\ config.startup.session.id = launches
            \/ /\ d.session = NewSession(launches, op.at)
               /\ config.startup = NoStartup /\ d.startup = NoStartup
               /\ config.session.id = 0 \/ Boundary(config.session) = op.at
            \/ /\ d.session = config.session /\ d.startup # NoStartup
               /\ d.startup.session = NewSession(launches, op.at)
               /\ config.session.id # launches
               /\ LET from == IF config.startup = NoStartup THEN Boundary(config.session)
                              ELSE Last(config.startup.gaps).end
                  IN IF from = op.at
                     THEN d.startup.gaps = config.startup.gaps /\ config.startup # NoStartup
                     ELSE d.startup.gaps =
                            config.startup.gaps \o <<RestartGap(from, op.at)>>
<1> DEFINE pending == config.startup
           base == Boundary(config.session)
           from == IF pending = NoStartup THEN base ELSE Last(pending.gaps).end
           gap == IF from = op.at THEN <<>> ELSE <<RestartGap(from, op.at)>>
           session == NewSession(op.arg, op.at)
<1>1. config \in ConfigSet
  BY DEF Document
<1>2. /\ config.session \in SessionSet /\ base \in Times /\ op.at \in Times /\ base \in Nat
      /\ config.session.id \in Nat /\ launches \in Nat /\ op.at \in Nat
      /\ config.session.id <= launches /\ launches # 0
  <2>1. config.session \in SessionSet /\ base \in Times
    BY <1>1, DocumentHas
  <2>2. op.at \in Times /\ op.at \in Nat /\ base \in Nat
    BY <2>1, TimesNat
  <2>3. Sessions \subseteq Nat /\ 0 \notin Sessions
    BY DEF Sessions
  <2>4. config.session.id \in {0} \cup Sessions
    BY <1>1, DocumentHas
  <2>5. config.session.id <= launches
    BY DEF Document
  <2>6. config.session.id \in Nat
    BY <2>4 DEF Sessions
  <2>7. launches \in Nat /\ launches # 0
    BY <2>3
  <2> QED BY <2>1, <2>2, <2>5, <2>6, <2>7
<1>3. /\ session \in SessionSet /\ session.id = launches /\ session.started = op.at
      /\ session.heartbeat = op.at /\ session.closed = 0
  BY <1>2, SessionHas
<1>4. pending # NoStartup =>
        /\ PendingStartup(config) /\ pending.gaps \in Seq(GapSet)
        /\ pending.session.id \in Nat /\ pending.session.id <= launches
  BY <1>1, DocumentHas DEF Document, StartupSet, SessionSet, Sessions
<1>5. pending.gaps \in Seq(GapSet)
  <2>1. NoStartup.gaps = <<>> /\ <<>> \in Seq(GapSet)
    BY DEF NoStartup
  <2> QED BY <1>4, <2>1
<1>6. from \in Times /\ base <= from /\ \A t \in base .. from - 1 : CoveredBy(t, pending.gaps)
  <2>1. CASE pending = NoStartup
    BY <2>1, <1>2
  <2>2. CASE pending # NoStartup
    <3>1. pending.gaps \in Seq(GapSet) /\ pending.gaps # <<>> /\ PendingStartup(config)
      BY <2>2, <1>4 DEF PendingStartup
    <3>2. Last(pending.gaps) \in GapSet
      BY <3>1 DEF Last
    <3>3. from = Last(pending.gaps).end /\ from \in Times
      BY <2>2, <3>2, GapHasFields
    <3> QED BY <3>1, <3>3 DEF PendingStartup
  <2> QED BY <2>1, <2>2
<1>7. CASE pending # NoStartup /\ pending.session.id = op.arg
  <2>1. d = config
    BY <1>7 DEF PreparedStartup
  <2>2. config.startup # NoStartup /\ config.startup.session.id = launches
    BY <1>7
  <2> HIDE DEF pending, from, base, gap, session
  <2> QED BY <2>1, <2>2
<1>8. CASE pending = NoStartup /\ config.session.id = op.arg
  <2>1. d = config
    BY <1>8 DEF PreparedStartup
  <2>2. config.startup = NoStartup /\ config.session.id = launches
    BY <1>8
  <2> HIDE DEF pending, from, base, gap, session
  <2> QED BY <2>1, <2>2
<1>9. CASE /\ pending = NoStartup /\ config.session.id # op.arg
           /\ config.session.id = 0 \/ gap = <<>>
  <2>1. d = [config EXCEPT !.session = session]
    BY <1>9 DEF PreparedStartup
  <2>2. /\ d \in ConfigSet /\ d.session = session /\ d.intent = {} /\ d.gap = NoGap
        /\ d.startup = NoStartup /\ d.mode = config.mode
    BY <1>1, <1>3, <1>9, <2>1 DEF ConfigSet
  <2>3. Document(d, launches)
    <3> HIDE DEF session
    <3> QED BY <2>2, <1>2, <1>3, AtMostTwo DEF Document
  <2>4. config.session.id = 0 \/ base = op.at
    BY <1>9
  <2> QED BY <1>9, <2>1, <2>2, <2>3, <2>4
<1>10. CASE ~ \/ pending # NoStartup /\ pending.session.id = op.arg
              \/ pending = NoStartup /\ config.session.id = op.arg
              \/ pending = NoStartup /\ (config.session.id = 0 \/ gap = <<>>)
  <2> DEFINE new == pending.gaps \o gap
             s == [session |-> session, gaps |-> new]
  <2>1. d = [config EXCEPT !.startup = s]
    BY <1>10 DEF PreparedStartup
  <2>2. config.session.id # 0 /\ config.session.id < launches
    <3>1. CASE pending = NoStartup
      BY <3>1, <1>2, <1>10
    <3>2. CASE pending # NoStartup
      <4>1. config.session.id # 0 /\ config.session.id < pending.session.id
        BY <3>2, <1>4 DEF PendingStartup
      <4> QED BY <4>1, <3>2, <1>2, <1>4
    <3> QED BY <3>1, <3>2
  <2>3. /\ new \in Seq(GapSet) /\ new # <<>> /\ base <= Last(new).end
        /\ \A t \in base .. Last(new).end - 1 : CoveredBy(t, new)
        /\ \A t \in Between(base, op.at) : CoveredBy(t, new)
    <3>1. CASE from = op.at
      <4>1. pending # NoStartup /\ gap = <<>>
        BY <1>10, <3>1
      <4>2. new = pending.gaps /\ new # <<>>
        <5>1. new = pending.gaps
          BY <4>1, <1>5, ConcatEmpty
        <5>2. pending.gaps # <<>>
          BY <4>1, <1>4 DEF PendingStartup
        <5> QED BY <5>1, <5>2
      <4>3. from = Last(new).end
        BY <4>1, <4>2
      <4>4. \A t \in Between(base, op.at) : t \in base .. from - 1
        BY <3>1, <1>2, <1>6, BetweenTwo
      <4> QED BY <1>5, <1>6, <4>2, <4>3, <4>4
    <3>2. CASE from # op.at
      <4>1. new = pending.gaps \o <<RestartGap(from, op.at)>>
        BY <3>2
      <4> HIDE DEF new, from, base
      <4> QED BY <1>2, <1>5, <1>6, <3>2, <4>1, NextGap
    <3> QED BY <3>1, <3>2
  <2>4. s \in StartupSet /\ s # NoStartup
    <3> HIDE DEF new, session
    <3> QED BY <1>3, <2>3, StartupHas
  <2> HIDE DEF new, session
  <2>5. /\ d \in ConfigSet /\ d.session = config.session /\ d.intent = {} /\ d.gap = NoGap
        /\ d.startup = s /\ d.mode = config.mode
    <3> HIDE DEF s
    <3> QED BY <1>1, <2>1, <2>4 DEF ConfigSet
  <2>6. d.startup.session = session /\ d.startup.gaps = new
    BY <2>5
  <2>7. session = NewSession(session.id, session.started)
    <3>1. session = NewSession(op.arg, op.at)
      BY DEF session
    <3> QED BY <1>3, <3>1
  <2> HIDE DEF s, base
  <2>8. PendingStartup(d)
    BY <1>3, <2>2, <2>3, <2>5, <2>6, <2>7 DEF PendingStartup, base
  <2>9. Document(d, launches)
    BY <1>2, <1>3, <2>5, <2>6, <2>8 DEF Document
  <2>10. d.startup # NoStartup /\ config.session.id # launches
    BY <2>4, <2>5, <2>2, <1>2
  <2>11. IF from = op.at THEN new = pending.gaps /\ pending # NoStartup
         ELSE new = pending.gaps \o <<RestartGap(from, op.at)>>
    BY <1>5, <1>10 DEF new
  <2>12. session = NewSession(launches, op.at)
    BY DEF session
  <2> QED BY <2>1, <2>5, <2>6, <2>9, <2>10, <2>11, <2>12 DEF base
<1> QED  BY <1>7, <1>8, <1>9, <1>10

\* The session that the last launch wrote down replaces the one before.
LEMMA CommittedDocument ==
  ASSUME Document(config, launches), config.startup # NoStartup,
         NEW d, d = [config EXCEPT !.session = config.startup.session, !.startup = NoStartup]
  PROVE  /\ Document(d, launches) /\ d.mode = config.mode
         /\ d.intent = {} /\ d.gap = NoGap /\ d.startup = NoStartup
         /\ d.session = config.startup.session /\ d.session.closed = 0
         /\ d.session.id # 0 /\ d.session.id # config.session.id
         /\ Boundary(d.session) = d.session.started
<1>1. config \in ConfigSet /\ PendingStartup(config)
  BY DEF Document
<1> DEFINE s == config.startup.session
<1>2. s \in SessionSet /\ s.id \in {0} \cup Sessions /\ s.started \in Times
  BY <1>1, DocumentHas DEF StartupSet, SessionSet
<1>3. s = NewSession(s.id, s.started)
  BY <1>1 DEF PendingStartup
<1>4. s.closed = 0 /\ s.heartbeat = s.started /\ Boundary(s) = s.started
  BY <1>2, <1>3, SessionHas
<1>5. /\ config.session.id \in Nat /\ s.id \in Nat /\ config.session.id # 0
      /\ config.session.id < s.id /\ s.id <= launches
  BY <1>1, <1>2, DocumentHas DEF PendingStartup, Document, Sessions
<1> HIDE DEF s
<1>6. /\ d \in ConfigSet /\ d.session = s /\ d.intent = {} /\ d.gap = NoGap
      /\ d.startup = NoStartup /\ d.mode = config.mode
  <2>1. config.intent = {} /\ config.gap = NoGap
    BY <1>1 DEF PendingStartup
  <2>2. d = [config EXCEPT !.session = s, !.startup = NoStartup]
    BY DEF s
  <2> QED BY <1>1, <1>2, <2>1, <2>2 DEF ConfigSet
<1>7. s.started <= s.heartbeat
  BY <1>2, <1>4, TimesNat
<1>8. Document(d, launches)
  BY <1>4, <1>5, <1>6, <1>7, AtMostTwo DEF Document
<1>9. d.session.id # 0 /\ d.session.id # config.session.id
  BY <1>5, <1>6
<1> QED  BY <1>4, <1>6, <1>8, <1>9 DEF s

-----------------------------------------------------------------------------
(* What the outcomes of a step preserve                                     *)

\* The kinds of calls, and what the step of a call says.
LEMMA InCall ==
  ASSUME SessionInv, op # NoOp
  PROVE  /\ CallOf(op, app, launches, now) /\ StepOf(op, config, journal, expired)
         /\ op.call \in {"startup", "gap", "ingest", "retain", "terminate"}
         /\ op.call \in {"gap", "ingest", "retain", "terminate"} =>
              app = "up" /\ Ready(config, launches)
         /\ op.call = "startup" =>
              /\ op.arg = launches /\ launches \in Sessions /\ app # "up"
              /\ config.session.closed # 0 => config.session.id < launches
BY DEF SessionInv, Calling, CallOf, Launched, Counted

LEMMA NotIdle ==
  ASSUME SessionInv
  PROVE  /\ Idle <=> op = NoOp
         /\ \A s \in {"intent", "record", "settle", "prepare", "append", "complete", "commit"} :
              op.step = s => op # NoOp
BY InCall DEF Idle, NoOp

LEMMA Going ==
  ASSUME NEW o, NEW a, NEW l, NEW n, NEW s, CallOf(o, a, l, n)
  PROVE  LET m == [o EXCEPT !.step = s]
         IN CallOf(m, a, l, n) /\ m.step = s /\ m.call = o.call /\ m.arg = o.arg /\ m.at = o.at
<1> DEFINE m == [o EXCEPT !.step = s]
<1>1. o = [call |-> o.call, step |-> o.step, at |-> o.at, arg |-> o.arg]
  BY DEF CallOf
<1>2. m = [call |-> o.call, step |-> s, at |-> o.at, arg |-> o.arg]
  BY <1>1
<1>3. m.step = s /\ m.call = o.call /\ m.arg = o.arg /\ m.at = o.at
  BY <1>2
<1> HIDE DEF m
<1>4. m = [call |-> m.call, step |-> m.step, at |-> m.at, arg |-> m.arg]
  BY <1>2, <1>3
<1>5. CallOf(m, a, l, n)
  BY <1>3, <1>4 DEF CallOf
<1> QED  BY <1>3, <1>5 DEF m

LEMMA AbortedApp ==
  ASSUME SessionInv, op # NoOp, Aborted
  PROVE  /\ op' = NoOp /\ faults' \in 0 .. MaxFaults /\ app' \in {"off", "failed", "up"}
         /\ app' = "up" => op.call \in {"gap", "ingest", "retain"}
         /\ op.call = "terminate" => app' = "off"
<1>1. faults' \in 0 .. MaxFaults
  BY SessionAssumption DEF Aborted, SessionInv, Counted
<1>2. op.call \in {"startup", "gap", "ingest", "retain", "terminate"} /\ app \in {"off", "failed", "up"}
  BY InCall DEF SessionInv, Counted
<1>3. op' = NoOp /\ app' \in {"off", "failed", app}
      /\ (op.call = "terminate" => app' = "off")
      /\ (op.call = "startup" => app' \in {"off", "failed"})
  BY DEF Aborted, Refused
<1> QED  BY <1>1, <1>2, <1>3

LEMMA UpdateKeeps ==
  ASSUME SessionInv, op # NoOp, NEW d, NEW s, Update(d, s), expired' = expired,
         Document(d, launches), d.mode = config.mode,
         op.call \in {"gap", "ingest", "retain"} => Ready(d, launches),
         op.call = "terminate" /\ s # "done" => Ready(d, launches),
         op.call = "startup" /\ s = "done" => Ready(d, launches),
         op.call = "startup" /\ d.session.closed # 0 => d.session.id < launches,
         s # "done" => StepOf([op EXCEPT !.step = s], d, journal, expired)
  PROVE  SessionInv'
<1>1. /\ CallOf(op, app, launches, now)
      /\ op.call \in {"startup", "gap", "ingest", "retain", "terminate"}
      /\ op.call \in {"gap", "ingest", "retain", "terminate"} =>
           app = "up" /\ Ready(config, launches)
      /\ op.call = "startup" => app # "up"
      /\ op.call = "startup" /\ config.session.closed # 0 => config.session.id < launches
  BY InCall
<1>2. /\ now' = now /\ corrections' = corrections /\ moves' = moves /\ journal' = journal
      /\ launches' = launches /\ settings' = settings /\ attempts' = attempts
  BY DEF Update, clock, bounds
<1>3. journal' \subseteq EventSet
  BY <1>2 DEF SessionInv
<1>4. CASE config' = d /\ Then(s) /\ UNCHANGED faults
  <2>1. CASE s = "done"
    <3>1. op' = NoOp /\ app' = IF op.call = "terminate" THEN "off" ELSE "up"
      BY <2>1, <1>4 DEF Then, Done
    <3>2. Launched(config', app', op', launches')
      BY <3>1, <2>1, <1>1, <1>2, <1>4 DEF Launched, Ready, NoOp
    <3>3. Counted'
      BY <3>1, <1>2, <1>4 DEF Counted, SessionInv
    <3>4. ExpiredSays(config', expired')
      BY <1>4 DEF ExpiredSays, SessionInv
    <3> QED BY <3>1, <3>2, <3>3, <3>4, <1>2, <1>3, <1>4 DEF SessionInv, Calling
  <2>2. CASE s # "done"
    <3>1. op' = [op EXCEPT !.step = s] /\ app' = app
      BY <2>2, <1>4 DEF Then, Go
    <3>2. CallOf(op', app', launches', now') /\ op'.call = op.call
      BY <3>1, <1>1, <1>2, Going
    <3>3. StepOf(op', config', journal', expired')
      BY <3>1, <2>2, <1>2, <1>4
    <3>4. Launched(config', app', op', launches')
      BY <3>1, <3>2, <2>2, <1>1, <1>2, <1>4 DEF Launched, Ready
    <3>5. Counted'
      BY <3>1, <1>2, <1>4 DEF Counted, SessionInv
    <3>6. ExpiredSays(config', expired')
      BY <1>4 DEF ExpiredSays, SessionInv
    <3> QED BY <3>2, <3>3, <3>4, <3>5, <3>6, <1>2, <1>3, <1>4 DEF SessionInv, Calling
  <2> QED BY <2>1, <2>2
<1>5. CASE config' \in {config, d} /\ Aborted
  <2>1. /\ op' = NoOp /\ faults' \in 0 .. MaxFaults /\ app' \in {"off", "failed", "up"}
        /\ app' = "up" => op.call \in {"gap", "ingest", "retain"}
        /\ op.call = "terminate" => app' = "off"
    BY <1>5, AbortedApp
  <2>2. Document(config', launches') /\ config'.mode = config.mode
    BY <1>2, <1>5 DEF SessionInv
  <2>3. Launched(config', app', op', launches')
    BY <2>1, <1>1, <1>2, <1>5 DEF Launched, Ready, NoOp
  <2>4. Counted'
    BY <2>1, <1>2 DEF Counted, SessionInv
  <2>5. ExpiredSays(config', expired')
    BY <2>2 DEF ExpiredSays, SessionInv
  <2> QED BY <2>1, <2>2, <2>3, <2>4, <2>5, <1>2, <1>3 DEF SessionInv, Calling
<1> QED  BY <1>4, <1>5 DEF Update

LEMMA RefuseKeeps ==
  ASSUME SessionInv, op # NoOp, Refuse
  PROVE  SessionInv'
<1>1. /\ op.call \in {"startup", "gap", "ingest", "retain", "terminate"}
      /\ op.call \in {"gap", "ingest", "retain", "terminate"} =>
           app = "up" /\ Ready(config, launches)
      /\ op.call = "startup" /\ config.session.closed # 0 => config.session.id < launches
  BY InCall
<1>2. /\ UNCHANGED <<now, corrections, moves, config, journal, launches, settings, attempts,
                     faults, expired>>
      /\ op' = NoOp /\ app' \in {"off", "failed", "up"}
      /\ app' = "up" => op.call \in {"gap", "ingest", "retain"}
      /\ op.call = "terminate" => app' = "off"
  BY <1>1 DEF Refuse, Refused, clock, bounds
<1>3. Launched(config', app', op', launches')
  BY <1>1, <1>2 DEF Launched, Ready, NoOp
<1>4. Counted'
  BY <1>2 DEF Counted, SessionInv
<1> QED  BY <1>2, <1>3, <1>4 DEF SessionInv, Calling, ExpiredSays

LEMMA IngestKeeps ==
  ASSUME SessionInv, op # NoOp, NEW e \in EventSet, NEW s, s # "done", Ingest(e, s),
         StepOf([op EXCEPT !.step = s], config, journal \cup {e}, expired)
  PROVE  SessionInv'
<1>1. /\ CallOf(op, app, launches, now)
      /\ op.call \in {"startup", "gap", "ingest", "retain", "terminate"}
      /\ op.call \in {"gap", "ingest", "retain", "terminate"} =>
           app = "up" /\ Ready(config, launches)
      /\ op.call = "startup" /\ config.session.closed # 0 => config.session.id < launches
  BY InCall
<1>2. UNCHANGED <<now, corrections, moves, config, launches, settings, attempts, expired>>
  BY DEF Ingest, clock, bounds
<1>3. journal' \in {journal, journal \cup {e}} /\ journal' \subseteq EventSet
  BY DEF Ingest, SessionInv
<1>4. CASE journal' = journal \cup {e} /\ Then(s) /\ UNCHANGED faults
  <2>1. op' = [op EXCEPT !.step = s] /\ app' = app
    BY <1>4 DEF Then, Go
  <2>2. CallOf(op', app', launches', now') /\ op'.call = op.call
    BY <2>1, <1>1, <1>2, Going
  <2>3. StepOf(op', config', journal', expired')
    BY <2>1, <1>2, <1>4
  <2>4. Launched(config', app', op', launches')
    BY <2>1, <2>2, <1>2 DEF Launched, SessionInv
  <2>5. Counted'
    BY <2>1, <1>2, <1>4 DEF Counted, SessionInv
  <2> QED BY <2>2, <2>3, <2>4, <2>5, <1>2, <1>3 DEF SessionInv, Calling, ExpiredSays
<1>5. CASE op' = NoOp
  <2>1. /\ faults' \in 0 .. MaxFaults /\ app' \in {"off", "failed", "up"}
        /\ app' = "up" => op.call \in {"gap", "ingest", "retain"}
        /\ op.call = "terminate" => app' = "off"
    <3>1. CASE Aborted
      BY <3>1, AbortedApp
    <3>2. CASE Refused /\ faults' = faults
      BY <3>2, <1>1 DEF Refused, SessionInv, Counted
    <3>3. op' # [op EXCEPT !.step = s]
      <4>1. [op EXCEPT !.step = s].call = op.call
        BY <1>1, Going
      <4> QED BY <4>1, <1>1, <1>5 DEF NoOp
    <3> QED BY <3>1, <3>2, <3>3 DEF Ingest, Then, Go
  <2>2. Launched(config', app', op', launches')
    BY <2>1, <1>1, <1>2, <1>5 DEF Launched, Ready, NoOp
  <2>3. Counted'
    BY <2>1, <1>2 DEF Counted, SessionInv
  <2> QED BY <2>2, <2>3, <1>2, <1>3, <1>5 DEF SessionInv, Calling, ExpiredSays
<1> QED  BY <1>4, <1>5 DEF Ingest, Aborted, Refused

-----------------------------------------------------------------------------
(* Every step preserves the invariant                                       *)

LEMMA StudyModes == Modes \subseteq ModeSet
<1>1. Personal \in ModeSet
  BY DEF Personal, ModeSet
<1>2. \A s \in Studies : s \in Instants \X (1 .. MaxInstant + 1)
  <2> TAKE s \in Studies
  <2>1. s \in (1 .. MaxInstant) \X (1 .. MaxInstant) /\ MaxInstant \in Nat
    BY SessionAssumption
  <2> QED BY <2>1 DEF Instants
<1>3. \A s \in Studies : Study(s) \in ModeSet
  BY <1>2 DEF Study, ModeSet
<1> QED  BY <1>1, <1>3 DEF Modes

LEMMA InitKeeps == Init => SessionInv
<1> SUFFICES ASSUME Init PROVE SessionInv
  OBVIOUS
<1>1. PICK mode \in Modes :
        config = [preference |-> TRUE, mode |-> mode, session |-> NoSession, intent |-> {},
                  gap |-> NoGap, last |-> NoLast, startup |-> NoStartup]
  BY DEF Init
<1>2. mode \in ModeSet
  BY StudyModes
<1>3. NoSession \in SessionSet /\ NoSession.id = 0 /\ NoSession.closed = 0
      /\ NoSession.started = 0 /\ NoSession.heartbeat = 0
  BY TimesNat DEF NoSession, SessionSet
<1>4. config \in ConfigSet
  BY <1>1, <1>2, <1>3 DEF ConfigSet
<1>5. config.session = NoSession /\ config.intent = {} /\ config.gap = NoGap
      /\ config.startup = NoStartup
  BY <1>1
<1>6. Document(config, launches)
  <2>1. launches = 0
    BY DEF Init
  <2>2. Cardinality(config.intent) <= 2
    BY <1>5, AtMostTwo
  <2>3. config.session.started <= config.session.heartbeat /\ config.session.id <= launches
    BY <1>3, <1>5, <2>1
  <2>4. config.session.closed = 0
    BY <1>3, <1>5
  <2> QED BY <1>4, <1>5, <2>2, <2>3, <2>4 DEF Document
<1>7. Counted /\ journal = {} /\ op = NoOp /\ app = "off" /\ expired = FALSE
  <2>1. /\ now = 1 /\ corrections = 0 /\ moves = 0 /\ journal = {} /\ app = "off"
        /\ launches = 0 /\ op = NoOp /\ settings = 0 /\ attempts = 0 /\ expired = FALSE
        /\ faults = 0
    BY DEF Init
  <2>2. /\ MaxInstant \in Nat \ {0} /\ MaxCorrections \in Nat /\ MaxMoves \in Nat
        /\ MaxSettings \in Nat /\ MaxAttempts \in Nat /\ MaxFaults \in Nat
    BY SessionAssumption
  <2>3. now \in Instants
    BY <2>1, <2>2 DEF Instants
  <2>4. /\ corrections \in 0 .. MaxCorrections /\ moves \in 0 .. MaxMoves
        /\ settings \in 0 .. MaxSettings /\ attempts \in 0 .. MaxAttempts
        /\ faults \in 0 .. MaxFaults
    BY <2>1, <2>2
  <2>5. expired \in BOOLEAN
    BY <2>1
  <2> QED BY <2>1, <2>3, <2>4, <2>5 DEF Counted
<1> QED  BY <1>3, <1>5, <1>6, <1>7 DEF SessionInv, Launched, Calling, ExpiredSays

\* A call begins with what the last one has left.
LEMMA FirstStep ==
  ASSUME SessionInv, NEW o, o.step = First, NEW j, NEW x
  PROVE  StepOf(o, config, j, x)
<1>1. Document(config, launches)
  BY DEF SessionInv
<1>2. /\ config.gap # NoGap => config.intent = {} /\ config.startup = NoStartup
      /\ config.startup # NoStartup => config.intent = {} /\ config.gap = NoGap
  BY <1>1 DEF Document, PendingGap, PendingStartup
<1>3. CASE config.intent # {}
  BY <1>2, <1>3 DEF StepOf, First
<1>4. CASE config.intent = {} /\ config.gap # NoGap
  BY <1>4 DEF StepOf, First
<1>5. CASE config.intent = {} /\ config.gap = NoGap
  BY <1>5 DEF StepOf, First
<1> QED  BY <1>3, <1>4, <1>5

LEMMA BeginKeeps ==
  ASSUME SessionInv, NEW call, NEW arg, Begin(call, arg), op = NoOp,
         UNCHANGED <<launches, settings>>, attempts' \in 0 .. MaxAttempts, app = "up",
         \/ call = "gap" /\ arg \in RuntimeReasons
         \/ call \in {"ingest", "retain"} /\ arg \in AttemptSet /\ arg.recorded = now
         \/ call = "terminate"
  PROVE  SessionInv'
<1>1. /\ UNCHANGED <<now, corrections, moves, config, journal, app, expired, faults>>
      /\ op' = [call |-> call, step |-> First, at |-> now, arg |-> arg]
  BY DEF Begin, clock
<1>2. op'.call = call /\ op'.step = First /\ op'.at = now /\ op'.arg = arg
  BY <1>1
<1>3. StepOf(op', config, journal, expired)
  <2> PICK o : o = op'
    OBVIOUS
  <2> QED BY <1>2, FirstStep
<1>4. CallOf(op', app', launches', now')
  BY <1>1, <1>2 DEF CallOf
<1>5. Launched(config', app', op', launches')
  BY <1>1, NotIdle DEF Launched, SessionInv, Ready
<1>6. Counted'
  BY <1>1 DEF Counted, SessionInv
<1> QED  BY <1>1, <1>3, <1>4, <1>5, <1>6 DEF SessionInv, Calling, ExpiredSays

LEMMA StartupKeeps ==
  ASSUME SessionInv, NEW id \in Sessions, Startup(id)
  PROVE  SessionInv'
<1>1. /\ UNCHANGED <<now, corrections, moves, config, journal, app, expired, faults, settings,
                     attempts>>
      /\ op' = [call |-> "startup", step |-> First, at |-> now, arg |-> id]
      /\ launches' = id /\ op = NoOp /\ app # "up"
      /\ id = launches + 1 \/ (id = launches /\ app = "failed")
  BY NotIdle DEF Startup, Begin, clock, bounds
<1>2. op'.call = "startup" /\ op'.step = First /\ op'.at = now /\ op'.arg = id
  BY <1>1
<1>3. StepOf(op', config, journal, expired)
  <2> PICK o : o = op'
    OBVIOUS
  <2> QED BY <1>2, FirstStep
<1>4. launches \in Nat /\ id \in Nat /\ id # 0 /\ launches <= id
      /\ (id # launches => id = launches + 1)
  BY <1>1 DEF SessionInv, Counted, Sessions
<1>5. CallOf(op', app', launches', now')
  BY <1>1, <1>2, <1>4 DEF CallOf
<1>6. config.session.id \in Nat /\ config.session.id <= launches
      /\ (config.startup # NoStartup => config.startup.session.id \in Nat)
  <2>1. config \in ConfigSet
    BY DEF SessionInv, Document
  <2>2. config.session.id \in {0} \cup Sessions
    BY <2>1, DocumentHas
  <2>3. config.startup # NoStartup => config.startup.session.id \in {0} \cup Sessions
    BY <2>1, DocumentHas DEF StartupSet, SessionSet
  <2> QED BY <2>2, <2>3 DEF Sessions, SessionInv, Document
<1>7. Launched(config', app', op', launches')
  <2>1. config.session.closed # 0 => config.session.id < launches \/ app = "off"
    BY DEF SessionInv, Launched
  <2> QED BY <2>1, <1>1, <1>4, <1>6 DEF Launched
<1>8. Document(config', launches')
  BY <1>1, <1>4, <1>6 DEF SessionInv, Document
<1>9. Counted'
  BY <1>1 DEF Counted, SessionInv
<1> QED  BY <1>1, <1>3, <1>5, <1>7, <1>8, <1>9 DEF SessionInv, Calling, ExpiredSays

LEMMA CallsKeep == SessionInv /\ Calls => SessionInv'
<1> SUFFICES ASSUME SessionInv, Calls PROVE SessionInv'
  OBVIOUS
<1>1. ASSUME NEW id \in Sessions, Startup(id) PROVE SessionInv'
  BY <1>1, StartupKeeps
<1>2. ASSUME NEW reason \in RuntimeReasons, ReconcileRuntimeGap(reason) PROVE SessionInv'
  <2>1. Begin("gap", reason) /\ op = NoOp /\ app = "up"
        /\ UNCHANGED <<launches, settings, attempts>>
    BY <1>2, NotIdle DEF ReconcileRuntimeGap, bounds
  <2>2. attempts' \in 0 .. MaxAttempts
    BY <2>1 DEF SessionInv, Counted
  <2> QED BY <2>1, <2>2, BeginKeeps
<1>3. ASSUME NEW call \in {"ingest", "retain"}, Record(call) PROVE SessionInv'
  <2>1. PICK kind \in {"captured", "user-paused"}, observed \in {now - 1, now} :
          /\ observed = now \/ (observed > 0 /\ observed >= Since)
          /\ Begin(call, Attempt(kind, observed, now))
    BY <1>3 DEF Record
  <2>2. /\ op = NoOp /\ app = "up" /\ UNCHANGED <<launches, settings>>
        /\ attempts < MaxAttempts /\ attempts' = attempts + 1
    BY <1>3, NotIdle DEF Record
  <2>3. attempts' \in 0 .. MaxAttempts /\ now \in Instants
    BY <2>2, SessionAssumption DEF SessionInv, Counted
  <2>4. observed \in Times
    BY <2>1, <2>3, SessionAssumption DEF Times, Instants
  <2>5. Attempt(kind, observed, now) \in AttemptSet
        /\ Attempt(kind, observed, now).recorded = now
    BY <2>3, <2>4 DEF Attempt, AttemptSet
  <2> QED BY <2>1, <2>2, <2>3, <2>5, BeginKeeps
<1>4. CASE Terminate
  <2>1. Begin("terminate", 0) /\ op = NoOp /\ app = "up"
        /\ UNCHANGED <<launches, settings, attempts>>
    BY <1>4, NotIdle DEF Terminate, bounds
  <2>2. attempts' \in 0 .. MaxAttempts
    BY <2>1 DEF SessionInv, Counted
  <2> QED BY <2>1, <2>2, BeginKeeps
<1> QED  BY <1>1, <1>2, <1>3, <1>4 DEF Calls

LEMMA ReconcileIntentKeeps == SessionInv /\ ReconcileIntent => SessionInv'
<1> SUFFICES ASSUME SessionInv, ReconcileIntent PROVE SessionInv'
  OBVIOUS
<1>1. op # NoOp /\ op.step = "intent"
  BY NotIdle DEF ReconcileIntent, At
<1>2. config.gap = NoGap /\ config.startup = NoStartup /\ CallOf(op, app, launches, now)
  BY <1>1, InCall DEF StepOf
<1>3. PICK d : d = Resolved({p.id : p \in {q \in config.intent : Canonical(q.id)}})
  OBVIOUS
<1>4. Update(d, "prepare") /\ expired' = expired
  BY <1>2, <1>3 DEF ReconcileIntent
<1>5. /\ Document(d, launches) /\ Alike(d, config)
      /\ d.intent = {} /\ d.gap = NoGap /\ d.startup = NoStartup
  <2>1. Document(config, launches)
    BY DEF SessionInv
  <2> QED BY <1>2, <1>3, <2>1, ResolvedDocument
<1>6. StepOf([op EXCEPT !.step = "prepare"], d, journal, expired)
  BY <1>2, <1>5, Going DEF StepOf
<1>7. /\ Ready(config, launches) => Ready(d, launches)
      /\ (config.session.closed # 0 => config.session.id < launches) =>
           (config.session.closed # 0 => d.session.id < launches)
      /\ d.session.closed = config.session.closed
  BY <1>5 DEF Alike, Ready
<1>8. /\ op.call \in {"gap", "ingest", "retain", "terminate"} => Ready(d, launches)
      /\ op.call = "startup" /\ d.session.closed # 0 => d.session.id < launches
  BY <1>1, <1>7, InCall
<1> QED  BY <1>1, <1>4, <1>5, <1>6, <1>8, UpdateKeeps DEF Alike

LEMMA RecordGapKeeps == SessionInv /\ RecordGap => SessionInv'
<1> SUFFICES ASSUME SessionInv, RecordGap PROVE SessionInv'
  OBVIOUS
<1>1. op # NoOp /\ op.step \in {"record", "append"} /\ config.gap # NoGap
  BY NotIdle DEF RecordGap
<1>2. CallOf(op, app, launches, now) /\ StepOf(op, config, journal, expired)
  BY <1>1, InCall
<1>3. config.gap \in GapSet
  BY <1>1, DocumentHas DEF SessionInv, Document
<1>4. PICK e \in EventSet, s \in {"settle", "commit"} :
        e = config.gap /\ s = (IF op.step = "record" THEN "settle" ELSE "commit")
  BY <1>3 DEF EventSet
<1>5. Ingest(e, s)
  BY <1>4 DEF RecordGap, At
<1>6. op.step = "append" => op.call = "gap"
  <2>1. config.startup # NoStartup => config.gap = NoGap
    BY DEF SessionInv, Document, PendingStartup
  <2> QED BY <1>1, <1>2, <2>1 DEF StepOf
<1>7. StepOf([op EXCEPT !.step = s], config, journal \cup {e}, expired)
  BY <1>1, <1>2, <1>4, <1>6, Going DEF StepOf
<1> QED  BY <1>1, <1>4, <1>5, <1>7, IngestKeeps

LEMMA CommitGapKeeps == SessionInv /\ CommitGap => SessionInv'
<1> SUFFICES ASSUME SessionInv, CommitGap PROVE SessionInv'
  OBVIOUS
<1>1. op # NoOp /\ op.step \in {"settle", "commit"} /\ config.gap # NoGap
  BY NotIdle DEF CommitGap
<1>2. CallOf(op, app, launches, now) /\ StepOf(op, config, journal, expired)
  BY <1>1, InCall
<1>3. PICK d, s : d = Reconciled /\ s = (IF op.step = "settle" THEN "prepare" ELSE "done")
  OBVIOUS
<1>4. Update(d, s) /\ expired' = expired
  BY <1>3 DEF CommitGap, At
<1>5. /\ Document(d, launches) /\ Alike(d, config)
      /\ d.intent = {} /\ d.gap = NoGap /\ d.startup = NoStartup
  <2>1. Document(config, launches)
    BY DEF SessionInv
  <2> QED BY <1>1, <1>3, <2>1, ReconciledDocument
<1>6. op.step = "commit" => op.call = "gap"
  <2>1. config.startup # NoStartup => config.gap = NoGap
    BY DEF SessionInv, Document, PendingStartup
  <2> QED BY <1>1, <1>2, <2>1 DEF StepOf
<1>7. s # "done" => StepOf([op EXCEPT !.step = s], d, journal, expired)
  BY <1>2, <1>3, <1>5, Going DEF StepOf
<1>8. /\ Ready(config, launches) => Ready(d, launches)
      /\ d.session.closed = config.session.closed /\ d.session.id = config.session.id
  BY <1>5 DEF Alike, Ready
<1>9. /\ op.call \in {"gap", "ingest", "retain", "terminate"} => Ready(d, launches)
      /\ op.call = "startup" /\ d.session.closed # 0 => d.session.id < launches
  BY <1>1, <1>8, InCall
<1>10. op.call = "startup" /\ s = "done" => Ready(d, launches)
  BY <1>1, <1>3, <1>6
<1> QED  BY <1>1, <1>4, <1>5, <1>7, <1>9, <1>10, UpdateKeeps DEF Alike

LEMMA PrepareStartupKeeps == SessionInv /\ PrepareStartup => SessionInv'
<1> SUFFICES ASSUME SessionInv, PrepareStartup PROVE SessionInv'
  OBVIOUS
<1>1. op # NoOp /\ op.step = "prepare" /\ op.call = "startup"
  BY NotIdle DEF PrepareStartup, At
<1>2. CallOf(op, app, launches, now) /\ StepOf(op, config, journal, expired)
      /\ op.arg = launches /\ launches \in Sessions
  BY <1>1, InCall
<1>3. config.gap = NoGap /\ config.intent = {} /\ op.at \in Instants
  BY <1>1, <1>2 DEF StepOf, CallOf, SessionInv, Counted
<1>4. PICK d, s : /\ d = PreparedStartup
                  /\ s = (IF PreparedStartup.startup = NoStartup THEN "done" ELSE "append")
  OBVIOUS
<1>5. Update(d, s) /\ expired' = expired
  BY <1>4 DEF PrepareStartup
<1>6. Document(config, launches)
  BY DEF SessionInv
<1>7. /\ Document(d, launches) /\ d.mode = config.mode
      /\ d.intent = {} /\ d.gap = NoGap
      /\ \/ d = config /\ config.startup = NoStartup /\ config.session.id = launches
         \/ d = config /\ config.startup # NoStartup /\ config.startup.session.id = launches
         \/ d.session = NewSession(launches, op.at) /\ d.startup = NoStartup
         \/ /\ d.session = config.session /\ d.startup # NoStartup
            /\ d.startup.session = NewSession(launches, op.at)
  BY <1>2, <1>3, <1>4, <1>6, StartupDocument
<1>8. /\ NewSession(launches, op.at).id = launches
      /\ NewSession(launches, op.at).closed = 0
  BY DEF NewSession
<1>9. config.session.closed # 0 => config.session.id < launches
  BY <1>1, InCall
<1>10. launches \in Nat /\ launches # 0 /\ config.session.id \in Nat
  BY <1>2, <1>6, DocumentHas DEF Sessions, Document
<1>11. s = "done" => Ready(d, launches)
  BY <1>4, <1>7, <1>8, <1>9, <1>10 DEF Ready
<1>12. d.session.closed # 0 => d.session.id < launches
  BY <1>7, <1>8, <1>9
<1>13. s # "done" => StepOf([op EXCEPT !.step = s], d, journal, expired)
  <2>1. s # "done" => d.startup # NoStartup /\ d.startup.session.id = launches /\ s = "append"
    BY <1>4, <1>7, <1>8
  <2> QED BY <2>1, <1>1, <1>2, Going DEF StepOf
<1> QED  BY <1>1, <1>5, <1>7, <1>11, <1>12, <1>13, UpdateKeeps

LEMMA RecordStartupKeeps == SessionInv /\ RecordStartup => SessionInv'
<1> SUFFICES ASSUME SessionInv, RecordStartup PROVE SessionInv'
  OBVIOUS
<1> DEFINE gaps == config.startup.gaps
           missing == {i \in DOMAIN gaps : gaps[i] \notin journal}
<1>1. op # NoOp /\ op.step = "append" /\ op.call = "startup"
  BY NotIdle DEF RecordStartup, At
<1>2. CallOf(op, app, launches, now)
      /\ config.startup # NoStartup /\ config.startup.session.id = op.arg
  BY <1>1, InCall DEF StepOf
<1>3. gaps \in Seq(GapSet)
  BY <1>2, DocumentHas DEF SessionInv, Document, StartupSet
<1>4. CASE /\ missing = {} /\ Go("commit")
           /\ UNCHANGED <<clock, config, journal, app, launches, bounds, expired, faults>>
  <2>1. /\ op' = [op EXCEPT !.step = "commit"]
        /\ UNCHANGED <<now, corrections, moves, config, journal, app, launches, settings,
                       attempts, expired, faults>>
    BY <1>4 DEF Go, clock, bounds
  <2>2. CallOf(op', app', launches', now') /\ op'.call = op.call /\ op'.step = "commit"
        /\ op'.arg = op.arg
    BY <2>1, <1>2, Going
  <2>3. StepOf(op', config', journal', expired')
    BY <2>1, <2>2, <1>1, <1>2, <1>4 DEF StepOf
  <2>4. Launched(config', app', op', launches') /\ Counted'
    BY <2>1, <2>2 DEF Launched, SessionInv, Ready, Counted
  <2> QED BY <2>1, <2>2, <2>3, <2>4 DEF SessionInv, Calling, ExpiredSays
<1>5. ASSUME NEW i \in missing, Ingest(gaps[i], "append") PROVE SessionInv'
  <2>1. gaps[i] \in EventSet
    BY <1>3 DEF EventSet
  <2>2. PICK e \in EventSet : e = gaps[i]
    BY <2>1
  <2>3. StepOf([op EXCEPT !.step = "append"], config, journal \cup {e}, expired)
    BY <1>1, <1>2, Going DEF StepOf
  <2> QED BY <1>1, <1>5, <2>2, <2>3, IngestKeeps
<1> QED  BY <1>4, <1>5 DEF RecordStartup

LEMMA CommitStartupKeeps == SessionInv /\ CommitStartup => SessionInv'
<1> SUFFICES ASSUME SessionInv, CommitStartup PROVE SessionInv'
  OBVIOUS
<1>1. op # NoOp /\ op.step = "commit" /\ op.call = "startup"
  BY NotIdle DEF CommitStartup, At
<1>2. /\ config.startup # NoStartup /\ config.startup.session.id = op.arg
      /\ op.arg = launches /\ launches \in Sessions
  BY <1>1, InCall DEF StepOf
<1>3. PICK d : d = [config EXCEPT !.session = config.startup.session, !.startup = NoStartup]
  OBVIOUS
<1>4. Update(d, "done") /\ expired' = expired
  BY <1>3 DEF CommitStartup
<1>5. /\ Document(d, launches) /\ d.mode = config.mode /\ d.startup = NoStartup
      /\ d.session = config.startup.session /\ d.session.closed = 0 /\ d.session.id # 0
  BY <1>2, <1>3, CommittedDocument DEF SessionInv
<1>6. Ready(d, launches)
  BY <1>2, <1>5 DEF Ready
<1> QED  BY <1>1, <1>4, <1>5, <1>6, UpdateKeeps

LEMMA PrepareGapKeeps == SessionInv /\ PrepareGap => SessionInv'
<1> SUFFICES ASSUME SessionInv, PrepareGap PROVE SessionInv'
  OBVIOUS
<1>1. op # NoOp /\ op.step = "prepare" /\ op.call = "gap"
  BY NotIdle DEF PrepareGap, At
<1>2. CallOf(op, app, launches, now) /\ StepOf(op, config, journal, expired)
      /\ Ready(config, launches)
  BY <1>1, InCall
<1>3. config.gap = NoGap /\ config.intent = {} /\ op.at \in Instants
      /\ op.arg \in RuntimeReasons
  BY <1>1, <1>2 DEF StepOf, CallOf, SessionInv, Counted
<1>4. Document(config, launches) /\ config.session.heartbeat \in Times
      /\ config.session.heartbeat \in Nat /\ op.at \in Nat
  <2>1. Document(config, launches)
    BY DEF SessionInv
  <2>2. config.session.heartbeat \in Times
    BY <2>1, DocumentHas DEF Document
  <2> QED BY <2>1, <2>2, <1>3, TimesNat
<1>5. CASE Refuse
  BY <1>1, <1>5, RefuseKeeps
<1>6. CASE Update(config, "done") /\ UNCHANGED expired
  <2>1. PICK d : d = config
    OBVIOUS
  <2>2. Document(d, launches) /\ d.mode = config.mode /\ Ready(d, launches)
    BY <2>1, <1>2, <1>4
  <2>3. Update(d, "done")
    BY <2>1, <1>6
  <2> QED BY <2>2, <2>3, <1>1, <1>6, UpdateKeeps
<1>7. CASE /\ ~ (op.at = config.session.heartbeat)
           /\ ~ (op.at < config.session.heartbeat /\ op.arg # "clock-correction")
           /\ Update([config EXCEPT !.gap =
                RuntimeGap(config.session.id, config.session.heartbeat, op.at, op.arg)],
                "append")
           /\ UNCHANGED expired
  <2>1. PICK d : d = [config EXCEPT !.gap =
                   RuntimeGap(config.session.id, config.session.heartbeat, op.at, op.arg)]
    OBVIOUS
  <2>2. PICK at \in Instants, reason \in RuntimeReasons : at = op.at /\ reason = op.arg
    BY <1>3
  <2>3. reason # "clock-correction" => at > config.session.heartbeat
    BY <1>4, <1>7, <2>2
  <2>4. d = Awaiting(at, reason)
    BY <2>1, <2>2 DEF Awaiting
  <2>5. /\ Document(d, launches) /\ Alike(d, config) /\ d.session = config.session
        /\ d.gap # NoGap /\ d.intent = {} /\ d.startup = NoStartup
    BY <1>2, <1>3, <1>4, <2>3, <2>4, GapDocument
  <2>6. Ready(d, launches)
    BY <1>2, <2>5 DEF Ready
  <2>7. StepOf([op EXCEPT !.step = "append"], d, journal, expired)
    BY <1>1, <1>2, <2>5, Going DEF StepOf
  <2>8. Update(d, "append")
    BY <1>7, <2>1
  <2> QED BY <1>1, <1>7, <2>5, <2>6, <2>7, <2>8, UpdateKeeps DEF Alike
<1> QED  BY <1>5, <1>6, <1>7 DEF PrepareGap

LEMMA AnnouncedProofs ==
  ASSUME NEW o, NEW n \in Instants, o.arg \in AttemptSet, o.arg.recorded = n, o.at = n
  PROVE  /\ AnnouncedBy(o) \subseteq ProofSet /\ Cardinality(AnnouncedBy(o)) <= 2
         /\ \A p \in AnnouncedBy(o) : p.at = n
<1> DEFINE p == Proof(o.arg, o.arg.recorded)
           q == Proof(Completion(o.at), o.at)
<1>1. p = [id |-> <<"attempt", n>>, at |-> n]
  BY Kinds DEF Proof, ID
<1>2. q = [id |-> <<"completion", n>>, at |-> n]
  BY DEF Proof, ID, Completion
<1>3. p \in ProofSet /\ q \in ProofSet /\ p.at = n /\ q.at = n
  BY <1>1, <1>2 DEF ProofSet
<1> HIDE DEF p, q
<1>4. AnnouncedBy(o) = {p} \/ AnnouncedBy(o) = {p, q}
  BY DEF AnnouncedBy, p, q
<1> QED  BY <1>3, <1>4, AtMostTwo

LEMMA CheckedMode ==
  ASSUME NEW m \in ModeSet, NEW t
  PROVE  /\ Latched(m, t) \in ModeSet /\ Latched(m, t).window = m.window
         /\ m.expired => Latched(m, t).expired
         /\ m.window # <<>> /\ t >= m.window[2] => Latched(m, t).expired
BY DEF Latched, ModeSet

\* A study that the checks found over is over for good.
LEMMA StudyFoundOver ==
  ASSUME config.mode \in ModeSet
  PROVE  /\ StudyChecked \in ModeSet /\ StudyChecked.window = config.mode.window
         /\ config.mode.expired => StudyChecked.expired
         /\ FoundOver => StudyChecked.expired /\ config.mode.window # <<>>
         /\ Admitted /\ config.mode.window # <<>> => ~ config.mode.expired
<1> DEFINE observed == Latched(config.mode, op.arg.observed)
           both == Latched(observed, op.at)
<1>1. /\ observed \in ModeSet /\ observed.window = config.mode.window
      /\ config.mode.expired => observed.expired
      /\ config.mode.window # <<>> /\ op.arg.observed >= config.mode.window[2] => observed.expired
  <2> PICK m \in ModeSet : m = config.mode
    OBVIOUS
  <2> QED BY CheckedMode
<1>2. /\ both \in ModeSet /\ both.window = config.mode.window
      /\ observed.expired => both.expired
      /\ config.mode.window # <<>> /\ op.at >= config.mode.window[2] => both.expired
  <2>1. PICK m \in ModeSet : m = observed
    BY <1>1
  <2> QED BY <1>1, <2>1, CheckedMode
<1>3. StudyChecked \in {observed, both}
  BY DEF StudyChecked
<1>4. ~ (op.arg.observed >= config.mode.window[2]) => observed = config.mode
  BY DEF Latched
<1> HIDE DEF observed, both
<1>5. FoundOver => StudyChecked.expired /\ config.mode.window # <<>>
  <2> SUFFICES ASSUME FoundOver PROVE StudyChecked.expired /\ config.mode.window # <<>>
    OBVIOUS
  <2>1. config.mode.window # <<>>
    BY DEF FoundOver
  <2>2. CASE op.arg.observed >= config.mode.window[2]
    BY <1>1, <1>2, <1>3, <2>1, <2>2
  <2>3. CASE /\ ~ (op.arg.observed >= config.mode.window[2])
             /\ Admits(config.mode, op.arg.observed) /\ op.at >= config.mode.window[2]
    <3>1. StudyChecked = both
      BY <1>4, <2>3 DEF StudyChecked, observed, both
    <3> QED BY <1>2, <2>1, <2>3, <3>1
  <2> QED BY <2>1, <2>2, <2>3 DEF FoundOver
<1>6. Admitted /\ config.mode.window # <<>> => ~ config.mode.expired
  BY <1>1, <1>2, <1>3 DEF Admitted, Admits
<1> QED  BY <1>1, <1>2, <1>3, <1>5, <1>6

LEMMA AnnounceKeeps == SessionInv /\ Announce => SessionInv'
<1> SUFFICES ASSUME SessionInv, Announce PROVE SessionInv'
  OBVIOUS
<1>1. op # NoOp /\ op.step = "prepare" /\ op.call \in {"ingest", "retain"}
  BY NotIdle DEF Announce, At
<1>2. CallOf(op, app, launches, now) /\ StepOf(op, config, journal, expired)
      /\ Ready(config, launches) /\ app = "up"
  BY <1>1, InCall
<1>3. /\ config.gap = NoGap /\ op.at = now /\ now \in Instants
      /\ op.arg \in AttemptSet /\ op.arg.recorded = now
  BY <1>1, <1>2 DEF StepOf, CallOf, SessionInv, Counted
<1>4. Document(config, launches) /\ config \in ConfigSet /\ config.mode \in ModeSet
      /\ config.preference \in BOOLEAN
  BY DocumentHas DEF SessionInv, Document
<1>5. CASE Refuse
  BY <1>1, <1>5, RefuseKeeps
<1>6. CASE /\ config' = [config EXCEPT !.mode = StudyChecked]
           /\ expired' = (expired \/ FoundOver)
           /\ Refused /\ UNCHANGED <<clock, journal, launches, bounds, faults>>
  <2>1. PICK mode \in ModeSet : mode = StudyChecked
    BY <1>4, StudyFoundOver
  <2>2. config' = [config EXCEPT !.mode = mode, !.preference = config.preference]
    BY <1>4, <1>6, <2>1 DEF ConfigSet
  <2>3. PICK d : d = config'
    OBVIOUS
  <2>4. /\ Document(d, launches) /\ d.mode = mode
        /\ d.session = config.session /\ d.startup = config.startup
    BY <1>4, <2>2, <2>3, SettingsDocument
  <2>5. op' = NoOp /\ app' = app
        /\ UNCHANGED <<now, corrections, moves, journal, launches, settings, attempts, faults>>
    BY <1>1, <1>6 DEF Refused, clock, bounds
  <2>6. Launched(config', app', op', launches')
    BY <1>2, <2>3, <2>4, <2>5 DEF Launched, Ready
  <2>7. ExpiredSays(config', expired')
    <3>1. expired => config.mode.window # <<>> /\ config.mode.expired
      BY DEF SessionInv, ExpiredSays
    <3>2. expired' => mode.window # <<>> /\ mode.expired
      BY <1>4, <1>6, <2>1, <3>1, StudyFoundOver
    <3> QED BY <2>3, <2>4, <3>2 DEF ExpiredSays
  <2>8. expired' \in BOOLEAN
    BY <1>6
  <2>9. Counted'
    BY <2>5, <2>8 DEF Counted, SessionInv
  <2> QED BY <2>3, <2>4, <2>5, <2>6, <2>7, <2>9 DEF SessionInv, Calling
<1>7. CASE /\ Admitted
           /\ Update([config EXCEPT !.intent = Announced], "append")
           /\ UNCHANGED expired
  <2>1. PICK i : i = AnnouncedBy(op)
    OBVIOUS
  <2>2. i = Announced
    BY <2>1 DEF Announced, AnnouncedBy
  <2>3. i \subseteq ProofSet /\ Cardinality(i) <= 2
    BY <1>3, <2>1, AnnouncedProofs
  <2>4. PICK d : d = [config EXCEPT !.intent = i]
    OBVIOUS
  <2>5. /\ Document(d, launches) /\ Alike(d, config) /\ d.session = config.session
        /\ d.intent = i /\ d.gap = NoGap /\ d.startup = NoStartup
    BY <1>2, <1>3, <1>4, <2>3, <2>4, AnnouncedDocument
  <2>6. Ready(d, launches)
    BY <1>2, <2>5 DEF Ready
  <2>7. ~ expired
    <3>1. expired => config.mode.window # <<>> /\ config.mode.expired
      BY DEF SessionInv, ExpiredSays
    <3> QED BY <1>4, <1>7, <3>1, StudyFoundOver
  <2>8. StepOf([op EXCEPT !.step = "append"], d, journal, expired)
    <3> DEFINE o == [op EXCEPT !.step = "append"]
    <3>1. o.step = "append" /\ o.call = op.call /\ o.arg = op.arg /\ o.at = op.at
      BY <1>2, Going
    <3> HIDE DEF o
    <3>2. AnnouncedBy(o) = i
      BY <2>1, <3>1 DEF AnnouncedBy
    <3>3. StepOf(o, d, journal, expired)
      BY <1>1, <2>5, <2>7, <3>1, <3>2 DEF StepOf
    <3> QED BY <3>3 DEF o
  <2>9. Update(d, "append") /\ expired' = expired
    BY <1>7, <2>2, <2>4
  <2> QED BY <1>1, <2>5, <2>6, <2>8, <2>9, UpdateKeeps DEF Alike
<1> QED  BY <1>5, <1>6, <1>7 DEF Announce

\* The step after one of an attempt's own, with the same intent.
LEMMA NextOfAttempt ==
  ASSUME SessionInv, op # NoOp, op.call \in {"ingest", "retain"},
         config.gap = NoGap, config.intent = AnnouncedBy(op), NEW j, NEW s,
         \/ s = "complete" /\ op.call = "retain"
         \/ s = "commit" /\ (IF op.call = "retain" THEN Completion(op.at) ELSE op.arg) \in j
  PROVE  StepOf([op EXCEPT !.step = s], config, j, expired)
<1> DEFINE o == [op EXCEPT !.step = s]
<1>1. o.step = s /\ o.call = op.call /\ o.arg = op.arg /\ o.at = op.at
  BY InCall, Going
<1> HIDE DEF o
<1>2. AnnouncedBy(o) = AnnouncedBy(op)
  BY <1>1 DEF AnnouncedBy
<1>3. StepOf(o, config, j, expired)
  BY <1>1, <1>2 DEF StepOf
<1> QED  BY <1>3 DEF o

LEMMA RecordAttemptKeeps == SessionInv /\ RecordAttempt => SessionInv'
<1> SUFFICES ASSUME SessionInv, RecordAttempt PROVE SessionInv'
  OBVIOUS
<1>1. op # NoOp /\ op.step = "append" /\ op.call \in {"ingest", "retain"}
  BY NotIdle DEF RecordAttempt, At
<1>2. config.gap = NoGap /\ config.intent = AnnouncedBy(op) /\ op.arg \in AttemptSet
  BY <1>1, InCall DEF StepOf, CallOf
<1>3. PICK e \in EventSet, s \in {"complete", "commit"} :
        e = op.arg /\ s = (IF op.call = "retain" THEN "complete" ELSE "commit")
  BY <1>2 DEF EventSet
<1>4. Ingest(e, s)
  BY <1>3 DEF RecordAttempt
<1>5. StepOf([op EXCEPT !.step = s], config, journal \cup {e}, expired)
  BY <1>1, <1>2, <1>3, NextOfAttempt
<1> QED  BY <1>1, <1>3, <1>4, <1>5, IngestKeeps

LEMMA RecordCompletionKeeps == SessionInv /\ RecordCompletion => SessionInv'
<1> SUFFICES ASSUME SessionInv, RecordCompletion PROVE SessionInv'
  OBVIOUS
<1>1. op # NoOp /\ op.step = "complete" /\ op.call = "retain"
  BY NotIdle DEF RecordCompletion, At
<1>2. config.gap = NoGap /\ config.intent = AnnouncedBy(op) /\ op.at \in Instants
  BY <1>1, InCall DEF StepOf, CallOf, SessionInv, Counted
<1>3. PICK e \in EventSet : e = Completion(op.at)
  BY <1>2 DEF EventSet, CompletionSet, Completion
<1>4. Ingest(e, "commit")
  BY <1>3 DEF RecordCompletion
<1>5. StepOf([op EXCEPT !.step = "commit"], config, journal \cup {e}, expired)
  BY <1>1, <1>2, <1>3, NextOfAttempt
<1> QED  BY <1>1, <1>3, <1>4, <1>5, IngestKeeps

LEMMA AcknowledgeKeeps == SessionInv /\ Acknowledge => SessionInv'
<1> SUFFICES ASSUME SessionInv, Acknowledge PROVE SessionInv'
  OBVIOUS
<1>1. op # NoOp /\ op.step = "commit" /\ op.call \in {"ingest", "retain"}
  BY NotIdle DEF Acknowledge, At
<1>2. config.gap = NoGap /\ Ready(config, launches)
  BY <1>1, InCall DEF StepOf
<1>3. PICK d : d = Resolved({ID(IF op.call = "retain" THEN Completion(op.at) ELSE op.arg)})
  OBVIOUS
<1>4. Update(d, "done") /\ expired' = expired
  BY <1>3 DEF Acknowledge
<1>5. /\ Document(d, launches) /\ Alike(d, config) /\ d.startup = NoStartup
  <2>1. Document(config, launches) /\ config.startup = NoStartup
    BY <1>2 DEF SessionInv, Ready
  <2> QED BY <1>2, <1>3, <2>1, ResolvedDocument
<1>6. Ready(d, launches)
  BY <1>2, <1>5 DEF Ready, Alike
<1> QED  BY <1>1, <1>4, <1>5, <1>6, UpdateKeeps DEF Alike

LEMMA PrepareTerminationKeeps == SessionInv /\ PrepareTermination => SessionInv'
<1> SUFFICES ASSUME SessionInv, PrepareTermination PROVE SessionInv'
  OBVIOUS
<1>1. op # NoOp /\ op.step = "prepare" /\ op.call = "terminate"
  BY NotIdle DEF PrepareTermination, At
<1>2. config.gap = NoGap /\ config.intent = {} /\ Ready(config, launches)
      /\ op.at \in Instants
  BY <1>1, InCall DEF StepOf, CallOf, SessionInv, Counted
<1>3. CASE Refuse
  BY <1>1, <1>3, RefuseKeeps
<1>4. CASE /\ Update([config EXCEPT !.session.closed =
                        IF @ # 0 THEN @ ELSE Max({config.session.heartbeat, op.at})], "done")
           /\ UNCHANGED expired
  <2>1. PICK at \in Instants : at = op.at
    BY <1>2
  <2>2. PICK d : d = [config EXCEPT !.session.closed =
                        IF @ # 0 THEN @ ELSE Max({config.session.heartbeat, op.at})]
    OBVIOUS
  <2>3. d = Ended(at)
    BY <2>1, <2>2 DEF Ended
  <2>4. Document(d, launches) /\ d.mode = config.mode
    BY <1>2, <2>3, ClosedDocument DEF SessionInv
  <2>5. Update(d, "done") /\ expired' = expired
    BY <1>4, <2>2
  <2> QED BY <1>1, <2>4, <2>5, UpdateKeeps
<1> QED  BY <1>3, <1>4 DEF PrepareTermination

\* Between two calls: the mode or the preference changes, and what is known of the study.
LEMMA SettingKeeps ==
  ASSUME SessionInv, op = NoOp, app = "up",
         NEW mode \in ModeSet, NEW preference \in BOOLEAN,
         config' = [config EXCEPT !.mode = mode, !.preference = preference],
         settings' \in 0 .. MaxSettings, attempts' = attempts, expired' \in BOOLEAN,
         expired' => mode.window # <<>> /\ mode.expired,
         UNCHANGED <<clock, journal, app, launches, op, faults>>
  PROVE  SessionInv'
<1>1. PICK d : d = config'
  OBVIOUS
<1>2. /\ Document(d, launches) /\ d.mode = mode
      /\ d.session = config.session /\ d.startup = config.startup
  BY <1>1, SettingsDocument DEF SessionInv
<1>3. UNCHANGED <<now, corrections, moves, journal, app, launches, op, faults>>
  BY DEF clock
<1>4. Launched(config', app', op', launches')
  BY <1>1, <1>2, <1>3 DEF Launched, Ready, SessionInv
<1>5. Counted'
  BY <1>3 DEF Counted, SessionInv
<1>6. ExpiredSays(config', expired')
  BY <1>1, <1>2 DEF ExpiredSays
<1> QED  BY <1>1, <1>2, <1>3, <1>4, <1>5, <1>6 DEF SessionInv, Calling

LEMMA SettingsKeep == SessionInv /\ Settings => SessionInv'
<1> SUFFICES ASSUME SessionInv, Settings PROVE SessionInv'
  OBVIOUS
<1>1. config \in ConfigSet /\ config.mode \in ModeSet /\ config.preference \in BOOLEAN
  BY DocumentHas DEF SessionInv, Document
<1>2. Change => /\ op = NoOp /\ app = "up" /\ settings' \in 0 .. MaxSettings
                /\ attempts' = attempts
  BY NotIdle, SessionAssumption DEF Change, SessionInv, Counted
<1>3. expired \in BOOLEAN /\ (expired => config.mode.window # <<>> /\ config.mode.expired)
  BY DEF SessionInv, Counted, ExpiredSays
<1>4. CASE SetRecordingPreference
  <2>1. config' = [config EXCEPT !.mode = config.mode, !.preference = ~ config.preference]
    BY <1>1, <1>4 DEF SetRecordingPreference, ConfigSet
  <2>2. PICK mode \in ModeSet, preference \in BOOLEAN :
          mode = config.mode /\ preference = ~ config.preference
    BY <1>1
  <2>3. config' = [config EXCEPT !.mode = mode, !.preference = preference]
    BY <2>1, <2>2
  <2>4. Change /\ UNCHANGED <<clock, journal, app, launches, op, expired, faults>>
    BY <1>4 DEF SetRecordingPreference
  <2>5. expired' \in BOOLEAN /\ (expired' => mode.window # <<>> /\ mode.expired)
    BY <1>3, <2>2, <2>4
  <2> QED BY <1>2, <2>3, <2>4, <2>5, SettingKeeps
<1>5. ASSUME NEW m \in ModeSet, Change, config' = [config EXCEPT !.mode = m],
             expired' = FALSE, UNCHANGED <<clock, journal, app, launches, op, faults>>
      PROVE  SessionInv'
  <2>1. PICK preference \in BOOLEAN : preference = config.preference
    BY <1>1
  <2>2. config' = [config EXCEPT !.mode = m, !.preference = preference]
    BY <1>1, <1>5, <2>1 DEF ConfigSet
  <2>3. expired' \in BOOLEAN /\ ~ expired'
    BY <1>5
  <2> QED BY <1>2, <1>5, <2>2, <2>3, SettingKeeps
<1>6. ASSUME NEW mode \in Modes, SetMode(mode) PROVE SessionInv'
  <2>1. mode \in ModeSet
    BY StudyModes
  <2> QED BY <1>5, <1>6, <2>1 DEF SetMode
<1>7. ASSUME NEW end \in Instants \cup {MaxInstant + 1}, Extend(end) PROVE SessionInv'
  <2>1. PICK m : m = Study(<<config.mode.window[1], end>>)
    OBVIOUS
  <2>2. m \in ModeSet
    <3>1. config.mode.window \in Instants \X (1 .. MaxInstant + 1)
      BY <1>1, <1>7 DEF Extend, ModeSet
    <3>2. end \in 1 .. MaxInstant + 1
      BY SessionAssumption DEF Instants
    <3>3. config.mode.window[1] \in Instants
      BY <3>1
    <3> QED BY <2>1, <3>2, <3>3 DEF Study, ModeSet
  <2>3. /\ Change /\ expired' = FALSE
        /\ UNCHANGED <<clock, journal, app, launches, op, faults>>
        /\ config' = [config EXCEPT !.mode = m]
    BY <1>1, <1>7, <2>1 DEF Extend, ConfigSet
  <2> QED BY <1>5, <2>2, <2>3
<1>8. CASE Admission
  <2>1. PICK m \in ModeSet : m = Latched(config.mode, now)
    BY <1>1, CheckedMode
  <2>2. m.window # <<>> /\ m.expired
    BY <1>1, <1>8, <2>1, CheckedMode DEF Admission
  <2>3. PICK preference \in BOOLEAN : preference = config.preference
    BY <1>1
  <2>4. config' = [config EXCEPT !.mode = m, !.preference = preference]
    BY <1>1, <1>8, <2>1, <2>3 DEF Admission, ConfigSet
  <2>5. /\ op = NoOp /\ app = "up" /\ expired' = TRUE /\ settings' = settings
        /\ attempts' = attempts /\ UNCHANGED <<clock, journal, app, launches, op, faults>>
    BY <1>8, NotIdle DEF Admission, bounds
  <2>6. settings' \in 0 .. MaxSettings /\ expired' \in BOOLEAN
    BY <2>5 DEF SessionInv, Counted
  <2> QED BY <2>2, <2>4, <2>5, <2>6, SettingKeeps
<1> QED  BY <1>4, <1>6, <1>7, <1>8 DEF Settings

LEMMA EnvironmentKeeps == SessionInv /\ Environment => SessionInv'
<1> SUFFICES ASSUME SessionInv, Environment PROVE SessionInv'
  OBVIOUS
<1>1. /\ op = NoOp /\ op' = NoOp /\ config' = config /\ journal' = journal
      /\ launches' = launches /\ expired' = expired /\ faults' = faults
      /\ settings' = settings /\ attempts' = attempts /\ app' \in {app, "off"}
  BY NotIdle DEF Environment, Crash, Tick, Correct, bounds
<1>2. now' \in Instants /\ corrections' \in 0 .. MaxCorrections /\ moves' \in 0 .. MaxMoves
  <2>1. /\ now \in Instants /\ corrections \in 0 .. MaxCorrections /\ moves \in 0 .. MaxMoves
        /\ MaxInstant \in Nat /\ MaxCorrections \in Nat /\ MaxMoves \in Nat
    BY SessionAssumption DEF SessionInv, Counted
  <2>2. CASE Crash
    BY <2>1, <2>2 DEF Crash, clock
  <2>3. CASE Tick
    BY <2>1, <2>3 DEF Tick, Instants
  <2>4. CASE Correct
    BY <2>1, <2>4 DEF Correct, Instants
  <2> QED BY <2>2, <2>3, <2>4 DEF Environment
<1>3. Launched(config', app', op', launches')
  BY <1>1 DEF Launched, Ready, SessionInv, NoOp
<1>4. Counted'
  BY <1>1, <1>2 DEF Counted, SessionInv
<1> QED  BY <1>1, <1>3, <1>4 DEF SessionInv, Calling, ExpiredSays

LEMMA StutterKeeps == SessionInv /\ UNCHANGED vars => SessionInv'
BY DEF SessionInv, Counted, Document, Launched, Calling, CallOf, StepOf, ExpiredSays, vars,
       clock, bounds, Ready

LEMMA NextKeeps == SessionInv /\ [Next]_vars => SessionInv'
BY CallsKeep, ReconcileIntentKeeps, RecordGapKeeps, CommitGapKeeps, PrepareStartupKeeps,
   RecordStartupKeeps, CommitStartupKeeps, PrepareGapKeeps, AnnounceKeeps,
   RecordAttemptKeeps, RecordCompletionKeeps, AcknowledgeKeeps, PrepareTerminationKeeps,
   SettingsKeep, EnvironmentKeeps, StutterKeeps DEF Next, Steps

LEMMA SessionAlways == Spec => []SessionInv
BY InitKeeps, NextKeeps, PTL DEF Spec

-----------------------------------------------------------------------------
(* Types, and the study that is over                                        *)

LEMMA InvGivesTypeOK == SessionInv => TypeOK
<1> SUFFICES ASSUME SessionInv PROVE TypeOK
  OBVIOUS
<1>1. config \in ConfigSet /\ Document(config, launches)
  BY DEF SessionInv, Document
<1>2. config.session \in [id : {0} \cup Sessions, started : {0} \cup Instants,
                          heartbeat : {0} \cup Instants, closed : {0} \cup Instants]
  <2>1. Times = {0} \cup Instants
    BY SessionAssumption DEF Times, Instants
  <2> QED BY <1>1, <2>1, DocumentHas DEF SessionSet
<1>3. config.preference \in BOOLEAN
  BY <1>1, DocumentHas
<1>4. /\ config.session.started <= config.session.heartbeat
      /\ Cardinality(config.intent) <= 2
      /\ config.gap # NoGap => config.intent = {} /\ config.startup = NoStartup
  BY <1>1 DEF Document, PendingGap
<1> QED  BY <1>2, <1>3, <1>4 DEF TypeOK, SessionInv, Counted

(* Every variable keeps its type, and a runtime gap that waits in config.json is alone *)
(* there: no heartbeat intent and no unfinished startup waits beside it. *)
THEOREM TypeCorrect == Spec => []TypeOK
BY SessionAlways, InvGivesTypeOK, PTL

\* What Ingest adds, and that nothing else adds anything.
LEMMA Appended ==
  ASSUME NEW e, NEW s, Ingest(e, s)
  PROVE  journal' \in {journal, journal \cup {e}}
BY DEF Ingest

LEMMA JournalSteps ==
  ASSUME SessionInv, [Next]_vars, journal' # journal
  PROVE  RecordGap \/ RecordStartup \/ RecordAttempt \/ RecordCompletion
<1>1. CASE Calls
  <2>1. \A call, arg : Begin(call, arg) => journal' = journal
    BY DEF Begin
  <2> QED BY <1>1, <2>1 DEF Calls, Startup, ReconcileRuntimeGap, Record, Terminate
<1>2. \A d, s : Update(d, s) => journal' = journal
  BY DEF Update
<1>3. CASE ReconcileIntent \/ CommitGap \/ PrepareStartup \/ CommitStartup \/ PrepareGap
           \/ Announce \/ Acknowledge \/ PrepareTermination
  BY <1>2, <1>3 DEF ReconcileIntent, CommitGap, PrepareStartup, CommitStartup, PrepareGap,
                    Announce, Acknowledge, PrepareTermination, Refuse
<1>4. CASE Settings
  BY <1>4 DEF Settings, SetRecordingPreference, SetMode, Extend, Admission
<1>5. CASE Environment
  BY <1>5 DEF Environment, Crash, Tick, Correct
<1>6. CASE UNCHANGED vars
  BY <1>6 DEF vars
<1> QED  BY <1>1, <1>3, <1>4, <1>5, <1>6 DEF Next, Steps

LEMMA ExpiryStep ==
  SessionInv /\ [Next]_vars =>
    (expired => \A e \in journal' \ journal : e.kind = "gap" \/ e.kind = "completion")
<1> SUFFICES ASSUME SessionInv, [Next]_vars, expired, NEW e \in journal' \ journal
             PROVE  e.kind = "gap" \/ e.kind = "completion"
  OBVIOUS
<1>1. CASE RecordGap
  <2>1. config.gap \in GapSet
    BY <1>1, DocumentHas DEF RecordGap, SessionInv, Document
  <2>2. e = config.gap
    BY <1>1, Appended DEF RecordGap
  <2> QED BY <2>1, <2>2, Kinds
<1>2. CASE RecordStartup
  <2> DEFINE gaps == config.startup.gaps
  <2>1. PICK i \in DOMAIN gaps : Ingest(gaps[i], "append")
    BY <1>2 DEF RecordStartup
  <2>2. e = gaps[i]
    BY <2>1, Appended
  <2>3. config.startup # NoStartup
    BY <1>2, InCall, NotIdle DEF RecordStartup, At, StepOf
  <2>4. gaps \in Seq(GapSet)
    BY <2>3, DocumentHas DEF SessionInv, Document, StartupSet
  <2> QED BY <2>2, <2>4, Kinds
<1>3. CASE RecordAttempt
  BY <1>3, InCall, NotIdle DEF RecordAttempt, At, StepOf
<1>4. CASE RecordCompletion
  <2>1. e = Completion(op.at)
    BY <1>4, Appended DEF RecordCompletion
  <2> QED BY <2>1 DEF Completion
<1> QED  BY <1>1, <1>2, <1>3, <1>4, JournalSteps

LEMMA ExpirySteps ==
  SessionInv /\ [Next]_vars =>
    [expired => \A e \in journal' \ journal : e.kind = "gap" \/ e.kind = "completion"]_vars
BY ExpiryStep

(* Once a check has found the study over no evidence is recorded, in whatever order *)
(* checks, attempts, failures and corrections of the clock come. *)
THEOREM ExpiryIsKept == Spec => ExpiryHolds
BY SessionAlways, ExpirySteps, PTL DEF Spec, ExpiryHolds

-----------------------------------------------------------------------------
(* The session and the journal                                              *)

Unmoved(s, t) == s.id = t.id /\ s.heartbeat = t.heartbeat

LEMMA UnmovedProved ==
  Unmoved(config'.session, config.session) => HeartbeatProved /\ AbsenceRecorded
BY DEF Unmoved, HeartbeatProved, AbsenceRecorded

LEMMA Updated ==
  ASSUME NEW d, NEW s, Update(d, s)
  PROVE  config' \in {config, d} /\ journal' = journal
BY DEF Update, Aborted

\* Moving to a proof that the journal has.
LEMMA ResolvedProved ==
  ASSUME SessionInv, NEW ids, NEW d, d = Resolved(ids), config' = d, journal' = journal,
         \A p \in config.intent : p.id \in ids => \E e \in journal : ID(e) = p.id
  PROVE  HeartbeatProved /\ AbsenceRecorded
<1> DEFINE proved == {p.at : p \in {q \in config.intent : q.id \in ids}}
<1>1. config \in ConfigSet
  BY DEF SessionInv, Document
<1>2. /\ d = [config EXCEPT !.intent = {},
                !.session = [config.session EXCEPT !.heartbeat = d.session.heartbeat]]
      /\ d.session.heartbeat \in {config.session.heartbeat} \cup proved
  BY <1>1, ResolvedHeartbeat
<1>3. d.session.id = config.session.id
  <2> PICK h : h = d.session.heartbeat
    OBVIOUS
  <2>1. d = [config EXCEPT !.intent = {}, !.session = [config.session EXCEPT !.heartbeat = h]]
    BY <1>2
  <2>2. d.session = [config.session EXCEPT !.heartbeat = h]
    BY <1>1, <2>1 DEF ConfigSet
  <2> QED BY <1>1, <2>2, DocumentHas DEF SessionSet
<1>4. CASE d.session.heartbeat = config.session.heartbeat
  BY <1>3, <1>4, UnmovedProved DEF Unmoved
<1>5. CASE d.session.heartbeat # config.session.heartbeat
  <2>1. PICK p \in config.intent : p.id \in ids /\ p.at = d.session.heartbeat
    BY <1>2, <1>5
  <2>2. PICK e \in journal : ID(e) = p.id
    BY <2>1
  <2>3. p.id = <<"attempt", p.at>> \/ p.id = <<"completion", p.at>>
    BY <1>1, DocumentHas, ProofHas
  <2>4. e.kind # "gap" /\ e.recorded = p.at
    <3>1. e \in EventSet
      BY DEF SessionInv
    <3> QED BY <3>1, <2>2, <2>3, AttemptsID
  <2> QED BY <1>3, <2>1, <2>4 DEF HeartbeatProved, AbsenceRecorded
<1> QED  BY <1>4, <1>5

LEMMA CommitGapProved ==
  ASSUME SessionInv, CommitGap
  PROVE  HeartbeatProved /\ AbsenceRecorded
<1>1. config.gap # NoGap /\ op.step \in {"settle", "commit"} /\ op # NoOp
  BY NotIdle DEF CommitGap
<1>2. config.gap \in journal
  <2>1. StepOf(op, config, journal, expired)
    BY <1>1, InCall
  <2>2. config.startup # NoStartup => config.gap = NoGap
    BY DEF SessionInv, Document, PendingStartup
  <2> QED BY <1>1, <2>1, <2>2 DEF StepOf
<1>3. config' \in {config, Reconciled} /\ journal' = journal
  BY Updated DEF CommitGap
<1>4. Document(config, launches) /\ config \in ConfigSet /\ PendingGap(config)
  BY <1>1 DEF SessionInv, Document
<1>5. CASE config' = config
  BY <1>5, UnmovedProved DEF Unmoved
<1>6. CASE config' = Reconciled
  <2>1. /\ config'.session.id = config.session.id
        /\ config'.session.heartbeat = config.gap.recorded
    BY <1>1, <1>4, <1>6, ReconciledDocument DEF Alike
  <2>2. PICK s \in {0} \cup Sessions, h \in Times, r \in Times, reason \in RuntimeReasons :
          /\ s = config.session.id /\ h = config.session.heartbeat /\ r = config.gap.recorded
          /\ reason = config.gap.reason
    BY <1>4, DocumentHas, TimesNat DEF PendingGap
  <2>3. config.gap = RuntimeGap(s, h, r, reason)
    BY <1>4, <2>2 DEF PendingGap
  <2>4. /\ config.gap.kind = "gap" /\ config.gap.start = (IF h <= r THEN h ELSE r)
        /\ config.gap.end = IF h <= r THEN r ELSE h
    BY <2>3, RuntimeGapType, Kinds
  <2>5. \A t \in Between(h, r) : config.gap.start <= t /\ t < config.gap.end
    <3> TAKE t \in Between(h, r)
    <3>1. h \in Nat /\ r \in Nat
      BY TimesNat
    <3>2. t \in Int /\ ((h <= t /\ t < r) \/ (r <= t /\ t < h))
      BY <3>1, BetweenTwo
    <3> QED BY <2>4, <3>1, <3>2
  <2>6. \A t \in Between(config.session.heartbeat, config'.session.heartbeat) :
          Covered(t, journal)
    BY <1>2, <2>1, <2>2, <2>4, <2>5 DEF Covered
  <2> QED BY <2>1, <2>6 DEF HeartbeatProved, AbsenceRecorded
<1> QED  BY <1>3, <1>5, <1>6

LEMMA PrepareStartupProved ==
  ASSUME SessionInv, PrepareStartup
  PROVE  HeartbeatProved /\ AbsenceRecorded
<1>1. op # NoOp /\ op.step = "prepare" /\ op.call = "startup"
  BY NotIdle DEF PrepareStartup, At
<1>2. op.arg = launches /\ launches \in Sessions /\ op.at \in Instants
      /\ config.gap = NoGap /\ config.intent = {}
  BY <1>1, InCall DEF StepOf, CallOf, SessionInv, Counted
<1>3. PICK d : d = PreparedStartup
  OBVIOUS
<1>4. config' \in {config, d}
  BY <1>3, Updated DEF PrepareStartup
<1>5. \/ d.session = config.session
      \/ /\ d.session = NewSession(launches, op.at)
         /\ config.startup = NoStartup /\ d.startup = NoStartup
         /\ config.session.id = 0 \/ Boundary(config.session) = op.at
  <2>1. Document(config, launches)
    BY DEF SessionInv
  <2> QED BY <1>2, <1>3, <2>1, StartupDocument
<1>6. CASE config'.session = config.session
  BY <1>6, UnmovedProved DEF Unmoved
<1>7. CASE config' = d /\ d # config /\ d.session = NewSession(launches, op.at)
           /\ (config.session.id = 0 \/ Boundary(config.session) = op.at)
  <2>1. d.session.started = op.at /\ d.session.id = launches
    BY <1>7 DEF NewSession
  <2>2. op.at \in Nat /\ \A t : t \notin Between(op.at, op.at)
    <3>1. op.at \in Nat
      BY <1>2, TimesNat
    <3> QED BY <3>1, BetweenTwo
  <2>3. AbsenceRecorded
    BY <1>7, <2>1, <2>2 DEF AbsenceRecorded
  <2>4. HeartbeatProved
    <3>1. CASE config.session.id # launches
      BY <1>7, <2>1, <3>1 DEF HeartbeatProved
    <3>2. CASE config.session.id = launches
      <4>1. config.startup # NoStartup
        <5>1. config.startup = NoStartup => d = config
          BY <1>2, <1>3, <3>2 DEF PreparedStartup
        <5> QED BY <1>7, <5>1
      <4>2. config.session.id < config.startup.session.id
            /\ config.startup.session.id <= launches
        BY <4>1 DEF SessionInv, Document, PendingStartup
      <4>3. config.startup.session.id \in Nat /\ launches \in Nat
        BY <1>2, <4>1, DocumentHas DEF SessionInv, Document, StartupSet, SessionSet, Sessions
      <4> QED BY <3>2, <4>2, <4>3
    <3> QED BY <3>1, <3>2
  <2> QED BY <2>3, <2>4
<1> QED  BY <1>4, <1>5, <1>6, <1>7

LEMMA CommitStartupProved ==
  ASSUME SessionInv, CommitStartup
  PROVE  HeartbeatProved /\ AbsenceRecorded
<1>1. op # NoOp /\ op.step = "commit" /\ op.call = "startup"
  BY NotIdle DEF CommitStartup, At
<1>2. /\ config.startup # NoStartup
      /\ \A i \in DOMAIN config.startup.gaps : config.startup.gaps[i] \in journal
  BY <1>1, InCall DEF StepOf
<1>3. PICK d : d = [config EXCEPT !.session = config.startup.session, !.startup = NoStartup]
  OBVIOUS
<1>4. config' \in {config, d} /\ journal' = journal
  BY <1>3, Updated DEF CommitStartup
<1>5. Document(config, launches) /\ PendingStartup(config) /\ config \in ConfigSet
  BY <1>2 DEF SessionInv, Document
<1>6. CASE config' = config
  BY <1>6, UnmovedProved DEF Unmoved
<1>7. CASE config' = d
  <2>1. d.session = config.startup.session /\ d.session.id # config.session.id
    BY <1>2, <1>3, <1>5, CommittedDocument
  <2>2. config.startup.gaps \in Seq(GapSet)
    BY <1>2, <1>5, DocumentHas DEF StartupSet
  <2>3. ASSUME NEW t \in Between(Boundary(config.session), config'.session.started)
        PROVE  Covered(t, journal)
    <3>1. CoveredBy(t, config.startup.gaps)
      BY <1>5, <1>7, <2>1, <2>3 DEF PendingStartup
    <3>2. PICK i \in DOMAIN config.startup.gaps :
            config.startup.gaps[i].start <= t /\ t < config.startup.gaps[i].end
      BY <3>1 DEF CoveredBy
    <3>3. config.startup.gaps[i].kind = "gap"
      BY <2>2, Kinds
    <3> QED BY <1>2, <3>2, <3>3 DEF Covered
  <2> QED BY <1>7, <2>1, <2>3 DEF HeartbeatProved, AbsenceRecorded
<1> QED  BY <1>4, <1>6, <1>7

LEMMA AcknowledgeProved ==
  ASSUME SessionInv, Acknowledge
  PROVE  HeartbeatProved /\ AbsenceRecorded
<1> DEFINE x == IF op.call = "retain" THEN Completion(op.at) ELSE op.arg
<1>1. op # NoOp /\ op.step = "commit" /\ op.call \in {"ingest", "retain"}
  BY NotIdle DEF Acknowledge, At
<1>2. x \in journal
  BY <1>1, InCall DEF StepOf
<1>3. PICK d : d = Resolved({ID(x)})
  OBVIOUS
<1>4. config' \in {config, d} /\ journal' = journal
  BY <1>3, Updated DEF Acknowledge
<1>5. CASE config' = config
  BY <1>5, UnmovedProved DEF Unmoved
<1>6. CASE config' = d
  <2>1. \A p \in config.intent : p.id \in {ID(x)} => \E e \in journal : ID(e) = p.id
    <3> HIDE DEF x
    <3> QED BY <1>2
  <2>2. PICK ids : ids = {ID(x)}
    OBVIOUS
  <2> HIDE DEF x
  <2> QED BY <1>3, <1>4, <1>6, <2>1, <2>2, ResolvedProved
<1> QED  BY <1>4, <1>5, <1>6

LEMMA ReconcileIntentProved ==
  ASSUME SessionInv, ReconcileIntent
  PROVE  HeartbeatProved /\ AbsenceRecorded
<1>1. PICK ids : ids = {p.id : p \in {q \in config.intent : Canonical(q.id)}}
  OBVIOUS
<1>2. PICK d : d = Resolved(ids)
  OBVIOUS
<1>3. config' \in {config, d} /\ journal' = journal
  BY <1>1, <1>2, Updated DEF ReconcileIntent
<1>4. CASE config' = config
  BY <1>4, UnmovedProved DEF Unmoved
<1>5. CASE config' = d
  <2>1. \A p \in config.intent : p.id \in ids => \E e \in journal : ID(e) = p.id
    BY <1>1 DEF Canonical
  <2> QED BY <1>2, <1>3, <1>5, <2>1, ResolvedProved
<1> QED  BY <1>3, <1>4, <1>5

LEMMA ProvedStep == SessionInv /\ [Next]_vars => HeartbeatProved /\ AbsenceRecorded
<1> SUFFICES ASSUME SessionInv, [Next]_vars PROVE HeartbeatProved /\ AbsenceRecorded
  OBVIOUS
<1>1. config \in ConfigSet
  BY DEF SessionInv, Document
<1>2. CASE config'.session = config.session
  BY <1>2, UnmovedProved DEF Unmoved
<1>3. CASE Calls
  <2>1. \A call, arg : Begin(call, arg) => config' = config
    BY DEF Begin
  <2> QED BY <1>2, <1>3, <2>1 DEF Calls, Startup, ReconcileRuntimeGap, Record, Terminate
<1>4. CASE RecordGap \/ RecordStartup \/ RecordAttempt \/ RecordCompletion
  <2>1. \A e, s : Ingest(e, s) => config' = config
    BY DEF Ingest
  <2> QED BY <1>2, <1>4, <2>1 DEF RecordGap, RecordStartup, RecordAttempt, RecordCompletion
<1>5. CASE PrepareGap
  <2>1. PICK d : d = Awaiting(op.at, op.arg)
    OBVIOUS
  <2>2. config' \in {config, d}
    BY <1>5, <2>1, Updated DEF PrepareGap, Refuse, Awaiting
  <2>3. d.session = config.session
    BY <1>1, <2>1 DEF Awaiting, ConfigSet
  <2> QED BY <1>2, <2>2, <2>3
<1>6. CASE Announce
  <2>1. PICK d : d = [config EXCEPT !.intent = Announced]
    OBVIOUS
  <2>2. PICK d2 : d2 = [config EXCEPT !.mode = StudyChecked]
    OBVIOUS
  <2>3. config' \in {config, d, d2}
    BY <1>6, <2>1, <2>2, Updated DEF Announce, Refuse
  <2>4. d.session = config.session /\ d2.session = config.session
    BY <1>1, <2>1, <2>2 DEF ConfigSet
  <2> QED BY <1>2, <2>3, <2>4
<1>7. CASE PrepareTermination
  <2>1. op # NoOp /\ op.step = "prepare" /\ op.call = "terminate"
    BY <1>7, NotIdle DEF PrepareTermination, At
  <2>2. config.gap = NoGap /\ config.intent = {} /\ Ready(config, launches)
        /\ op.at \in Instants
    BY <2>1, InCall DEF StepOf, CallOf, SessionInv, Counted
  <2>3. PICK at \in Instants : at = op.at
    BY <2>2
  <2>4. PICK d : d = Ended(at)
    OBVIOUS
  <2>5. config' \in {config, d}
    BY <1>7, <2>3, <2>4, Updated DEF PrepareTermination, Refuse, Ended
  <2>6. d.session = [config.session EXCEPT !.closed = d.session.closed]
    <3>1. Document(config, launches)
      BY DEF SessionInv
    <3> QED BY <2>2, <2>4, <3>1, ClosedDocument
  <2>7. d.session.id = config.session.id /\ d.session.heartbeat = config.session.heartbeat
    <3> PICK c : c = d.session.closed
      OBVIOUS
    <3>1. d.session = [config.session EXCEPT !.closed = c]
      BY <2>6
    <3> QED BY <1>1, <3>1, DocumentHas DEF SessionSet
  <2> QED BY <2>5, <2>7, UnmovedProved DEF Unmoved
<1>8. CASE Settings
  <2>1. \A m : [config EXCEPT !.mode = m].session = config.session
    BY <1>1 DEF ConfigSet
  <2>2. \A m : [config EXCEPT !.preference = m].session = config.session
    BY <1>1 DEF ConfigSet
  <2>3. CASE SetRecordingPreference
    BY <1>2, <2>2, <2>3 DEF SetRecordingPreference
  <2>4. CASE Admission
    BY <1>2, <2>1, <2>4 DEF Admission
  <2>5. ASSUME NEW mode, SetMode(mode) \/ Extend(mode) PROVE config'.session = config.session
    BY <1>1, <2>5 DEF SetMode, Extend, ConfigSet
  <2> QED BY <1>2, <1>8, <2>3, <2>4, <2>5 DEF Settings
<1>9. CASE Environment
  BY <1>2, <1>9 DEF Environment, Crash, Tick, Correct
<1>10. CASE UNCHANGED vars
  BY <1>2, <1>10 DEF vars
<1> QED  BY <1>3, <1>4, <1>5, <1>6, <1>7, <1>8, <1>9, <1>10, CommitGapProved,
            PrepareStartupProved, CommitStartupProved, AcknowledgeProved,
            ReconcileIntentProved DEF Next, Steps

LEMMA ProvedSteps ==
  SessionInv /\ [Next]_vars => [HeartbeatProved /\ AbsenceRecorded]_vars
BY ProvedStep

(* The heartbeat moves only to the time of an event that is in the journal or across a *)
(* gap that is, and a new session replaces an old one only when gaps account for all   *)
(* the time between them, over any number of launches, failures and clock corrections. *)
THEOREM SessionIsProved == Spec => SessionProved
BY SessionAlways, ProvedSteps, PTL DEF Spec, SessionProved

-----------------------------------------------------------------------------
(* While the clock is not set back                                          *)

LEMMA EventHas ==
  ASSUME NEW j \in SUBSET EventSet
  PROVE  /\ \A g \in GapsOf(j) : g \in GapSet /\ g.start \in Nat /\ g.end \in Nat
         /\ \A e \in EvidenceOf(j) :
              /\ e \in AttemptSet \cup CompletionSet /\ e.recorded \in Nat /\ e.kind # "gap"
              /\ e.kind # "completion" => e \in AttemptSet /\ e.observed \in Nat
<1>1. \A g \in GapsOf(j) : g \in GapSet
  BY Kinds DEF GapsOf, EventSet
<1>2. \A g \in GapsOf(j) : g.start \in Nat /\ g.end \in Nat
  BY <1>1, GapHasFields, TimesNat
<1>3. \A e \in EvidenceOf(j) : e \in AttemptSet \cup CompletionSet
  BY Kinds DEF EvidenceOf, GapsOf, EventSet
<1>4. \A e \in AttemptSet \cup CompletionSet : e.recorded \in Nat
  BY TimesNat DEF AttemptSet, CompletionSet
<1>5. \A e \in AttemptSet : e.observed \in Nat
  BY TimesNat DEF AttemptSet
<1> QED  BY <1>1, <1>2, <1>3, <1>4, <1>5, Kinds

LEMMA WithGapRecord ==
  ASSUME NEW j, NEW e, e.kind = "gap"
  PROVE  GapsOf(j \cup {e}) = GapsOf(j) \cup {e} /\ EvidenceOf(j \cup {e}) = EvidenceOf(j)
BY DEF GapsOf, EvidenceOf

LEMMA WithEvidence ==
  ASSUME NEW j, NEW e, e.kind # "gap"
  PROVE  GapsOf(j \cup {e}) = GapsOf(j) /\ EvidenceOf(j \cup {e}) = EvidenceOf(j) \cup {e}
BY DEF GapsOf, EvidenceOf

\* Only the call and what it is about count, not its step.
LEMMA AheadOfCall ==
  ASSUME NEW c, NEW j, NEW n, NEW o, NEW m, Ahead(c, j, o, n),
         \/ m.call \notin {"ingest", "retain"}
         \/ m.call = o.call /\ m.arg = o.arg
  PROVE  Ahead(c, j, m, n)
BY DEF Ahead

\* The numbers of a document.
LEMMA Numbers ==
  ASSUME Document(config, launches)
  PROVE  /\ config \in ConfigSet
         /\ config.session.heartbeat \in Nat /\ config.session.closed \in Nat
         /\ Boundary(config.session) \in Nat
         /\ config.session.heartbeat <= Boundary(config.session)
         /\ config.gap # NoGap =>
              /\ PendingGap(config) /\ config.gap \in GapSet
              /\ config.gap.recorded \in Nat /\ config.gap.start \in Nat
              /\ config.gap.end \in Nat
              /\ Boundary(config.session) = config.session.heartbeat
              /\ config.session.heartbeat < config.gap.recorded =>
                   config.gap.start = config.session.heartbeat
                     /\ config.gap.end = config.gap.recorded
         /\ config.startup # NoStartup =>
              /\ PendingStartup(config) /\ config.startup.gaps \in Seq(GapSet)
              /\ Last(config.startup.gaps).end \in Nat
              /\ \A i \in DOMAIN config.startup.gaps :
                   /\ config.startup.gaps[i] \in GapSet
                   /\ config.startup.gaps[i].start \in Nat /\ config.startup.gaps[i].end \in Nat
<1>1. config \in ConfigSet
  BY DEF Document
<1>2. /\ config.session.heartbeat \in Times /\ config.session.closed \in Times
      /\ Boundary(config.session) \in Times /\ config.session.id \in {0} \cup Sessions
  BY <1>1, DocumentHas
<1>3. /\ config.session.heartbeat \in Nat /\ config.session.closed \in Nat
      /\ Boundary(config.session) \in Nat
  BY <1>2, TimesNat
<1>4. config.session.heartbeat <= Boundary(config.session)
  BY <1>3 DEF Boundary, Document
<1>5. ASSUME config.gap # NoGap
      PROVE  /\ PendingGap(config) /\ config.gap \in GapSet
             /\ config.gap.recorded \in Nat /\ config.gap.start \in Nat
             /\ config.gap.end \in Nat
             /\ Boundary(config.session) = config.session.heartbeat
             /\ config.session.heartbeat < config.gap.recorded =>
                  config.gap.start = config.session.heartbeat
                    /\ config.gap.end = config.gap.recorded
  <2>1. PendingGap(config) /\ config.gap \in GapSet
    BY <1>1, <1>5, DocumentHas DEF Document
  <2>2. /\ config.gap.recorded \in Nat /\ config.gap.start \in Nat /\ config.gap.end \in Nat
        /\ config.gap.recorded \in Times
    BY <2>1, GapHasFields, TimesNat
  <2>3. Boundary(config.session) = config.session.heartbeat
    BY <2>1 DEF PendingGap, Boundary
  <2>4. PICK s \in {0} \cup Sessions, h \in Times, r \in Times, reason \in RuntimeReasons :
          /\ s = config.session.id /\ h = config.session.heartbeat /\ r = config.gap.recorded
          /\ reason = config.gap.reason
    BY <1>2, <2>1, <2>2 DEF PendingGap
  <2>5. config.gap = RuntimeGap(s, h, r, reason)
    BY <2>1, <2>4 DEF PendingGap
  <2>6. /\ config.gap.start = (IF h <= r THEN h ELSE r)
        /\ config.gap.end = IF h <= r THEN r ELSE h
    BY <2>5, RuntimeGapType
  <2>7. config.session.heartbeat < config.gap.recorded => h <= r
    BY <1>3, <2>2, <2>4
  <2> QED BY <2>1, <2>2, <2>3, <2>4, <2>6, <2>7
<1>6. ASSUME config.startup # NoStartup
      PROVE  /\ PendingStartup(config) /\ config.startup.gaps \in Seq(GapSet)
             /\ Last(config.startup.gaps).end \in Nat
             /\ \A i \in DOMAIN config.startup.gaps :
                  /\ config.startup.gaps[i] \in GapSet
                  /\ config.startup.gaps[i].start \in Nat /\ config.startup.gaps[i].end \in Nat
  <2>1. PendingStartup(config) /\ config.startup.gaps \in Seq(GapSet)
    BY <1>1, <1>6, DocumentHas DEF Document, StartupSet
  <2>2. \A i \in DOMAIN config.startup.gaps : config.startup.gaps[i] \in GapSet
    BY <2>1
  <2>3. config.startup.gaps # <<>>
    BY <2>1 DEF PendingStartup
  <2>4. Last(config.startup.gaps) \in GapSet
    BY <2>1, <2>3 DEF Last
  <2>5. \A g \in GapSet : g.start \in Nat /\ g.end \in Nat
    BY GapHasFields, TimesNat
  <2> QED BY <2>1, <2>2, <2>4, <2>5
<1> QED  BY <1>1, <1>3, <1>4, <1>5, <1>6

\* A document with the same session and the same records waiting.
LEMMA AheadOfSettings ==
  ASSUME NEW c, NEW d, NEW j, NEW n, NEW o, Ahead(c, j, o, n),
         d.session = c.session, d.intent = c.intent, d.gap = c.gap, d.startup = c.startup
  PROVE  Ahead(d, j, o, n)
BY DEF Ahead, Chained, Filed

LEMMA AheadResolved ==
  ASSUME SessionInv, AheadInv, corrections = 0, NEW ids, NEW d, d = Resolved(ids),
         config.gap = NoGap, config.startup = NoStartup,
         \A e \in EvidenceOf(journal) :
           Proof(e, e.recorded) \in config.intent => e.recorded <= d.session.heartbeat
  PROVE  Ahead(d, journal, op, now)
<1> DEFINE proved == {p.at : p \in {q \in config.intent : q.id \in ids}}
<1>1. Ahead(config, journal, op, now) /\ Document(config, launches) /\ journal \subseteq EventSet
  BY DEF AheadInv, SessionInv
<1>2. /\ config \in ConfigSet /\ config.session.heartbeat \in Nat
      /\ config.session.closed \in Nat
  BY <1>1, Numbers
<1>3. /\ d.session.heartbeat \in {config.session.heartbeat} \cup proved
      /\ config.session.heartbeat <= d.session.heartbeat
      /\ proved \subseteq Instants
  BY <1>2, ResolvedHeartbeat
<1>4. /\ Document(d, launches) /\ d.session.closed = config.session.closed
      /\ d.intent = {} /\ d.gap = NoGap /\ d.startup = NoStartup
  BY <1>1, ResolvedDocument DEF Alike
<1>5. d.session.heartbeat <= now /\ d.session.heartbeat \in Nat
  BY <1>1, <1>2, <1>3, TimesNat DEF Ahead
<1>6. config.session.closed # 0 => config.intent = {}
  BY <1>1 DEF Document
<1>7. /\ Boundary(config.session) \in Nat /\ Boundary(d.session) \in Nat
      /\ Boundary(config.session) <= Boundary(d.session)
      /\ config.session.closed = 0 => Boundary(d.session) = d.session.heartbeat
  BY <1>2, <1>3, <1>4, <1>5 DEF Boundary
<1>8. \A g \in GapsOf(journal) : Filed(g, d)
  BY <1>1, <1>7, EventHas DEF Ahead, Filed
<1>9. \A e \in EvidenceOf(journal) : e.recorded <= Boundary(d.session)
  <2> TAKE e \in EvidenceOf(journal)
  <2>1. e.recorded \in Nat
    BY <1>1, EventHas
  <2>2. CASE e.recorded <= Boundary(config.session)
    BY <1>7, <2>1, <2>2
  <2>3. CASE Proof(e, e.recorded) \in config.intent
    BY <1>6, <1>7, <2>3
  <2> QED BY <1>1, <2>2, <2>3 DEF Ahead
<1> QED  BY <1>1, <1>4, <1>5, <1>8, <1>9 DEF Ahead

LEMMA AheadReconciled ==
  ASSUME SessionInv, AheadInv, corrections = 0, config.gap # NoGap,
         NEW d, d = Reconciled
  PROVE  Ahead(d, journal, op, now)
<1>1. Ahead(config, journal, op, now) /\ Document(config, launches) /\ journal \subseteq EventSet
  BY DEF AheadInv, SessionInv
<1>2. /\ PendingGap(config) /\ Boundary(config.session) = config.session.heartbeat
      /\ config.session.heartbeat \in Nat /\ config.gap.recorded \in Nat
      /\ config.session.heartbeat < config.gap.recorded /\ config.gap.recorded <= now
      /\ config.gap.end = config.gap.recorded
  BY <1>1, Numbers DEF Ahead
<1>3. /\ d.intent = {} /\ d.gap = NoGap /\ d.startup = NoStartup
      /\ d.session.heartbeat = config.gap.recorded
      /\ d.session.closed = config.session.closed
  BY <1>1, ReconciledDocument DEF Alike
<1>4. config.session.closed = 0 /\ config.intent = {} /\ config.startup = NoStartup
  BY <1>2 DEF PendingGap
<1>5. Boundary(d.session) = config.gap.recorded
  BY <1>3, <1>4 DEF Boundary
<1>6. \A g \in GapsOf(journal) : Filed(g, d)
  <2> TAKE g \in GapsOf(journal)
  <2>1. g.end \in Nat
    BY <1>1, EventHas
  <2>2. g.end <= Boundary(config.session) \/ g = config.gap
    BY <1>1, <1>4 DEF Ahead, Filed
  <2> QED BY <1>2, <1>5, <2>1, <2>2 DEF Filed
<1>7. \A e \in EvidenceOf(journal) : e.recorded <= Boundary(d.session)
  <2> TAKE e \in EvidenceOf(journal)
  <2>1. e.recorded \in Nat
    BY <1>1, EventHas
  <2>2. e.recorded <= Boundary(config.session)
    BY <1>1, <1>4 DEF Ahead
  <2> QED BY <1>2, <1>5, <2>1, <2>2
<1>8. d.session.heartbeat <= now /\ d.session.closed <= now
  BY <1>1, <1>2, <1>3, <1>4 DEF Ahead
<1> QED  BY <1>1, <1>3, <1>6, <1>7, <1>8 DEF Ahead

LEMMA AheadCommitted ==
  ASSUME SessionInv, AheadInv, corrections = 0, config.startup # NoStartup,
         NEW d, d = [config EXCEPT !.session = config.startup.session, !.startup = NoStartup]
  PROVE  Ahead(d, journal, op, now)
<1> DEFINE gaps == config.startup.gaps
<1>1. Ahead(config, journal, op, now) /\ Document(config, launches) /\ journal \subseteq EventSet
  BY DEF AheadInv, SessionInv
<1>2. /\ PendingStartup(config) /\ Boundary(config.session) \in Nat
      /\ Last(gaps).end \in Nat /\ \A i \in DOMAIN gaps : gaps[i].end \in Nat
  BY <1>1, Numbers
<1>3. Chained(config, now)
  BY <1>1 DEF Ahead
<1>4. /\ d.intent = {} /\ d.gap = NoGap /\ d.startup = NoStartup
      /\ d.session = config.startup.session /\ d.session.closed = 0
      /\ Boundary(d.session) = d.session.started
  BY <1>1, CommittedDocument
<1>5. Boundary(d.session) = Last(gaps).end /\ Last(gaps).end <= now
  BY <1>3, <1>4 DEF Chained
<1>6. Boundary(config.session) <= Last(gaps).end /\ config.intent = {} /\ config.gap = NoGap
  BY <1>2 DEF PendingStartup
<1>7. \A g \in GapsOf(journal) : Filed(g, d)
  <2> TAKE g \in GapsOf(journal)
  <2>1. g.end \in Nat
    BY <1>1, EventHas
  <2>2. g.end <= Boundary(config.session) \/ \E i \in DOMAIN gaps : g = gaps[i]
    BY <1>1, <1>6 DEF Ahead, Filed
  <2>3. \A i \in DOMAIN gaps : gaps[i].end <= Last(gaps).end
    BY <1>3 DEF Chained
  <2>4. g.end <= Last(gaps).end
    <3> HIDE DEF gaps
    <3> QED BY <1>2, <1>6, <2>1, <2>2, <2>3
  <2> QED BY <1>5, <2>4 DEF Filed
<1>8. \A e \in EvidenceOf(journal) : e.recorded <= Boundary(d.session)
  <2> TAKE e \in EvidenceOf(journal)
  <2>1. e.recorded \in Nat
    BY <1>1, EventHas
  <2>2. e.recorded <= Boundary(config.session)
    BY <1>1, <1>6 DEF Ahead
  <2> QED BY <1>2, <1>5, <1>6, <2>1, <2>2
<1>9. d.session.heartbeat <= now /\ d.session.closed <= now
  <2>1. Boundary(d.session) = d.session.heartbeat
    BY <1>4 DEF Boundary
  <2>2. now \in Nat
    BY TimesNat DEF SessionInv, Counted
  <2> QED BY <1>4, <1>5, <2>1, <2>2
<1> QED  BY <1>1, <1>4, <1>7, <1>8, <1>9, <1>6 DEF Ahead

LEMMA AheadPrepared ==
  ASSUME SessionInv, AheadInv, corrections = 0, op.call = "startup", op.step = "prepare",
         op # NoOp, NEW d, d = PreparedStartup
  PROVE  Ahead(d, journal, op, now)
<1> DEFINE gaps == config.startup.gaps
           base == Boundary(config.session)
           from == IF config.startup = NoStartup THEN base ELSE Last(gaps).end
<1>1. Ahead(config, journal, op, now) /\ Document(config, launches) /\ journal \subseteq EventSet
  BY DEF AheadInv, SessionInv
<1>2. /\ op.arg = launches /\ launches \in Sessions /\ op.at = now /\ now \in Instants
      /\ config.gap = NoGap /\ config.intent = {}
  BY InCall DEF StepOf, CallOf, SessionInv, Counted
<1>3. /\ base \in Nat /\ config.session.heartbeat \in Nat /\ config.session.closed \in Nat
      /\ now \in Nat /\ now \in Times
      /\ base <= now
  BY <1>1, <1>2, Numbers, TimesNat DEF Ahead, Boundary
<1>4. /\ d.intent = {} /\ d.gap = NoGap
      /\ \/ d = config
         \/ /\ d.session = NewSession(launches, now)
            /\ config.startup = NoStartup /\ d.startup = NoStartup
         \/ /\ d.session = config.session /\ d.startup # NoStartup
            /\ d.startup.session = NewSession(launches, now)
            /\ IF from = now
               THEN d.startup.gaps = gaps /\ config.startup # NoStartup
               ELSE d.startup.gaps = gaps \o <<RestartGap(from, now)>>
  <2>1. op.at \in Instants
    BY <1>2
  <2> QED BY <1>1, <1>2, <2>1, StartupDocument
<1>5. CASE d = config
  BY <1>1, <1>5
<1>6. CASE /\ d.session = NewSession(launches, now)
           /\ config.startup = NoStartup /\ d.startup = NoStartup
  <2>1. d.session.heartbeat = now /\ d.session.closed = 0 /\ Boundary(d.session) = now
    BY <1>6 DEF NewSession, Boundary
  <2>2. \A g \in GapsOf(journal) : Filed(g, d)
    <3> TAKE g \in GapsOf(journal)
    <3>1. g.end \in Nat /\ g.end <= base
      BY <1>1, <1>2, <1>6, EventHas DEF Ahead, Filed
    <3>2. g.end <= now
      BY <1>3, <3>1
    <3> QED BY <2>1, <3>2 DEF Filed
  <2>3. \A e \in EvidenceOf(journal) : e.recorded <= Boundary(d.session)
    <3> TAKE e \in EvidenceOf(journal)
    <3>1. e.recorded \in Nat /\ e.recorded <= base
      BY <1>1, <1>2, EventHas DEF Ahead
    <3> QED BY <1>3, <2>1, <3>1
  <2>4. d.session.heartbeat <= now /\ d.session.closed <= now
    BY <1>3, <2>1
  <2> QED BY <1>1, <1>4, <1>6, <2>2, <2>3, <2>4 DEF Ahead
<1>7. CASE /\ d.session = config.session /\ d.startup # NoStartup
           /\ d.startup.session = NewSession(launches, now)
           /\ IF from = now
              THEN d.startup.gaps = gaps /\ config.startup # NoStartup
              ELSE d.startup.gaps = gaps \o <<RestartGap(from, now)>>
  <2> DEFINE new == d.startup.gaps
  <2>1. d.startup.session.started = now
    BY <1>7 DEF NewSession
  <2>2. gaps \in Seq(GapSet)
    <3>1. NoStartup.gaps = <<>> /\ <<>> \in Seq(GapSet)
      BY DEF NoStartup
    <3> QED BY <1>1, <3>1, Numbers
  <2>3. /\ from \in Nat /\ from \in Times /\ base <= from /\ from <= now
        /\ \A i \in DOMAIN gaps :
             /\ gaps[i].start >= base /\ gaps[i].end <= from
             /\ gaps[i].start \in Nat /\ gaps[i].end \in Nat
        /\ \A i, k \in DOMAIN gaps : i < k => gaps[i].end <= gaps[k].start
    <3>1. CASE config.startup = NoStartup
      <4>1. gaps = <<>>
        BY <3>1 DEF NoStartup
      <4>2. base \in Times
        BY <1>1, DocumentHas DEF Document
      <4> QED BY <1>3, <3>1, <4>1, <4>2
    <3>2. CASE config.startup # NoStartup
      <4>1. PendingStartup(config) /\ Chained(config, now)
            /\ Last(gaps).end \in Nat
            /\ \A i \in DOMAIN gaps : gaps[i].start \in Nat /\ gaps[i].end \in Nat
        BY <1>1, <3>2, Numbers DEF Ahead
      <4>2. base <= Last(gaps).end /\ gaps # <<>>
        BY <4>1 DEF PendingStartup
      <4>3. Last(gaps) \in GapSet
        BY <2>2, <4>2 DEF Last
      <4>4. Last(gaps).end \in Times
        BY <4>3, GapHasFields
      <4> QED BY <3>2, <4>1, <4>2, <4>4 DEF Chained
    <3> QED BY <3>1, <3>2
  <2>4. CASE from = now
    <3>1. new = gaps /\ config.startup # NoStartup /\ from = Last(gaps).end
      BY <1>7, <2>4
    <3>2. Chained(d, now)
      BY <1>3, <1>7, <2>1, <2>3, <2>4, <3>1 DEF Chained
    <3>3. \A g \in GapsOf(journal) : Filed(g, d)
      BY <1>1, <1>2, <1>7, <3>1 DEF Ahead, Filed
    <3> QED BY <1>1, <1>2, <1>4, <1>7, <3>2, <3>3 DEF Ahead
  <2>5. CASE from # now
    <3>1. PICK g : g = RestartGap(from, now)
      OBVIOUS
    <3>2. g \in GapSet /\ g.start = from /\ g.end = now
      BY <1>3, <2>3, <2>5, <3>1, RestartGapType
    <3>3. new = gaps \o <<g>>
      BY <1>7, <2>5, <3>1
    <3>4. Len(gaps) \in Nat /\ DOMAIN gaps = 1 .. Len(gaps)
      BY <2>2
    <3>5. /\ DOMAIN new = 1 .. Len(gaps) + 1 /\ Len(new) = Len(gaps) + 1
          /\ new[Len(gaps) + 1] = g /\ \A i \in DOMAIN gaps : new[i] = gaps[i]
      BY <2>2, <3>2, <3>3
    <3>6. Last(new) = g
      BY <3>5 DEF Last
    <3> HIDE DEF new, gaps, from, base
    <3>7. \A i \in DOMAIN new : i \in DOMAIN gaps \/ i = Len(gaps) + 1
      BY <3>4, <3>5
    <3>8. \A i \in DOMAIN new : new[i].start >= base /\ new[i].end <= now
      <4> TAKE i \in DOMAIN new
      <4>1. CASE i \in DOMAIN gaps
        BY <1>3, <2>3, <3>5, <4>1
      <4>2. CASE i = Len(gaps) + 1
        BY <1>3, <2>3, <3>2, <3>5, <4>2
      <4> QED BY <3>7, <4>1, <4>2
    <3>9. \A i, k \in DOMAIN new : i < k => new[i].end <= new[k].start
      <4> TAKE i, k \in DOMAIN new
      <4> HAVE i < k
      <4>1. i \in DOMAIN gaps
        BY <3>4, <3>5
      <4>2. CASE k \in DOMAIN gaps
        BY <2>3, <3>5, <4>1, <4>2
      <4>3. CASE k = Len(gaps) + 1
        BY <2>3, <3>2, <3>5, <4>1, <4>3
      <4> QED BY <3>7, <4>2, <4>3
    <3>10. Chained(d, now)
      <4>1. Last(new).end = now /\ Last(new).end <= now
        BY <1>3, <3>2, <3>6
      <4>2. d.startup.session.started = Last(new).end
        BY <2>1, <4>1
      <4>3. base = Boundary(d.session)
        BY <1>7 DEF base
      <4> QED BY <3>8, <3>9, <4>1, <4>2, <4>3 DEF Chained, new
    <3>11. \A h \in GapsOf(journal) : Filed(h, d)
      <4> TAKE h \in GapsOf(journal)
      <4>1. h.end <= base \/ \E i \in DOMAIN gaps : h = gaps[i]
        BY <1>1, <1>2 DEF Ahead, Filed, base, gaps
      <4>2. CASE h.end <= base
        BY <1>7, <4>2 DEF Filed, base
      <4>3. ASSUME NEW i \in DOMAIN gaps, h = gaps[i] PROVE Filed(h, d)
        <5>1. i \in DOMAIN new /\ h = new[i]
          BY <3>4, <3>5, <4>3
        <5> QED BY <1>7, <5>1 DEF Filed, new
      <4> QED BY <4>1, <4>2, <4>3
    <3> QED BY <1>1, <1>2, <1>4, <1>7, <3>10, <3>11 DEF Ahead
  <2> QED BY <2>4, <2>5
<1> QED  BY <1>4, <1>5, <1>6, <1>7

LEMMA AheadAwaiting ==
  ASSUME SessionInv, AheadInv, corrections = 0, op.call = "gap", op.step = "prepare",
         op # NoOp, op.at # config.session.heartbeat,
         NEW d, d = Awaiting(op.at, op.arg)
  PROVE  Ahead(d, journal, op, now)
<1>1. Ahead(config, journal, op, now) /\ Document(config, launches) /\ journal \subseteq EventSet
  BY DEF AheadInv, SessionInv
<1>2. /\ op.at = now /\ now \in Instants /\ op.arg \in RuntimeReasons
      /\ config.gap = NoGap /\ config.intent = {} /\ Ready(config, launches)
  BY InCall DEF StepOf, CallOf, SessionInv, Counted
<1>3. config.session.heartbeat \in Nat /\ now \in Nat /\ config.session.heartbeat < now
  BY <1>1, <1>2, Numbers, TimesNat DEF Ahead
<1>4. PICK at \in Instants, reason \in RuntimeReasons : at = op.at /\ reason = op.arg
  BY <1>2
<1>5. /\ d.session = config.session /\ d.gap # NoGap /\ d.gap.recorded = at
      /\ d.intent = {} /\ d.startup = NoStartup
  <2>1. d = Awaiting(at, reason) /\ at > config.session.heartbeat
    BY <1>2, <1>3, <1>4
  <2> QED BY <1>1, <1>2, <2>1, GapDocument
<1>6. \A g \in GapsOf(journal) : Filed(g, d)
  BY <1>1, <1>2, <1>5 DEF Ahead, Filed, Ready
<1> QED  BY <1>1, <1>2, <1>3, <1>4, <1>5, <1>6 DEF Ahead

LEMMA AheadAnnounced ==
  ASSUME SessionInv, AheadInv, corrections = 0, op.call \in {"ingest", "retain"},
         op.step = "prepare", op # NoOp, NEW d, d = [config EXCEPT !.intent = AnnouncedBy(op)]
  PROVE  Ahead(d, journal, op, now)
<1>1. Ahead(config, journal, op, now) /\ Document(config, launches) /\ journal \subseteq EventSet
  BY DEF AheadInv, SessionInv
<1>2. /\ op.at = now /\ now \in Instants /\ op.arg \in AttemptSet /\ op.arg.recorded = now
      /\ config.gap = NoGap /\ config.intent = {} /\ Ready(config, launches)
  BY InCall DEF StepOf, CallOf, SessionInv, Counted
<1>3. PICK i : i = AnnouncedBy(op)
  OBVIOUS
<1>4. \A p \in i : p.at = now
  BY <1>2, <1>3, AnnouncedProofs
<1>5. /\ d.session = config.session /\ d.intent = i /\ d.gap = config.gap
      /\ d.startup = config.startup
  <2>1. config \in ConfigSet
    BY <1>1 DEF Document
  <2> QED BY <1>3, <2>1 DEF ConfigSet
<1>6. \A g \in GapsOf(journal) : Filed(g, d)
  BY <1>1, <1>5 DEF Ahead, Filed
<1>7. \A p \in d.intent : p.at <= now
  <2>1. now \in Nat
    BY <1>2, TimesNat
  <2> QED BY <1>4, <1>5, <2>1
<1> QED  BY <1>1, <1>2, <1>5, <1>6, <1>7 DEF Ahead, Ready

LEMMA AheadEnded ==
  ASSUME SessionInv, AheadInv, corrections = 0, op.call = "terminate",
         op.step = "prepare", op # NoOp, NEW d, d = Ended(op.at)
  PROVE  Ahead(d, journal, op, now)
<1>1. Ahead(config, journal, op, now) /\ Document(config, launches) /\ journal \subseteq EventSet
  BY DEF AheadInv, SessionInv
<1>2. /\ op.at = now /\ now \in Instants
      /\ config.gap = NoGap /\ config.intent = {} /\ Ready(config, launches)
  BY InCall DEF StepOf, CallOf, SessionInv, Counted
<1>3. /\ config.session.heartbeat \in Nat /\ now \in Nat
      /\ config.session.heartbeat <= now /\ Boundary(config.session) = config.session.heartbeat
  BY <1>1, <1>2, Numbers, TimesNat DEF Ahead, Boundary, Ready
<1>4. PICK at \in Instants : at = op.at
  BY <1>2
<1>5. /\ d.session = [config.session EXCEPT !.closed = d.session.closed]
      /\ d.session.closed = now /\ d.session.closed # 0
      /\ d.intent = {} /\ d.gap = NoGap /\ d.startup = NoStartup
  BY <1>1, <1>2, <1>3, <1>4, ClosedDocument
<1>6. d.session.heartbeat = config.session.heartbeat /\ Boundary(d.session) = now
  <2> PICK c : c = d.session.closed
    OBVIOUS
  <2>1. d.session = [config.session EXCEPT !.closed = c]
    BY <1>5
  <2>2. config.session \in SessionSet
    BY <1>1, DocumentHas DEF Document
  <2> QED BY <1>5, <2>1, <2>2 DEF SessionSet, Boundary
<1>7. \A g \in GapsOf(journal) : Filed(g, d)
  <2> TAKE g \in GapsOf(journal)
  <2>1. g.end \in Nat /\ g.end <= Boundary(config.session)
    BY <1>1, <1>2, EventHas DEF Ahead, Filed, Ready
  <2>2. g.end <= now
    BY <1>3, <2>1
  <2> QED BY <1>6, <2>2 DEF Filed
<1>8. \A e \in EvidenceOf(journal) : e.recorded <= Boundary(d.session)
  <2> TAKE e \in EvidenceOf(journal)
  <2>1. e.recorded \in Nat /\ e.recorded <= Boundary(config.session)
    BY <1>1, <1>2, EventHas DEF Ahead
  <2> QED BY <1>3, <1>6, <2>1
<1>9. d.session.heartbeat <= now /\ d.session.closed <= now
  BY <1>3, <1>5, <1>6
<1> QED  BY <1>1, <1>5, <1>7, <1>8, <1>9 DEF Ahead

\* What has to hold of a gap for it to be recorded, and of evidence.
LEMMA AheadWithGap ==
  ASSUME SessionInv, AheadInv, corrections = 0, NEW g \in GapSet, Filed(g, config),
         \A h \in GapsOf(journal) : Apart(g, h),
         \A e \in EvidenceOf(journal) : Outside(e, g),
         op.call \in {"ingest", "retain"} => g.end <= op.arg.observed
  PROVE  Ahead(config, journal \cup {g}, op, now)
<1> DEFINE j == journal \cup {g}
<1>1. Ahead(config, journal, op, now)
  BY DEF AheadInv
<1>2. g.kind = "gap" /\ g \notin AttemptSet
  BY Kinds
<1>3. GapsOf(j) = GapsOf(journal) \cup {g} /\ EvidenceOf(j) = EvidenceOf(journal)
  BY <1>2, WithGapRecord
<1>4. j \cap AttemptSet = journal \cap AttemptSet
  BY <1>2
<1> HIDE DEF j
<1>5. Honestly(j)
  <2>1. \A x, y \in GapsOf(journal) \cup {g} : Apart(x, y)
    BY <1>1 DEF Ahead, Honestly, Apart
  <2>2. \A x \in GapsOf(journal) \cup {g}, e \in EvidenceOf(journal) : Outside(e, x)
    BY <1>1 DEF Ahead, Honestly
  <2> QED BY <1>3, <2>1, <2>2 DEF Honestly
<1>6. \A x \in GapsOf(j) : Filed(x, config)
  BY <1>1, <1>3 DEF Ahead
<1>7. op.call \in {"ingest", "retain"} => \A x \in GapsOf(j) : x.end <= op.arg.observed
  BY <1>1, <1>3 DEF Ahead
<1>8. Ahead(config, j, op, now)
  BY <1>1, <1>3, <1>4, <1>5, <1>6, <1>7 DEF Ahead
<1> QED  BY <1>8 DEF j

LEMMA AheadWithEvidence ==
  ASSUME SessionInv, AheadInv, corrections = 0, NEW e \in AttemptSet \cup CompletionSet,
         Proof(e, e.recorded) \in config.intent,
         e \in AttemptSet => e.observed <= e.recorded,
         \A g \in GapsOf(journal) : Outside(e, g)
  PROVE  Ahead(config, journal \cup {e}, op, now)
<1> DEFINE j == journal \cup {e}
<1>1. Ahead(config, journal, op, now)
  BY DEF AheadInv
<1>2. e.kind # "gap"
  BY Kinds
<1>3. GapsOf(j) = GapsOf(journal) /\ EvidenceOf(j) = EvidenceOf(journal) \cup {e}
  BY <1>2, WithEvidence
<1>4. \A x \in j \cap AttemptSet : x.observed <= x.recorded
  BY <1>1 DEF Ahead
<1> HIDE DEF j
<1>5. Honestly(j)
  BY <1>1, <1>3 DEF Ahead, Honestly
<1>6. \A x \in EvidenceOf(j) :
        x.recorded <= Boundary(config.session) \/ Proof(x, x.recorded) \in config.intent
  BY <1>1, <1>3 DEF Ahead
<1>7. Ahead(config, j, op, now)
  BY <1>1, <1>3, <1>4, <1>5, <1>6 DEF Ahead
<1> QED  BY <1>7 DEF j

\* Evidence behind the start of a gap is outside it.
LEMMA Behind ==
  ASSUME NEW j \in SUBSET EventSet, NEW e \in EvidenceOf(j), NEW b \in Nat, NEW g \in GapSet,
         e.recorded <= b, b <= g.start, e \in AttemptSet => e.observed <= e.recorded
  PROVE  Outside(e, g)
<1>1. /\ e.recorded \in Nat
      /\ e.kind # "completion" => e \in AttemptSet /\ e.observed \in Nat
  BY EventHas
<1>2. g.start \in Nat
  BY GapHasFields, TimesNat
<1> QED  BY <1>1, <1>2 DEF Outside

LEMMA AheadRecordGap ==
  ASSUME SessionInv, AheadInv, corrections = 0, config.gap # NoGap
  PROVE  Ahead(config, journal \cup {config.gap}, op, now)
<1>1. Ahead(config, journal, op, now) /\ Document(config, launches) /\ journal \subseteq EventSet
  BY DEF AheadInv, SessionInv
<1>2. /\ PendingGap(config) /\ config.gap \in GapSet
      /\ Boundary(config.session) = config.session.heartbeat
      /\ config.session.heartbeat \in Nat
      /\ config.gap.start = config.session.heartbeat
  BY <1>1, Numbers DEF Ahead
<1>3. config.intent = {} /\ config.startup = NoStartup
  BY <1>2 DEF PendingGap
<1>4. PICK g \in GapSet : g = config.gap
  BY <1>2
<1>5. \A h \in GapsOf(journal) : Apart(g, h)
  BY <1>1, <1>2, <1>3, <1>4 DEF Ahead, Filed, Apart
<1>6. \A e \in EvidenceOf(journal) : Outside(e, g)
  <2> TAKE e \in EvidenceOf(journal)
  <2>1. e.recorded <= config.session.heartbeat /\ (e \in AttemptSet => e.observed <= e.recorded)
    BY <1>1, <1>2, <1>3 DEF Ahead, EvidenceOf
  <2>2. PICK b \in Nat : b = config.session.heartbeat
    BY <1>2
  <2>3. b <= g.start
    BY <1>2, <1>4, <2>2
  <2> QED BY <1>1, <2>1, <2>2, <2>3, Behind
<1>7. Filed(g, config)
  BY <1>1, <1>4, GapHasFields DEF Filed
<1>8. op.call \in {"ingest", "retain"} => g.end <= op.arg.observed
  BY <1>1, <1>2, <1>4, GapHasFields DEF Ahead
<1> QED  BY <1>4, <1>5, <1>6, <1>7, <1>8, AheadWithGap

LEMMA AheadRecordStartup ==
  ASSUME SessionInv, AheadInv, corrections = 0, config.startup # NoStartup,
         op.call = "startup", NEW i \in DOMAIN config.startup.gaps
  PROVE  Ahead(config, journal \cup {config.startup.gaps[i]}, op, now)
<1>1. Ahead(config, journal, op, now) /\ Document(config, launches) /\ journal \subseteq EventSet
  BY DEF AheadInv, SessionInv
<1>2. PICK gaps : gaps = config.startup.gaps
  OBVIOUS
<1>3. PICK g : g = gaps[i]
  OBVIOUS
<1>4. /\ PendingStartup(config) /\ gaps \in Seq(GapSet) /\ g \in GapSet
      /\ Boundary(config.session) \in Nat /\ i \in Nat
  <2>1. i \in DOMAIN gaps /\ gaps \in Seq(GapSet)
    BY <1>1, <1>2, Numbers
  <2>2. i \in Nat
    BY <2>1
  <2> QED BY <1>1, <1>2, <1>3, <2>2, Numbers
<1>5. config.intent = {} /\ config.gap = NoGap
  BY <1>4 DEF PendingStartup
<1>6. /\ Boundary(config.session) <= g.start
      /\ \A k \in DOMAIN gaps : /\ k < i => gaps[k].end <= g.start
                                /\ i < k => g.end <= gaps[k].start
  <2>1. Chained(config, now)
    BY <1>1 DEF Ahead
  <2>2. \A k \in DOMAIN gaps : gaps[k].start >= Boundary(config.session)
    BY <1>2, <2>1 DEF Chained
  <2>3. \A k, m \in DOMAIN gaps : k < m => gaps[k].end <= gaps[m].start
    BY <1>2, <2>1 DEF Chained
  <2>4. i \in DOMAIN gaps /\ g.start \in Nat
    BY <1>2, <1>4, GapHasFields, TimesNat
  <2>5. Boundary(config.session) <= g.start
    BY <1>3, <1>4, <2>2, <2>4
  <2> QED BY <1>3, <2>3, <2>4, <2>5
<1>7. \A h \in GapsOf(journal) : Apart(g, h)
  <2> TAKE h \in GapsOf(journal)
  <2>1. h.end \in Nat /\ g.start \in Nat
    BY <1>1, <1>4, EventHas, GapHasFields, TimesNat
  <2>2. h.end <= Boundary(config.session) \/ \E k \in DOMAIN gaps : h = gaps[k]
    BY <1>1, <1>2, <1>5 DEF Ahead, Filed
  <2>3. CASE h.end <= Boundary(config.session)
    BY <1>4, <1>6, <2>1, <2>3 DEF Apart
  <2>4. ASSUME NEW k \in DOMAIN gaps, h = gaps[k] PROVE Apart(g, h)
    <3>1. k < i \/ k = i \/ i < k
      <4>1. DOMAIN gaps = 1 .. Len(gaps)
        BY <1>4
      <4> QED BY <1>4, <2>4, <4>1
    <3> QED BY <1>3, <1>6, <2>4, <3>1 DEF Apart
  <2> QED BY <2>2, <2>3, <2>4
<1>8. \A e \in EvidenceOf(journal) : Outside(e, g)
  <2> TAKE e \in EvidenceOf(journal)
  <2>1. e.recorded <= Boundary(config.session) /\ (e \in AttemptSet => e.observed <= e.recorded)
    BY <1>1, <1>5 DEF Ahead, EvidenceOf
  <2>2. PICK b \in Nat : b = Boundary(config.session)
    BY <1>4
  <2>3. b <= g.start
    BY <1>6, <2>2
  <2> QED BY <1>1, <1>4, <2>1, <2>2, <2>3, Behind
<1>9. Filed(g, config)
  BY <1>2, <1>3 DEF Filed
<1>10. op.call \in {"ingest", "retain"} => g.end <= op.arg.observed
  OBVIOUS
<1>11. Ahead(config, journal \cup {g}, op, now)
  BY <1>4, <1>7, <1>8, <1>9, <1>10, AheadWithGap
<1> QED  BY <1>2, <1>3, <1>11

LEMMA AheadRecordAttempt ==
  ASSUME SessionInv, AheadInv, corrections = 0, op # NoOp, op.call \in {"ingest", "retain"},
         config.intent = AnnouncedBy(op),
         NEW e, e = op.arg \/ (op.call = "retain" /\ e = Completion(op.at))
  PROVE  Ahead(config, journal \cup {e}, op, now)
<1>1. Ahead(config, journal, op, now) /\ journal \subseteq EventSet
  BY DEF AheadInv, SessionInv
<1>2. /\ op.arg \in AttemptSet /\ op.arg.recorded = now /\ op.at = now /\ now \in Instants
      /\ now \in Nat
  BY InCall, TimesNat DEF CallOf, SessionInv, Counted
<1>3. op.arg.observed <= now /\ op.arg.observed \in Nat
      /\ \A g \in GapsOf(journal) : g.end <= op.arg.observed
  BY <1>1, <1>2, TimesNat DEF Ahead, AttemptSet
<1>4. CASE e = op.arg
  <2>1. Proof(e, e.recorded) \in config.intent
    BY <1>4 DEF AnnouncedBy
  <2>2. e \in AttemptSet /\ e.observed <= e.recorded
    BY <1>2, <1>3, <1>4
  <2>3. \A g \in GapsOf(journal) : Outside(e, g)
    <3> TAKE g \in GapsOf(journal)
    <3>1. g.end \in Nat /\ g.end <= e.observed /\ e.observed <= e.recorded
          /\ e.observed \in Nat /\ e.recorded \in Nat
      BY <1>1, <1>2, <1>3, <1>4, EventHas
    <3> QED BY <3>1 DEF Outside
  <2> QED BY <2>1, <2>2, <2>3, AheadWithEvidence
<1>5. CASE op.call = "retain" /\ e = Completion(op.at)
  <2>1. e.recorded = now /\ e.kind = "completion" /\ e \in CompletionSet
    BY <1>2, <1>5 DEF Completion, CompletionSet
  <2>2. Proof(e, e.recorded) \in config.intent
    BY <1>2, <1>5, <2>1 DEF AnnouncedBy
  <2>3. \A g \in GapsOf(journal) : Outside(e, g)
    <3> TAKE g \in GapsOf(journal)
    <3>1. g.end \in Nat /\ g.end <= now
      BY <1>1, <1>2, <1>3, EventHas
    <3> QED BY <2>1, <3>1 DEF Outside
  <2>4. e \notin AttemptSet
    BY <2>1, Kinds
  <2> QED BY <2>1, <2>2, <2>3, <2>4, AheadWithEvidence
<1> QED  BY <1>4, <1>5

\* What the outcomes of a step leave.
LEMMA AheadOfStep ==
  ASSUME SessionInv, op # NoOp, NEW c, NEW j, Ahead(c, j, op, now), NEW s,
         op' = NoOp \/ op' = [op EXCEPT !.step = s]
  PROVE  Ahead(c, j, op', now)
<1>1. CASE op' = NoOp
  <2>1. op'.call = "none"
    BY <1>1 DEF NoOp
  <2>2. Ahead(c, j, op', now)
    <3> PICK m : m = op'
      OBVIOUS
    <3>1. m.call \notin {"ingest", "retain"}
      BY <2>1
    <3>2. Ahead(c, j, m, now)
      BY <3>1, AheadOfCall
    <3> QED BY <3>2
  <2> QED BY <2>2
<1>2. CASE op' = [op EXCEPT !.step = s]
  <2>1. op'.call = op.call /\ op'.arg = op.arg
    BY <1>2, InCall, Going
  <2> PICK m : m = op'
    OBVIOUS
  <2>2. Ahead(c, j, m, now)
    BY <2>1, AheadOfCall
  <2> QED BY <2>2
<1> QED  BY <1>1, <1>2

LEMMA AheadUpdate ==
  ASSUME SessionInv, AheadInv, op # NoOp, NEW d, NEW s, Update(d, s),
         corrections = 0 => Ahead(d, journal, op, now)
  PROVE  AheadInv'
<1>1. /\ now' = now /\ corrections' = corrections /\ journal' = journal
      /\ config' \in {config, d}
      /\ op' = NoOp \/ op' = [op EXCEPT !.step = s]
  BY DEF Update, Then, Done, Go, Aborted, Refused, clock
<1>2. ASSUME corrections = 0 PROVE Ahead(config', journal, op', now)
  <2>1. PICK c : c = config' /\ c \in {config, d}
    BY <1>1
  <2>2. Ahead(c, journal, op, now)
    BY <1>2, <2>1 DEF AheadInv
  <2>3. Ahead(c, journal, op', now)
    BY <1>1, <2>2, AheadOfStep
  <2> QED BY <2>1, <2>3
<1> QED  BY <1>1, <1>2 DEF AheadInv

LEMMA AheadIngest ==
  ASSUME SessionInv, AheadInv, op # NoOp, NEW e, NEW s, s # "done", Ingest(e, s),
         corrections = 0 => Ahead(config, journal \cup {e}, op, now)
  PROVE  AheadInv'
<1>1. /\ now' = now /\ corrections' = corrections /\ config' = config
      /\ journal' \in {journal, journal \cup {e}}
      /\ op' = NoOp \/ op' = [op EXCEPT !.step = s]
  BY DEF Ingest, Then, Go, Aborted, Refused, clock
<1>2. ASSUME corrections = 0 PROVE Ahead(config, journal', op', now)
  <2>1. PICK j : j = journal' /\ j \in {journal, journal \cup {e}}
    BY <1>1
  <2>2. Ahead(config, j, op, now)
    BY <1>2, <2>1 DEF AheadInv
  <2>3. Ahead(config, j, op', now)
    BY <1>1, <2>2, AheadOfStep
  <2> QED BY <2>1, <2>3
<1> QED  BY <1>1, <1>2 DEF AheadInv

\* The next step, or the end of the call, with the documents as they are.
LEMMA AheadGoing ==
  ASSUME SessionInv, AheadInv, op # NoOp, NEW s,
         now' = now, corrections' = corrections, config' = config, journal' = journal,
         op' = NoOp \/ op' = [op EXCEPT !.step = s]
  PROVE  AheadInv'
<1>1. corrections = 0 => Ahead(config, journal, op', now)
  BY AheadOfStep DEF AheadInv
<1> QED  BY <1>1 DEF AheadInv

LEMMA AheadRefused == SessionInv /\ AheadInv /\ op # NoOp /\ Refuse => AheadInv'
BY AheadGoing DEF Refuse, Refused, clock

\* Resolving moves the heartbeat to every proof that is found, or past it.
LEMMA ResolvedCovers ==
  ASSUME config \in ConfigSet, NEW ids, NEW p \in config.intent, p.id \in ids,
         NEW d, d = Resolved(ids)
  PROVE  d.session.heartbeat >= p.at
<1> DEFINE proved == {q.at : q \in {r \in config.intent : r.id \in ids}}
<1>1. p.at \in {config.session.heartbeat} \cup proved
  OBVIOUS
<1>2. \A t \in {config.session.heartbeat} \cup proved : Resolved(ids).session.heartbeat >= t
  BY ResolvedHeartbeat, Zenon
<1> HIDE DEF proved
<1> QED  BY <1>1, <1>2

LEMMA ReconcileIntentAhead == SessionInv /\ AheadInv /\ ReconcileIntent => AheadInv'
<1> SUFFICES ASSUME SessionInv, AheadInv, ReconcileIntent PROVE AheadInv'
  OBVIOUS
<1>1. op # NoOp /\ op.step = "intent"
  BY NotIdle DEF ReconcileIntent, At
<1>2. config.gap = NoGap /\ config.startup = NoStartup /\ config \in ConfigSet
  BY <1>1, InCall DEF StepOf, SessionInv, Document
<1>3. PICK ids : ids = {p.id : p \in {q \in config.intent : Canonical(q.id)}}
  OBVIOUS
<1>4. PICK d : d = Resolved(ids)
  OBVIOUS
<1>5. Update(d, "prepare")
  BY <1>2, <1>3, <1>4 DEF ReconcileIntent
<1>6. ASSUME NEW e \in EvidenceOf(journal), Proof(e, e.recorded) \in config.intent
      PROVE  e.recorded <= d.session.heartbeat
  <2>1. PICK p \in config.intent : p = Proof(e, e.recorded)
    BY <1>6
  <2>2. p.id = ID(e) /\ p.at = e.recorded
    BY <2>1 DEF Proof
  <2>3. Canonical(p.id)
    BY <2>2 DEF Canonical, EvidenceOf
  <2>4. p.id \in ids
    BY <1>3, <2>3
  <2>6. d.session.heartbeat >= p.at
    BY <1>2, <1>4, <2>4, ResolvedCovers
  <2>7. p.at \in Nat /\ d.session.heartbeat \in Nat
    <3>1. p.at \in Instants
      BY <1>2, ProofHas, DocumentHas
    <3>2. d.session.heartbeat \in Times
      BY <1>2, <1>4, ResolvedDocument, DocumentHas DEF Alike, SessionInv
    <3> QED BY <3>1, <3>2, TimesNat
  <2> QED BY <2>2, <2>6, <2>7
<1>7. corrections = 0 => Ahead(d, journal, op, now)
  BY <1>2, <1>4, <1>6, AheadResolved
<1> QED  BY <1>1, <1>5, <1>7, AheadUpdate

LEMMA AcknowledgeAhead == SessionInv /\ AheadInv /\ Acknowledge => AheadInv'
<1> SUFFICES ASSUME SessionInv, AheadInv, Acknowledge PROVE AheadInv'
  OBVIOUS
<1>1. op # NoOp /\ op.step = "commit" /\ op.call \in {"ingest", "retain"}
  BY NotIdle DEF Acknowledge, At
<1>2. /\ config.gap = NoGap /\ config.startup = NoStartup /\ config.intent = AnnouncedBy(op)
      /\ op.arg \in AttemptSet /\ op.arg.recorded = now /\ op.at = now /\ now \in Instants
      /\ config \in ConfigSet
  BY <1>1, InCall DEF StepOf, CallOf, Ready, SessionInv, Document, Counted
<1>3. PICK x : x = IF op.call = "retain" THEN Completion(op.at) ELSE op.arg
  OBVIOUS
<1>4. PICK d : d = Resolved({ID(x)})
  OBVIOUS
<1>5. Update(d, "done")
  BY <1>3, <1>4 DEF Acknowledge
<1>6. PICK p \in config.intent : p.id = ID(x) /\ p.at = now
  <2>1. Proof(x, now) \in config.intent
    BY <1>2, <1>3 DEF AnnouncedBy
  <2> QED BY <2>1 DEF Proof
<1>7. d.session.heartbeat >= now /\ d.session.heartbeat \in Nat /\ now \in Nat
  <2>2. d.session.heartbeat >= p.at
    <3> PICK ids : ids = {ID(x)}
      OBVIOUS
    <3>1. p.id \in ids /\ d = Resolved(ids)
      BY <1>4, <1>6
    <3> QED BY <1>2, <3>1, ResolvedCovers
  <2>3. d.session.heartbeat \in Times
    BY <1>2, <1>4, ResolvedDocument, DocumentHas DEF Alike, SessionInv
  <2> QED BY <1>2, <1>6, <2>2, <2>3, TimesNat
<1>8. ASSUME NEW e \in EvidenceOf(journal), Proof(e, e.recorded) \in config.intent
      PROVE  e.recorded <= d.session.heartbeat
  <2>1. Proof(e, e.recorded).at = e.recorded
    BY DEF Proof
  <2>2. e.recorded = now
    BY <1>2, <1>8, <2>1, AnnouncedProofs
  <2> QED BY <1>7, <2>2
<1>9. corrections = 0 => Ahead(d, journal, op, now)
  BY <1>2, <1>4, <1>8, AheadResolved
<1> QED  BY <1>1, <1>5, <1>9, AheadUpdate

LEMMA RecordGapAhead == SessionInv /\ AheadInv /\ RecordGap => AheadInv'
<1> SUFFICES ASSUME SessionInv, AheadInv, RecordGap PROVE AheadInv'
  OBVIOUS
<1>1. op # NoOp /\ config.gap # NoGap
  BY NotIdle DEF RecordGap
<1>2. PICK e : e = config.gap
  OBVIOUS
<1> PICK s : s = IF At("record") THEN "settle" ELSE "commit"
  OBVIOUS
<1>3. Ingest(e, s) /\ s # "done"
  BY <1>2 DEF RecordGap
<1>4. corrections = 0 => Ahead(config, journal \cup {e}, op, now)
  BY <1>1, <1>2, AheadRecordGap
<1> QED  BY <1>1, <1>3, <1>4, AheadIngest

LEMMA CommitGapAhead == SessionInv /\ AheadInv /\ CommitGap => AheadInv'
<1> SUFFICES ASSUME SessionInv, AheadInv, CommitGap PROVE AheadInv'
  OBVIOUS
<1>1. op # NoOp /\ config.gap # NoGap
  BY NotIdle DEF CommitGap
<1>2. PICK d, s : d = Reconciled /\ s = (IF At("settle") THEN "prepare" ELSE "done")
  OBVIOUS
<1>3. Update(d, s)
  BY <1>2 DEF CommitGap
<1>4. corrections = 0 => Ahead(d, journal, op, now)
  BY <1>1, <1>2, AheadReconciled
<1> QED  BY <1>1, <1>3, <1>4, AheadUpdate

LEMMA StartupAhead ==
  SessionInv /\ AheadInv /\ (PrepareStartup \/ RecordStartup \/ CommitStartup) => AheadInv'
<1> SUFFICES ASSUME SessionInv, AheadInv, PrepareStartup \/ RecordStartup \/ CommitStartup
             PROVE  AheadInv'
  OBVIOUS
<1>1. op # NoOp /\ op.call = "startup"
  BY NotIdle DEF PrepareStartup, RecordStartup, CommitStartup, At
<1>2. CASE PrepareStartup
  <2>1. op.step = "prepare"
    BY <1>2 DEF PrepareStartup, At
  <2>2. PICK d, s : /\ d = PreparedStartup
                    /\ s = (IF PreparedStartup.startup = NoStartup THEN "done" ELSE "append")
    OBVIOUS
  <2>3. Update(d, s)
    BY <1>2, <2>2 DEF PrepareStartup
  <2>4. corrections = 0 => Ahead(d, journal, op, now)
    BY <1>1, <2>1, <2>2, AheadPrepared
  <2> QED BY <1>1, <2>3, <2>4, AheadUpdate
<1>3. CASE RecordStartup
  <2>1. op.step = "append"
    BY <1>3 DEF RecordStartup, At
  <2>2. config.startup # NoStartup
    BY <1>1, <2>1, InCall DEF StepOf
  <2>3. CASE /\ Go("commit")
             /\ UNCHANGED <<clock, config, journal, app, launches, bounds, expired, faults>>
    BY <1>1, <2>3, AheadGoing DEF Go, clock
  <2>4. ASSUME NEW i \in DOMAIN config.startup.gaps, Ingest(config.startup.gaps[i], "append")
        PROVE  AheadInv'
    <3>1. PICK e : e = config.startup.gaps[i]
      OBVIOUS
    <3>2. corrections = 0 => Ahead(config, journal \cup {e}, op, now)
      BY <1>1, <2>2, <3>1, AheadRecordStartup
    <3>3. Ingest(e, "append")
      BY <2>4, <3>1
    <3> QED BY <1>1, <3>2, <3>3, AheadIngest
  <2> QED BY <1>3, <2>3, <2>4 DEF RecordStartup
<1>4. CASE CommitStartup
  <2>1. config.startup # NoStartup
    BY <1>1, <1>4, InCall DEF StepOf, CommitStartup, At
  <2>2. PICK d : d = [config EXCEPT !.session = config.startup.session, !.startup = NoStartup]
    OBVIOUS
  <2>3. Update(d, "done")
    BY <1>4, <2>2 DEF CommitStartup
  <2>4. corrections = 0 => Ahead(d, journal, op, now)
    BY <2>1, <2>2, AheadCommitted
  <2> QED BY <1>1, <2>3, <2>4, AheadUpdate
<1> QED  BY <1>2, <1>3, <1>4

LEMMA PrepareGapAhead == SessionInv /\ AheadInv /\ PrepareGap => AheadInv'
<1> SUFFICES ASSUME SessionInv, AheadInv, PrepareGap PROVE AheadInv'
  OBVIOUS
<1>1. op # NoOp /\ op.step = "prepare" /\ op.call = "gap"
  BY NotIdle DEF PrepareGap, At
<1>2. CASE Refuse
  BY <1>1, <1>2, AheadRefused
<1>3. CASE Update(config, "done")
  <2>1. corrections = 0 => Ahead(config, journal, op, now)
    BY DEF AheadInv
  <2>2. PICK d : d = config
    OBVIOUS
  <2>3. Update(d, "done") /\ (corrections = 0 => Ahead(d, journal, op, now))
    BY <1>3, <2>1, <2>2
  <2> QED BY <1>1, <2>3, AheadUpdate
<1>4. CASE /\ op.at # config.session.heartbeat
           /\ Update([config EXCEPT !.gap =
                RuntimeGap(config.session.id, config.session.heartbeat, op.at, op.arg)],
                "append")
  <2>1. PICK d : d = Awaiting(op.at, op.arg)
    OBVIOUS
  <2>2. Update(d, "append")
    BY <1>4, <2>1 DEF Awaiting
  <2>3. corrections = 0 => Ahead(d, journal, op, now)
    BY <1>1, <1>4, <2>1, AheadAwaiting
  <2> QED BY <1>1, <2>2, <2>3, AheadUpdate
<1> QED  BY <1>2, <1>3, <1>4 DEF PrepareGap

LEMMA AnnounceAhead == SessionInv /\ AheadInv /\ Announce => AheadInv'
<1> SUFFICES ASSUME SessionInv, AheadInv, Announce PROVE AheadInv'
  OBVIOUS
<1>1. op # NoOp /\ op.step = "prepare" /\ op.call \in {"ingest", "retain"}
  BY NotIdle DEF Announce, At
<1>2. CASE Refuse
  BY <1>1, <1>2, AheadRefused
<1>3. CASE /\ config' = [config EXCEPT !.mode = StudyChecked]
           /\ Refused /\ UNCHANGED <<clock, journal, launches, bounds, faults>>
  <2>1. op' = NoOp /\ now' = now /\ corrections' = corrections /\ journal' = journal
    BY <1>3 DEF Refused, clock
  <2>2. PICK d : d = config'
    OBVIOUS
  <2>3. /\ d.session = config.session /\ d.intent = config.intent /\ d.gap = config.gap
        /\ d.startup = config.startup
    <3>1. config \in ConfigSet
      BY DEF SessionInv, Document
    <3> QED BY <1>3, <2>2, <3>1 DEF ConfigSet
  <2>4. corrections = 0 => Ahead(config, journal, op', now)
    BY <1>1, <2>1, AheadOfStep DEF AheadInv
  <2>5. corrections = 0 => Ahead(d, journal, op', now)
    <3> PICK o : o = op'
      OBVIOUS
    <3>1. corrections = 0 => Ahead(d, journal, o, now)
      BY <2>3, <2>4, AheadOfSettings
    <3> QED BY <3>1
  <2> QED BY <2>1, <2>2, <2>5 DEF AheadInv
<1>4. CASE Update([config EXCEPT !.intent = Announced], "append")
  <2>1. PICK d : d = [config EXCEPT !.intent = AnnouncedBy(op)]
    OBVIOUS
  <2>2. Update(d, "append")
    BY <1>4, <2>1 DEF Announced, AnnouncedBy
  <2>3. corrections = 0 => Ahead(d, journal, op, now)
    BY <1>1, <2>1, AheadAnnounced
  <2> QED BY <1>1, <2>2, <2>3, AheadUpdate
<1> QED  BY <1>2, <1>3, <1>4 DEF Announce

LEMMA RecordAhead ==
  SessionInv /\ AheadInv /\ (RecordAttempt \/ RecordCompletion) => AheadInv'
<1> SUFFICES ASSUME SessionInv, AheadInv, RecordAttempt \/ RecordCompletion PROVE AheadInv'
  OBVIOUS
<1>1. op # NoOp /\ op.call \in {"ingest", "retain"} /\ op.step \in {"append", "complete"}
  BY NotIdle DEF RecordAttempt, RecordCompletion, At
<1>2. config.intent = AnnouncedBy(op)
  BY <1>1, InCall DEF StepOf
<1>3. CASE RecordAttempt
  <2>1. PICK e : e = op.arg
    OBVIOUS
  <2> PICK s : s = IF op.call = "retain" THEN "complete" ELSE "commit"
    OBVIOUS
  <2>2. Ingest(e, s) /\ s # "done"
    BY <1>3, <2>1 DEF RecordAttempt
  <2>3. corrections = 0 => Ahead(config, journal \cup {e}, op, now)
    BY <1>1, <1>2, <2>1, AheadRecordAttempt
  <2> QED BY <1>1, <2>2, <2>3, AheadIngest
<1>4. CASE RecordCompletion
  <2>1. PICK e : e = Completion(op.at)
    OBVIOUS
  <2>2. Ingest(e, "commit") /\ op.call = "retain"
    BY <1>4, <2>1 DEF RecordCompletion
  <2>3. corrections = 0 => Ahead(config, journal \cup {e}, op, now)
    BY <1>1, <1>2, <2>1, <2>2, AheadRecordAttempt
  <2> QED BY <1>1, <2>2, <2>3, AheadIngest
<1> QED  BY <1>3, <1>4

LEMMA PrepareTerminationAhead ==
  SessionInv /\ AheadInv /\ PrepareTermination => AheadInv'
<1> SUFFICES ASSUME SessionInv, AheadInv, PrepareTermination PROVE AheadInv'
  OBVIOUS
<1>1. op # NoOp /\ op.step = "prepare" /\ op.call = "terminate"
  BY NotIdle DEF PrepareTermination, At
<1>2. CASE Refuse
  BY <1>1, <1>2, AheadRefused
<1>3. CASE Update([config EXCEPT !.session.closed =
                     IF @ # 0 THEN @ ELSE Max({config.session.heartbeat, op.at})], "done")
  <2>1. PICK d : d = Ended(op.at)
    OBVIOUS
  <2>2. Update(d, "done")
    BY <1>3, <2>1 DEF Ended
  <2>3. corrections = 0 => Ahead(d, journal, op, now)
    BY <1>1, <2>1, AheadEnded
  <2> QED BY <1>1, <2>2, <2>3, AheadUpdate
<1> QED  BY <1>2, <1>3 DEF PrepareTermination

\* An attempt starts when the last one, or the last gap, has ended.
LEMMA AheadOfAttempt ==
  ASSUME SessionInv, AheadInv, corrections = 0, app = "up", NEW o, NEW observed \in Nat,
         o.call \in {"ingest", "retain"} => o.arg.observed = observed,
         observed <= now, observed = now \/ observed >= Since
  PROVE  Ahead(config, journal, o, now)
<1>1. Ahead(config, journal, op, now) /\ Document(config, launches) /\ journal \subseteq EventSet
  BY DEF AheadInv, SessionInv
<1>2. Ready(config, launches)
  BY DEF SessionInv, Launched
<1>3. /\ Boundary(config.session) = config.session.heartbeat
      /\ config.session.heartbeat \in Nat /\ now \in Nat
      /\ config.session.heartbeat <= now
  BY <1>1, <1>2, Numbers, TimesNat DEF Ahead, Boundary, Ready, SessionInv, Counted
<1>4. config.gap # NoGap =>
        /\ config.gap.recorded <= now /\ config.session.heartbeat < config.gap.recorded
        /\ config.gap.end = config.gap.recorded /\ config.gap.recorded \in Nat
  BY <1>1, Numbers DEF Ahead
<1>5. /\ config.session.heartbeat <= observed
      /\ config.gap # NoGap => config.gap.end <= observed
  BY <1>3, <1>4 DEF Since
<1>6. \A g \in GapsOf(journal) : g.end <= observed
  <2> TAKE g \in GapsOf(journal)
  <2>1. g.end \in Nat
    BY <1>1, EventHas
  <2>2. g.end <= config.session.heartbeat \/ (config.gap # NoGap /\ g = config.gap)
    BY <1>1, <1>2, <1>3 DEF Ahead, Filed, Ready
  <2> QED BY <1>3, <1>5, <2>1, <2>2
<1>7. o.call \in {"ingest", "retain"} =>
        /\ o.arg.observed <= now
        /\ \A g \in GapsOf(journal) : g.end <= o.arg.observed
        /\ config.gap # NoGap => config.gap.end <= o.arg.observed
  BY <1>5, <1>6
<1> QED  BY <1>1, <1>7 DEF Ahead

LEMMA CallsAhead == SessionInv /\ AheadInv /\ Calls => AheadInv'
<1> SUFFICES ASSUME SessionInv, AheadInv, Calls PROVE AheadInv'
  OBVIOUS
<1>1. ASSUME NEW call, NEW arg, Begin(call, arg), call \notin {"ingest", "retain"}
      PROVE  AheadInv'
  <2>1. /\ now' = now /\ corrections' = corrections /\ config' = config /\ journal' = journal
        /\ op'.call = call
    BY <1>1 DEF Begin, clock
  <2> PICK o : o = op'
    OBVIOUS
  <2>2. corrections = 0 => Ahead(config, journal, o, now)
    BY <1>1, <2>1, AheadOfCall DEF AheadInv
  <2> QED BY <2>1, <2>2 DEF AheadInv
<1>2. ASSUME NEW call \in {"ingest", "retain"}, Record(call) PROVE AheadInv'
  <2>1. PICK kind \in {"captured", "user-paused"}, observed \in {now - 1, now} :
          /\ observed = now \/ (observed > 0 /\ observed >= Since)
          /\ Begin(call, Attempt(kind, observed, now))
    BY <1>2 DEF Record
  <2>2. /\ now' = now /\ corrections' = corrections /\ config' = config /\ journal' = journal
        /\ op'.arg = Attempt(kind, observed, now)
    BY <2>1 DEF Begin, clock
  <2>3. app = "up" /\ now \in Nat
    BY <1>2, TimesNat DEF Record, SessionInv, Counted
  <2>4. observed \in Nat /\ observed <= now
    BY <2>1, <2>3
  <2> PICK o : o = op'
    OBVIOUS
  <2>5. o.arg.observed = observed
    BY <2>2 DEF Attempt
  <2>6. corrections = 0 => Ahead(config, journal, o, now)
    BY <2>1, <2>3, <2>4, <2>5, AheadOfAttempt
  <2> QED BY <2>2, <2>6 DEF AheadInv
<1> QED  BY <1>1, <1>2 DEF Calls, Startup, ReconcileRuntimeGap, Terminate

LEMMA SettingsAhead == SessionInv /\ AheadInv /\ Settings => AheadInv'
<1> SUFFICES ASSUME SessionInv, AheadInv, Settings PROVE AheadInv'
  OBVIOUS
<1>1. config \in ConfigSet
  BY DEF SessionInv, Document
<1>2. /\ now' = now /\ corrections' = corrections /\ journal' = journal /\ op' = op
      /\ config'.session = config.session /\ config'.intent = config.intent
      /\ config'.gap = config.gap /\ config'.startup = config.startup
  BY <1>1 DEF Settings, SetRecordingPreference, SetMode, Extend, Admission, clock, ConfigSet
<1>3. PICK d : d = config'
  OBVIOUS
<1>4. corrections = 0 => Ahead(d, journal, op, now)
  BY <1>2, <1>3, AheadOfSettings DEF AheadInv
<1> QED  BY <1>2, <1>3, <1>4 DEF AheadInv

LEMMA EnvironmentAhead == SessionInv /\ AheadInv /\ Environment => AheadInv'
<1> SUFFICES ASSUME SessionInv, AheadInv, Environment PROVE AheadInv'
  OBVIOUS
<1>1. /\ op = NoOp /\ op' = op /\ config' = config /\ journal' = journal
      /\ corrections \in Nat /\ now \in Nat
  BY NotIdle, TimesNat, SessionAssumption
     DEF Environment, Crash, Tick, Correct, SessionInv, Counted
<1>2. CASE Correct
  BY <1>1, <1>2 DEF Correct, AheadInv
<1>3. CASE Crash
  BY <1>1, <1>3 DEF Crash, clock, AheadInv
<1>4. CASE Tick
  <2>1. now' = now + 1 /\ corrections' = corrections
    BY <1>4 DEF Tick
  <2>2. op.call \notin {"ingest", "retain"}
    BY <1>1 DEF NoOp
  <2>3. ASSUME corrections = 0 PROVE Ahead(config, journal, op, now + 1)
    <3>1. Ahead(config, journal, op, now) /\ Document(config, launches)
      BY <2>3 DEF AheadInv, SessionInv
    <3>2. /\ config.session.heartbeat \in Nat /\ config.session.closed \in Nat
          /\ config.gap # NoGap => config.gap.recorded \in Nat
          /\ config.startup # NoStartup => Last(config.startup.gaps).end \in Nat
      BY <3>1, Numbers
    <3>3. \A p \in config.intent : p.at \in Nat
      BY <3>1, DocumentHas, ProofHas, TimesNat DEF Document
    <3>4. config.startup # NoStartup => Chained(config, now + 1)
      BY <1>1, <3>1, <3>2 DEF Ahead, Chained
    <3>5. config.gap # NoGap =>
            config.gap.recorded <= now + 1 /\ config.session.heartbeat < config.gap.recorded
      BY <1>1, <3>1, <3>2 DEF Ahead
    <3>6. config.session.heartbeat <= now + 1 /\ config.session.closed <= now + 1
      BY <1>1, <3>1, <3>2 DEF Ahead
    <3>7. \A p \in config.intent : p.at <= now + 1
      BY <1>1, <3>1, <3>3 DEF Ahead
    <3> QED BY <2>2, <3>1, <3>4, <3>5, <3>6, <3>7 DEF Ahead
  <2> QED BY <1>1, <2>1, <2>3 DEF AheadInv
<1> QED  BY <1>2, <1>3, <1>4 DEF Environment

LEMMA StutterAhead == AheadInv /\ UNCHANGED vars => AheadInv'
BY DEF AheadInv, vars, clock

LEMMA NextAhead == SessionInv /\ AheadInv /\ [Next]_vars => AheadInv'
BY CallsAhead, ReconcileIntentAhead, RecordGapAhead, CommitGapAhead, StartupAhead,
   PrepareGapAhead, AnnounceAhead, RecordAhead, AcknowledgeAhead, PrepareTerminationAhead,
   SettingsAhead, EnvironmentAhead, StutterAhead DEF Next, Steps

LEMMA InitAhead == Init => AheadInv
<1> SUFFICES ASSUME Init PROVE AheadInv
  OBVIOUS
<1>1. /\ config.session = NoSession /\ config.intent = {} /\ config.gap = NoGap
      /\ config.startup = NoStartup /\ now = 1 /\ journal = {} /\ op.call = "none"
  BY DEF Init, NoOp
<1>2. GapsOf(journal) = {} /\ EvidenceOf(journal) = {}
  BY <1>1 DEF GapsOf, EvidenceOf
<1>3. config.session.heartbeat <= now /\ config.session.closed <= now
  BY <1>1 DEF NoSession
<1> QED  BY <1>1, <1>2, <1>3 DEF AheadInv, Ahead, Honestly

LEMMA AheadGivesHonest == AheadInv => GapsHonest
<1>1. Gaps = GapsOf(journal) /\ Evidence = EvidenceOf(journal)
  BY DEF Gaps, Evidence, GapsOf, EvidenceOf
<1> QED  BY <1>1 DEF AheadInv, Ahead, Honestly, Apart, Outside, GapsHonest

(* While the clock is not set back, the gaps of sleep, outages and absences never say *)
(* the same time twice, whatever calls fail or die half-way and are made again, and    *)
(* no evidence was observed or recorded in the time that a gap says is missing. *)
THEOREM GapsAreHonest == Spec => []GapsHonest
<1>1. SessionInv /\ AheadInv /\ [Next]_vars => AheadInv'
  BY NextAhead
<1> QED  BY <1>1, SessionAlways, InitAhead, AheadGivesHonest, PTL DEF Spec
===============================================================================
