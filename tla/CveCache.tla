------------------------------ MODULE CveCache -------------------------------
(***************************************************************************)
(* Where the CVE commands get their records (cve_source.py): the bundled    *)
(* snapshot, or NVD over HTTP, behind CachingCveSource, which keeps one     *)
(* file per query.  Commands that run at once share the directory and write *)
(* their files without a lock: path.write_text truncates first and writes   *)
(* then, and a reader may come in between.                                  *)
(***************************************************************************)
EXTENDS Naturals, FiniteSets

CONSTANTS
    CveInfo,     \* the records: id -> [category, score, day, words]
    Bundled,     \* the ids of the snapshot
    CveQuery,    \* the queries: [what, id, category, min, after, word, limit]
    Sanitized,   \* what _cache_path makes of a word
    CveCaller,   \* the commands, each one call
    Ttl,         \* ttl_seconds, in ticks
    MaxClock     \* bound on the clock
ASSUME CveAssumption ==
    /\ IsFiniteSet(DOMAIN CveInfo) /\ DOMAIN CveInfo \subseteq Nat
    /\ Bundled \subseteq DOMAIN CveInfo /\ Ttl \in Nat
    /\ CveQuery \subseteq [what : {"get", "fetch"}, id : Nat, category : STRING, min : Nat,
                           after : Nat, word : DOMAIN Sanitized, limit : Nat]

VARIABLES
    nvd,         \* the ids NVD has published
    cacheFile,   \* the cache directory: key -> file
    cve,         \* the commands
    clock,
    written      \* history: what was written to which file, and when
cveVars == <<nvd, cacheFile, cve, clock, written>>

None == "None"
NoCacheFile == [state |-> "missing"]
Torn == [state |-> "torn"]
File(e, ids) == [state |-> "whole", expires_at |-> e, records |-> ids]
Idle == [pc |-> "idle", q |-> [what |-> None], source |-> None, got |-> {}, at |-> 0]
CveEnded == [Idle EXCEPT !.pc = "ended"]
-----------------------------------------------------------------------------
\* The sources.

InRange(id, q) ==
    LET r == CveInfo[id]
    IN  /\ q.category \in {None, r.category}
        /\ r.score >= q.min
        /\ q.after <= r.day
_matches(id, q) == InRange(id, q) /\ (q.word = None \/ q.word \in CveInfo[id].words)
\* The first n, in the order the source has them.
First(ids, n) == {i \in ids : Cardinality({j \in ids : j < i}) < n}
_filter_records(ids, q) == First({i \in ids : _matches(i, q)}, q.limit)

_severity_from_score(s) ==
    CASE s >= 9 -> "CRITICAL" [] s >= 7 -> "HIGH" [] s >= 4 -> "MEDIUM" [] s > 0 -> "LOW" [] OTHER -> "NONE"

Snapshot(q) ==
    IF q.what = "get" THEN {i \in Bundled : i = q.id} ELSE _filter_records(Bundled, q)

\* NVD answers with records of exactly the severity, the word and the dates
\* asked for, one page of them; the client does the rest, without the word.
NvdAnswers(q) ==
    First({i \in nvd : /\ q.min > 0 => _severity_from_score(CveInfo[i].score) = _severity_from_score(q.min)
                       /\ q.word = None \/ q.word \in CveInfo[i].words
                       /\ q.after <= CveInfo[i].day},
          IF q.limit > 1 THEN q.limit ELSE 1)
NvdCveSource(q) ==
    IF q.what = "get" THEN {i \in nvd : i = q.id}
    ELSE First({i \in NvdAnswers(q) : InRange(i, q)}, q.limit)

FromSource(source, q) == IF source = "nvd" THEN NvdCveSource(q) ELSE Snapshot(q)
-----------------------------------------------------------------------------
\* The cache.

\* Two words may give one file, and so do the two sources.
_cache_path(q) == [q EXCEPT !.word = Sanitized[q.word]]

\* Mutant: a file that cannot be decoded counts as an empty answer.
ReadableAlways(f) == f.state = "torn" \/ (f.state = "whole" /\ f.expires_at >= clock)
\* _read_cache finds an answer: the file decodes and has not expired.
Readable(f) == f.state = "whole" /\ f.expires_at >= clock

CveInit ==
    /\ nvd = Bundled
    /\ cacheFile = [k \in {_cache_path(q) : q \in CveQuery} |-> NoCacheFile]
    /\ cve = [c \in CveCaller |-> Idle]
    /\ clock = 0 /\ written = {}

Ask(c, q, source) ==
    /\ cve[c].pc = "idle"
    /\ cve' = [cve EXCEPT ![c] = [Idle EXCEPT !.pc = "read", !.q = q, !.source = source]]
    /\ UNCHANGED <<nvd, cacheFile, clock, written>>

_read_cache(c) ==
    /\ cve[c].pc = "read"
    /\ LET f == cacheFile[_cache_path(cve[c].q)]
       IN  cve' = [cve EXCEPT ![c] =
               IF Readable(f)
               THEN [@ EXCEPT !.pc = "cached", !.at = clock, !.got = IF f.state = "whole" THEN f.records ELSE {}]
               ELSE [@ EXCEPT !.pc = "fetch"]]
    /\ UNCHANGED <<nvd, cacheFile, clock, written>>

FetchRecords(c) ==
    /\ cve[c].pc = "fetch"
    /\ cve' = [cve EXCEPT ![c] = [@ EXCEPT !.pc = "truncate", !.got = FromSource(cve[c].source, cve[c].q)]]
    /\ UNCHANGED <<nvd, cacheFile, clock, written>>
\* The request fails: the exception leaves the command and nothing is kept.
FetchFails(c) ==
    /\ cve[c].pc = "fetch" /\ cve[c].source = "nvd"
    /\ cve' = [cve EXCEPT ![c] = CveEnded]
    /\ UNCHANGED <<nvd, cacheFile, clock, written>>

\* write_text, in two steps; the expiry is computed before the first.
Truncate(c) ==
    /\ cve[c].pc = "truncate"
    /\ cacheFile' = [cacheFile EXCEPT ![_cache_path(cve[c].q)] = Torn]
    /\ cve' = [cve EXCEPT ![c] = [@ EXCEPT !.pc = "write", !.at = clock]]
    /\ UNCHANGED <<nvd, clock, written>>
\* Over what another writer left there since, the end may be the other's.
_write_cache(c) ==
    /\ cve[c].pc = "write"
    /\ LET key == _cache_path(cve[c].q)
           mine == File(cve[c].at + Ttl, cve[c].got)
       IN  /\ cacheFile' \in {[cacheFile EXCEPT ![key] = f] :
                                 f \in IF cacheFile[key] = Torn THEN {mine} ELSE {mine, Torn}}
           /\ written' = written \cup {[key |-> key, got |-> cve[c].got, at |-> cve[c].at]}
    /\ cve' = [cve EXCEPT ![c] = [@ EXCEPT !.pc = "fetched"]]
    /\ UNCHANGED <<nvd, clock>>
\* The process dies, perhaps with the file truncated.
Killed(c) ==
    /\ cve[c].pc = "write"
    /\ cve' = [cve EXCEPT ![c] = CveEnded]
    /\ UNCHANGED <<nvd, cacheFile, clock, written>>

PublishCve ==
    /\ \E i \in DOMAIN CveInfo \ nvd : nvd' = nvd \cup {i}
    /\ UNCHANGED <<cacheFile, cve, clock, written>>
ClockTick ==
    /\ clock < MaxClock /\ clock' = clock + 1
    /\ UNCHANGED <<nvd, cacheFile, cve, written>>

CveNext ==
    \/ \E c \in CveCaller :
          \/ \E q \in CveQuery, source \in {"snapshot", "nvd"} : Ask(c, q, source)
          \/ _read_cache(c) \/ FetchRecords(c) \/ FetchFails(c)
          \/ Truncate(c) \/ _write_cache(c) \/ Killed(c)
    \/ PublishCve \/ ClockTick
CveSpec == CveInit /\ [][CveNext]_cveVars
-----------------------------------------------------------------------------
(***************************************************************************)
(* Whatever command filled the file, from whichever source, an answer keeps *)
(* the category, score and date asked for, and the limit.  (_cache_path;    *)
(* the keyword is left out: two of them may share a file)                   *)
(***************************************************************************)
AnswerFits ==
    \A c \in CveCaller : cve[c].pc \in {"cached", "fetched"} =>
        LET q == cve[c].q
        IN  IF q.what = "get" THEN cve[c].got \subseteq {q.id}
            ELSE Cardinality(cve[c].got) <= q.limit /\ \A i \in cve[c].got : InRange(i, q)

(***************************************************************************)
(* A cached answer is one whole answer that was written for this file and   *)
(* is no older than the limit: never what a writer that was interrupted,    *)
(* died or was overtaken left in the file.  (_read_cache, _write_cache)     *)
(***************************************************************************)
CachedWhole ==
    \A c \in CveCaller : cve[c].pc = "cached" =>
        \E w \in written : /\ w.key = _cache_path(cve[c].q) /\ w.got = cve[c].got
                           /\ cve[c].at <= w.at + Ttl

\* An answer from the cache is one the query could have had from the source.
CveSafe ==
    /\ AnswerFits
    /\ CachedWhole
=============================================================================
