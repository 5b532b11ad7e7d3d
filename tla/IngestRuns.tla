----------------------------- MODULE IngestRuns -----------------------------
(***************************************************************************)
(* The life of ingestion runs: jobs started from the command line, each in *)
(* a process and a database session of its own, that may overlap and may   *)
(* die at any point.  A step of a job ends where the job reads what others *)
(* may have committed, or where it commits; the default isolation lets two *)
(* reads of one transaction see different committed states.  What a job    *)
(* has not committed is in its own record and is lost with it.             *)
(***************************************************************************)
EXTENDS CanonicalStore

CONSTANTS
  Jobs,      \* processes
  Inputs,    \* name of an input -> what the adapter makes of it
  MaxRuns,   \* bound on the runs of a behaviour
  Alone      \* bound on interleaving: the first runs of a behaviour do not overlap

VARIABLES
  runs,      \* rating_runs of type ingest: the sequence of rows, the id is the index
  snaps,     \* source_snapshots: snapshot key -> row
  db,        \* the canonical tables
  quar,      \* quarantine_records, in insertion order
  job        \* what each process is doing

vars == <<runs, snaps, db, quar, job>>

CompletedStatuses == {"completed", "completed_with_warnings"}
TerminalStatuses == CompletedStatuses \cup {"skipped_idempotent", "failed"}

Good == { n \in DOMAIN Inputs : Inputs[n].fetch = "ok" }

\* None is no text.  A bundle has its lists, and the provider its adapter was found under.
ASSUME NoneAssumption ==
  /\ None \notin CompletedStatuses \cup {"ok", "planned", "provider_contract_failure", "duplicate_source_record",
                 "invalid_canonical_metric_name", "invalid_metric_value", "unresolved_or_ambiguous_player_identity"}
  /\ \A n \in DOMAIN Inputs : Inputs[n].fetch # None
ASSUME InputsAssumption ==
  \A n \in Good :
    LET b == Inputs[n].bundle
    IN  /\ b.provider = Inputs[n].provider
        /\ {"provider", "candidates", "players", "metrics", "warnings"} \subseteq DOMAIN b
        /\ IsList(b.candidates) /\ IsList(b.players) /\ IsList(b.metrics) /\ IsList(b.warnings)

Bundle(n) == WithPositionCandidates(Inputs[n].bundle)
Hash == [n \in Good |-> [content |-> CHOOSE m \in Good : Fingerprint(Bundle(m)) = Fingerprint(Bundle(n))]]
FailureHash(reason) == [failure |-> reason]

Idle == [pc |-> "idle", run |-> 0, input |-> None, key |-> None, fresh |-> FALSE,
         view |-> None, pub |-> None]
RunRow(n, replay) == [status |-> "planned", trail |-> <<"planned">>, input |-> n, fp |-> None,
                      replayOf |-> replay, rejected |-> <<>>, of |-> None]

TypeOK ==
  /\ DOMAIN db = Tables
  /\ \A r \in DOMAIN runs : /\ runs[r].status \in {"planned", "validating"} \cup TerminalStatuses
                            /\ runs[r].input \in DOMAIN Inputs
                            /\ runs[r].replayOf \in (DOMAIN runs) \cup {None}
  /\ \A k \in DOMAIN snaps : snaps[k].run \in DOMAIN runs
  /\ \A i \in DOMAIN quar : quar[i].run \in DOMAIN runs /\ quar[i].status \in {"open", "resolved"}
  /\ \A j \in Jobs : job[j].run \in (DOMAIN runs) \cup {0}

Init == /\ runs = <<>> /\ snaps = <<>> /\ quar = <<>>
        /\ db = EmptyStore
        /\ job = [j \in Jobs |-> Idle]
----------------------------------------------------------------------------
Go(j, pc) == job' = [job EXCEPT ![j].pc = pc]
Leave(j) == job' = [job EXCEPT ![j] = Idle]
Mark(r, status) == [runs EXCEPT ![r].status = status, ![r].trail = Append(@, status)]

\* One source row or identity rejected for one reason, with one payload.
SameIssue(q, c) == q.type = c.type /\ q.ext = c.ext /\ q.reason = c.reason /\ q.context = c.context

\* Mutant of NewIssues: an issue of another snapshot of the provider counts as recorded.
NewIssuesAnySnapshot(stored, provider, fp, candidates) ==
  LET recorded(c) == \E k \in DOMAIN stored : stored[k].provider = provider /\ SameIssue(stored[k], c)
      fresh == { i \in DOMAIN candidates : ~recorded(candidates[i]) }
  IN  Column(Places(candidates, fresh), LAMBDA i : candidates[i])

\* _persist_quarantine: the rows a run adds, none twice and none the (provider, fingerprint)
\* has already.  stored is the table as the transaction reads it.
NewIssues(stored, provider, fp, candidates) ==
  LET recorded(c) ==
        \E k \in DOMAIN stored : stored[k].provider = provider /\ stored[k].fp = fp /\ SameIssue(stored[k], c)
      fresh == { i \in DOMAIN candidates :
                   /\ ~recorded(candidates[i])
                   /\ \A k \in 1..(i - 1) : ~SameIssue(candidates[k], candidates[i]) }
  IN  Column(Places(candidates, fresh), LAMBDA i : candidates[i])
QuarantineRow(r, provider, fp, c) ==
  [run |-> r, provider |-> provider, fp |-> fp, type |-> c.type, ext |-> c.ext, reason |-> c.reason,
   context |-> c.context, status |-> "open", by |-> None]
Rows(r, provider, fp, candidates) == Column(candidates, LAMBDA c : QuarantineRow(r, provider, fp, c))
----------------------------------------------------------------------------
(* execute_ingestion.                                                      *)

\* A run is recorded before the adapter is asked for anything.
Start(j, n, replay) ==
  /\ job[j].pc = "idle" /\ Len(runs) < MaxRuns
  /\ Len(runs) <= Alone => \A i \in Jobs : job[i].pc = "idle"
  /\ runs' = Append(runs, RunRow(n, replay))
  /\ job' = [job EXCEPT ![j] = [Idle EXCEPT !.pc = "planned", !.run = Len(runs) + 1, !.input = n]]
  /\ UNCHANGED <<snaps, db, quar>>

Validate(j) ==
  /\ job[j].pc = "planned"
  /\ runs' = Mark(job[j].run, "validating")
  /\ Go(j, "validating")
  /\ UNCHANGED <<snaps, db, quar>>

\* Mutant of Abort: the handler does not roll back, and its commit takes the snapshot along.
AbortWithoutRollback(j, reason) ==
  LET r == job[j].run IN
  /\ runs' = [Mark(r, "failed") EXCEPT ![r].fp = FailureHash(reason)]
  /\ snaps' = IF job[j].fresh THEN With(snaps, job[j].key, [fp |-> Hash[job[j].input], run |-> r]) ELSE snaps
  /\ Leave(j)
  /\ UNCHANGED <<quar, db>>

\* The handler of execute_ingestion: everything uncommitted is rolled back, then the run is
\* failed with one source-level issue, under the fingerprint of the failure itself.
Abort(j, reason) ==
  LET r == job[j].run
      provider == Inputs[job[j].input].provider
      issue == <<Candidate("source_schema", None, reason, [reason |-> reason])>>
  IN  /\ runs' = [Mark(r, "failed") EXCEPT ![r].fp = FailureHash(reason)]
      /\ quar' = quar \o Rows(r, provider, FailureHash(reason),
                              NewIssues(quar, provider, FailureHash(reason), issue))
      /\ Leave(j)
      /\ UNCHANGED <<snaps, db>>

FetchReason(n) ==
  CASE ContractErrors(Inputs[n].adapter) # {} -> "provider_contract_failure"
    [] ContractErrors(Inputs[n].adapter) = {} /\ Inputs[n].fetch # "ok" -> Inputs[n].fetch
    [] OTHER -> IF ConformanceErrors(Inputs[n].adapter, Inputs[n].bundle) # {}
                THEN "provider_contract_failure" ELSE None

FetchFails(j) ==
  /\ job[j].pc = "validating" /\ FetchReason(job[j].input) # None
  /\ Abort(j, FetchReason(job[j].input))
----------------------------------------------------------------------------
(* ingest_bundle.                                                          *)

\* Mutant of Prior: a run of the snapshot counts whatever became of it.
PriorAny(j) == { r \in DOMAIN runs : r # job[j].run /\ runs[r].fp = Hash[job[j].input] }

\* Completed runs with the idempotency key: provider, fingerprint and scope (the fingerprint has
\* the scope in it).
Prior(j) ==
  { r \in DOMAIN runs : /\ runs[r].status \in CompletedStatuses /\ r # job[j].run
                        /\ runs[r].fp = Hash[job[j].input] }

\* The adapter has delivered a bundle that conforms to its declaration.
Delivered(j) == job[j].pc = "validating" /\ FetchReason(job[j].input) = None

SkipIdempotent(j) ==
  /\ Delivered(j) /\ Prior(j) # {}
  /\ runs' = [Mark(job[j].run, "skipped_idempotent") EXCEPT ![job[j].run].fp = Hash[job[j].input],
                                                            ![job[j].run].of = Min(Prior(j))]
  /\ Leave(j)
  /\ UNCHANGED <<snaps, db, quar>>

\* Blocking findings: the issues are recorded, the run fails, nothing else is written.
Block(j) ==
  LET r == job[j].run
      b == Bundle(job[j].input)
      fp == Hash[job[j].input]
  IN  /\ Delivered(j) /\ Prior(j) = {} /\ QualityReport(b).hasErrors
      /\ runs' = [Mark(r, "failed") EXCEPT ![r].fp = fp, ![r].rejected = BlockingCandidates(b)]
      /\ quar' = quar \o Rows(r, b.provider, fp, NewIssues(quar, b.provider, fp, BlockingCandidates(b)))
      /\ Leave(j)
      /\ UNCHANGED <<snaps, db>>

Proceed(j) ==
  /\ Delivered(j) /\ Prior(j) = {} /\ ~QualityReport(Bundle(job[j].input)).hasErrors
  /\ Go(j, "finding")
  /\ UNCHANGED <<runs, snaps, db, quar>>

\* The snapshot of this fingerprint, if there is one; else a key of its own.
FindSnapshot(j) ==
  LET same == { k \in DOMAIN snaps : snaps[k].fp = Hash[job[j].input] }
  IN  /\ job[j].pc = "finding"
      /\ IF same # {} THEN job' = [job EXCEPT ![j].pc = "reading", ![j].key = CHOOSE k \in same : TRUE]
                      ELSE Go(j, "naming")
      /\ UNCHANGED <<runs, snaps, db, quar>>
NameSnapshot(j) ==
  LET key == Bundle(job[j].input).key
      free == <<key>> \notin DOMAIN snaps
  IN  /\ job[j].pc = "naming"
      /\ job' = [job EXCEPT ![j].pc = "inserting",
                            ![j].key = IF free THEN <<key>> ELSE <<key, Hash[job[j].input]>>]
      /\ UNCHANGED <<runs, snaps, db, quar>>

\* The insert waits for another transaction that holds the key, and fails when it was committed.
InsertSnapshot(j) ==
  /\ job[j].pc = "inserting" /\ job[j].key \notin DOMAIN snaps
  /\ \A i \in Jobs \ {j} : ~(job[i].fresh /\ job[i].key = job[j].key)
  /\ job' = [job EXCEPT ![j].pc = "reading", ![j].fresh = TRUE]
  /\ UNCHANGED <<runs, snaps, db, quar>>
InsertConflict(j) ==
  /\ job[j].pc = "inserting" /\ job[j].key \in DOMAIN snaps
  /\ Abort(j, "source_schema_drift")

\* The tables as the transaction reads them, and what it makes of them.
Read(j) ==
  /\ job[j].pc = "reading"
  /\ job' = [job EXCEPT ![j].pc = "writing", ![j].view = [db |-> db, quar |-> quar],
                         ![j].pub = Publish(db, Bundle(job[j].input), job[j].key, job[j].run)]
  /\ UNCHANGED <<runs, snaps, db, quar>>

Publication(j) == job[j].pub
Issues(j) == NewIssues(job[j].view.quar, Bundle(job[j].input).provider, Hash[job[j].input],
                       Publication(j).candidates)

\* A row another transaction committed since under a key this one inserts, or in a place this one
\* cleared, breaks a unique constraint.
Touched(before, after) == { k \in DOMAIN after : k \notin DOMAIN before \/ after[k] # before[k] }
Conflict(j) ==
  LET before == job[j].view.db
      after == Publication(j).db
  IN  \/ \E t \in Tables : (DOMAIN after[t] \ DOMAIN before[t]) \cap DOMAIN db[t] # {}
      \/ \E k \in Touched(before["metrics"], db["metrics"]) : k \in DOMAIN Publication(j).sifted.rows
      \/ \E i \in DOMAIN quar : \E k \in DOMAIN Issues(j) :
           /\ i > Len(job[j].view.quar) /\ quar[i].fp = Hash[job[j].input]
           /\ Issues(j)[k].ext # None /\ SameIssue(quar[i], Issues(j)[k])

\* What the job writes over what the others have committed. Observations are deleted and
\* inserted again, those that are as before too.
Rewritten(t, before, pub) ==
  Touched(before[t], pub.db[t]) \cup IF t = "metrics" THEN DOMAIN pub.sifted.rows ELSE {}
Merged(before, pub) ==
  [t \in Tables |->
     Over([k \in Rewritten(t, before, pub) |-> pub.db[t][k]],
          [k \in DOMAIN db[t] \ (DOMAIN before[t] \ DOMAIN pub.db[t]) |-> db[t][k]])]

WarningsPresent(j) ==
  \/ Raised(QualityReport(Bundle(job[j].input)).findings, "warn") # {}
  \/ Publication(j).sifted.unknown # {} \/ Publication(j).sifted.repeats # {}
  \/ Issues(j) # <<>>
----------------------------------------------------------------------------
(* Replay.                                                                 *)

\* _resolve_replayed_quarantine: an open issue of the original run is resolved when the replay no
\* longer rejects it and has published the row, or the player, it is about.
StillRejected(q, provider, candidates) ==
  q.provider = provider /\ \E c \in ToSet(candidates) : SameIssue(q, c)
SameKind(q, c) == q.type = c.type /\ q.reason = c.reason

\* Mutant of Addressed: a metric of the player is enough, whatever else of the player is rejected.
AddressedByAnyMetric(q, provider, pub) ==
  \E k \in DOMAIN pub.sifted.rows : pub.sifted.rows[k].ext = q.ext

Addressed(q, provider, pub) ==
  LET row == RowOf(q.context)
      rows == { m.row : m \in { pub.sifted.rows[k] : k \in DOMAIN pub.sifted.rows } } \ {None}
      again == { c \in ToSet(pub.candidates) : q.provider = provider /\ SameKind(q, c) }
  IN  IF row # None
      THEN (\A c \in again : RowOf(c.context) # row) /\ row \in rows
      ELSE /\ \A c \in again : c.ext # q.ext
           /\ CASE q.type = "player" -> \E k \in DOMAIN pub.players : k[2] = q.ext
                [] q.type \in {"metric", "player_metric"} ->
                     \E k \in DOMAIN pub.sifted.rows : pub.sifted.rows[k].ext = q.ext
                [] OTHER -> q.ext = None

Resolves(j, q) ==
  LET provider == Bundle(job[j].input).provider
  IN  /\ runs[job[j].run].replayOf # None /\ q.run = runs[job[j].run].replayOf /\ q.status = "open"
      /\ ~StillRejected(q, provider, Publication(j).candidates)
      /\ Addressed(q, provider, Publication(j))
Settled(j) ==
  [i \in DOMAIN quar |-> IF Resolves(j, quar[i]) THEN [quar[i] EXCEPT !.status = "resolved", !.by = job[j].run]
                                                 ELSE quar[i]]

\* The single commit of a publication: run, snapshot, tables, issues and resolutions at once.
Commit(j) ==
  LET r == job[j].run
      n == job[j].input
      pub == Publication(j)
  IN  /\ job[j].pc = "writing" /\ pub.ok /\ ~Conflict(j)
      /\ runs' = [Mark(r, IF WarningsPresent(j) THEN "completed_with_warnings" ELSE "completed")
                    EXCEPT ![r].fp = Hash[n], ![r].rejected = pub.candidates]
      /\ snaps' = With(snaps, job[j].key, [fp |-> Hash[n], run |-> r])
      /\ db' = Merged(job[j].view.db, pub)
      /\ quar' = Settled(j) \o Rows(r, Bundle(n).provider, Hash[n], Issues(j))
      /\ Leave(j)
CommitFails(j) ==
  /\ job[j].pc = "writing" /\ (~Publication(j).ok \/ Conflict(j))
  /\ Abort(j, "source_schema_drift")

\* The process dies: its transaction is rolled back by the database and nobody touches its run.
Crash(j) ==
  /\ job[j].pc # "idle"
  /\ Leave(j)
  /\ UNCHANGED <<runs, snaps, db, quar>>
----------------------------------------------------------------------------
Step(j) ==
  \/ Validate(j) \/ FetchFails(j) \/ SkipIdempotent(j) \/ Block(j) \/ Proceed(j)
  \/ FindSnapshot(j) \/ NameSnapshot(j) \/ InsertSnapshot(j) \/ InsertConflict(j)
  \/ Read(j) \/ Commit(j) \/ CommitFails(j)
\* An operator replays a run that failed or finished with warnings.
Replayable == { r \in DOMAIN runs : runs[r].status \in {"failed", "completed_with_warnings"} }
Starts(j) == \E n \in DOMAIN Inputs : \E replay \in Replayable \cup {None} : Start(j, n, replay)

Next == \E j \in Jobs : Starts(j) \/ Step(j) \/ Crash(j)
Spec == Init /\ [][Next]_vars
----------------------------------------------------------------------------
(* Properties.                                                             *)

Completed(r) == r \in DOMAIN runs /\ runs[r].status \in CompletedStatuses

\* "For a failed blocking run, verify that no source snapshot or canonical rows were published"
\* (runbook): every snapshot, player, link and observation belongs to a run that completed,
\* whatever failed, conflicted or died beside it.
FailedRunsPublishNothing ==
  /\ \A k \in DOMAIN snaps : Completed(snaps[k].run)
  /\ \A id \in DOMAIN db["players"] : Completed(id[1])
  /\ \A key \in DOMAIN db["links"] : db["links"][key] \in DOMAIN db["players"]
  /\ \A t \in {"identifiers", "appearances", "registrations", "matches", "lineups", "events",
               "coverages", "evidence", "metrics"} :
       \A k \in DOMAIN db[t] : db[t][k].snap \in DOMAIN snaps

\* What a finished run rejected is on record: each rejection of a blocked or completed run has a
\* row under the run's fingerprint, be it the run's own or one that was there already.
RejectionsAreRecorded ==
  \A r \in DOMAIN runs : \A c \in ToSet(runs[r].rejected) :
    \E i \in DOMAIN quar : quar[i].fp = runs[r].fp /\ SameIssue(quar[i], c)

\* An issue is resolved by the commit of a replay of its run, and at that commit
\*   - the replay does not reject the same record again, nor, of the issue's provider and kind, a
\*     record on the issue's line, or, of an issue without a line, one with its external id;
\*   - the line has been stored with the replay's snapshot; without a line: the player of the
\*     issue is linked, or has an observation of the replay's snapshot, or the issue is of no record.
\* Lines are numbers of two files: that the line of the replay holds the record the issue is about
\* is not claimed, and StillInvalidStaysOpen below shows that it need not.
Answered(i) ==
  LET q == quar[i]
      provider == Inputs[runs[q.by].input].provider
      again == { c \in ToSet(runs[q.by].rejected) : q.provider = provider /\ SameKind(q, c) }
      wrote == { k \in DOMAIN db["metrics"] : snaps[db["metrics"][k].snap].run = q.by }
  IN  /\ Completed(q.by) /\ runs[q.by].replayOf = q.run
      /\ ~StillRejected(q, provider, runs[q.by].rejected)
      /\ IF RowOf(q.context) # None
         THEN /\ \A c \in again : RowOf(c.context) # RowOf(q.context)
              /\ \E k \in wrote : db["metrics"][k].row = RowOf(q.context)
         ELSE /\ \A c \in again : c.ext # q.ext
              /\ CASE q.type = "player" -> \E l \in DOMAIN db["links"] : l[2] = q.ext
                   [] q.type \in {"metric", "player_metric"} ->
                        \E l \in DOMAIN db["links"] : l[2] = q.ext /\ \E k \in wrote : k[1] = db["links"][l]
                   [] OTHER -> q.ext = None
ResolvedIsAnswered ==
  [][\A i \in DOMAIN quar : quar[i].status = "open" /\ quar'[i].status = "resolved" =>
       ~Completed(quar'[i].by) /\ Answered(i)']_vars

\* "A partial correction leaves every still-invalid or unaddressed original record open" (runbook),
\* by identity: no rejection of the replay is about the same kind of record of the same player. No
\* run checks this, PublishedOnce and SkippedIsUnchanged: they are not so (README).
StillInvalidStaysOpen ==
  \A i \in DOMAIN quar : quar[i].status = "resolved" =>
    \A c \in ToSet(runs[quar[i].by].rejected) : SameKind(quar[i], c) => c.ext # quar[i].ext

\* A skipped run writes nothing, and of its input the fingerprint tells less than all. Yet a skip
\* leaves nobody out: each player its input names is linked to a stored one, or an issue of the
\* same snapshot says why not (its position is not supported, or several people could be meant).
LeftOutReasons == {"unsupported_position_mapping", "unresolved_or_ambiguous_player_identity"}
SkipLeavesNobodyOut ==
  \A r \in DOMAIN runs : runs[r].status = "skipped_idempotent" =>
    \A p \in ToSet(Bundle(runs[r].input).players) :
      \/ SourceKey(p) \in DOMAIN db["links"]
      \/ \E i \in DOMAIN quar : /\ quar[i].fp = runs[r].fp /\ quar[i].ext = p.ext
                                /\ quar[i].reason \in LeftOutReasons

\* "If a completed snapshot with that key exists, ScoutBoy records a skipped_idempotent run":
\* two completed runs never have the same idempotency key.
PublishedOnce ==
  \A r, q \in DOMAIN runs : Completed(r) /\ Completed(q) /\ runs[r].fp = runs[q].fp => r = q

\* "Corrected content changes the inventory fingerprint": what is skipped is what was published.
SkippedIsUnchanged ==
  \A r \in DOMAIN runs : runs[r].status = "skipped_idempotent" =>
    Inputs[runs[r].input].bundle = Inputs[runs[runs[r].of].input].bundle

\* "Multiple canonical candidates produce a persistent ambiguity record and exclude that source
\* player": a commit links nobody to a record that two stored players could be, and records it.
TwoPeople(players, p) ==
  ParseDate(p.birth) # None /\
  Cardinality({ id \in DOMAIN players : players[id].name = p.name /\ players[id].birth = ParseDate(p.birth) }) > 1
AmbiguousStaysUnlinked ==
  [][\A j \in Jobs : Commit(j) =>
       \A p \in ToSet(Publishable(Bundle(job[j].input))) :
         SourceKey(p) \notin DOMAIN db["links"] /\ TwoPeople(job[j].view.db["players"], p) =>
           /\ SourceKey(p) \notin DOMAIN db'["links"]
           /\ \E i \in DOMAIN quar' : quar'[i].type = "player" /\ quar'[i].ext = p.ext]_vars
=============================================================================
