------------------------------ MODULE CiSharding ------------------------------
(***************************************************************************)
(* The public test suites of the CI, python/ci/bazel_oss_sharding.py, with  *)
(* the jobs of .github/workflows/ci.yml that call it.                       *)
(*                                                                         *)
(* A suite is split over shards.  Every shard asks Bazel for the tests of   *)
(* the whole suite, keeps those whose hash falls on it, runs them, and      *)
(* leaves two files: the labels it kept (the manifest) and a result record. *)
(* A job runs one shard, or the single shards of several suites one after   *)
(* the other, and then checks its own records.  When all the jobs have      *)
(* ended, one more job fetches the files and aggregates them; the gate that *)
(* protects the branch and the published image opens if every job and the   *)
(* aggregation succeeded.                                                  *)
(*                                                                         *)
(* Helper processes die half-way through a write, Bazel fails or says less  *)
(* than it should, files are lost on their way to the aggregation, and the  *)
(* failed jobs are run again.  Such faults are counted, and MaxFaults       *)
(* bounds them.                                                            *)
(*                                                                         *)
(* A list of labels is a set: the code sorts and deduplicates before it     *)
(* looks.  A digest of labels is the set itself (SHA-256 has no collision). *)
(***************************************************************************)
EXTENDS Integers, Sequences, FiniteSets, FiniteSetsExt

CONSTANTS
    Suites,      \* SUITES
    Tests,       \* Tests[s]: the labels of suite s
    Listed,      \* the suites whose labels the workflow writes down itself
    Hash,        \* Hash[l]: the SHA-256 of label l, as a number
    Expected,    \* Expected[s]: the shards of suite s (--expected)
    Jobs,        \* the jobs of the matrix
    Work,        \* Work[j]: the sequence of shards job j runs
    BadLine,     \* a line of query output that is no label
    None,        \* exit_code before Bazel has run; a log with no test summary
    NoFile, Torn,\* a file that is absent; one cut off in the middle of a write
    MaxFaults,   \* bound: faults of the environment
    MaxReruns    \* bound: times the failed jobs are run again

VARIABLES
    phase,       \* [Jobs -> what the job does next]
    turn,        \* [Jobs -> which shard of Work[j] it is at]
    listing,     \* [Units -> the lines Bazel's query printed]
    manifest,    \* [Units -> the targets file]
    record,      \* [Units -> the result file]
    log,         \* [Units -> what Bazel's output says]
    gate,        \* the stable check: "pending", "success", "failure"
    outputs,     \* [Suites -> what the aggregation reports for the badges]
    passed,      \* observer: the tests that passed, per shard
    tainted,     \* observer: the jobs that met a fault in this attempt
    faults, reruns

files == <<listing, manifest, record, log, passed>>
final == <<gate, outputs>>
vars  == <<phase, turn, files, final, tainted, faults, reruns>>

-----------------------------------------------------------------------------
Unit(s, i, n) == [suite |-> s, shard_index |-> i, shard_count |-> n]
Units   == UNION {{Work[j][k] : k \in DOMAIN Work[j]} : j \in Jobs}
Labels  == UNION {Tests[s] : s \in Suites}
Aggregation == "aggregation"

Record ==
    [discovered : SUBSET Labels, selected : SUBSET Labels,
     passing_tests : Nat, exit_code : Nat \cup {None}, errors : BOOLEAN]

IsRecord(r) == r \notin {NoFile, Torn}

(* The markers are neither labels, nor lists of them, nor records.          *)
ASSUME MarkersAssumption ==
    /\ BadLine \notin Labels /\ None \notin Int
    /\ \A ls \in SUBSET Labels : ls # NoFile
    /\ NoFile \notin Record /\ Torn \notin Record

ASSUME SuitesAssumption ==
    /\ IsFiniteSet(Units) /\ IsFiniteSet(Labels)
    /\ Tests \in [Suites -> SUBSET Labels]
    /\ Hash \in [Labels -> Nat]
    /\ Expected \in [Suites -> Nat \ {0}]

ASSUME BoundsAssumption == MaxFaults \in Nat /\ MaxReruns \in Nat

(* The matrix and the aggregation agree on the number of shards; no shard   *)
(* is run twice, no job has two shards of one suite, and the aggregation is *)
(* a job of its own.                                                        *)
ASSUME MatrixAssumption ==
    /\ Aggregation \notin Jobs
    /\ Units \subseteq [suite : Suites, shard_index : Nat, shard_count : Nat]
    /\ \A u \in Units : u.shard_count = Expected[u.suite] /\ u.shard_index < u.shard_count
    /\ \A j \in Jobs : Work[j] \in Seq(Units) /\ Work[j] # <<>>
    /\ \A i, j \in Jobs : \A k \in DOMAIN Work[i], l \in DOMAIN Work[j] :
           /\ Work[i][k] = Work[j][l] => i = j /\ k = l
           /\ i = j /\ k # l => Work[i][k].suite # Work[j][l].suite

(***************************************************************************)
(* Partition and record.                                                   *)
(***************************************************************************)
Canonical(lines) == BadLine \notin lines        \* canonicalize_labels returns

shard_for_label(l, n) == Hash[l] % n

discovered_labels(lines) == IF Canonical(lines) THEN lines ELSE {}

selected_labels(u, lines) ==
    {l \in discovered_labels(lines) :
        shard_for_label(l, u.shard_count) = u.shard_index}

\* (mutant) The record starts with an exit code that says nothing went wrong.
MutPreparePartition(u, lines) ==
    [discovered    |-> discovered_labels(lines),
     selected      |-> selected_labels(u, lines),
     passing_tests |-> 0,
     exit_code     |-> -1,
     errors        |-> selected_labels(u, lines) = {}]

prepare_partition(u, lines) ==
    LET selected == selected_labels(u, lines)
        errors   == \/ ~Canonical(lines)
                    \/ selected = {}       \* also when nothing is discovered
    IN  [discovered    |-> discovered_labels(lines),
         selected      |-> selected,
         passing_tests |-> 0,
         exit_code     |-> IF errors THEN 4 ELSE None,
         errors        |-> errors]

\* (mutant) Bazel's word is taken for it that every selected test passed.
MutFinalizeUncounted(r, l) ==
    [r EXCEPT !.passing_tests = IF l.summary = None THEN 0 ELSE l.summary,
              !.exit_code     = l.exit_code,
              !.errors        = @ \/ (l.exit_code = 0 /\ l.summary = None)]

\* (mutant) The count is compared with the tests of the suite.
MutFinalizeSuite(r, l) ==
    LET passing == IF l.summary = None THEN 0 ELSE l.summary
        errors  == l.exit_code = 0 /\ passing # Cardinality(r.discovered)
    IN  [r EXCEPT !.passing_tests = passing,
                  !.exit_code     = IF errors THEN 4 ELSE l.exit_code,
                  !.errors        = @ \/ errors]

(* The log says how many tests passed, or nothing that parse_passing_tests  *)
(* recognises.                                                              *)
finalize_result(r, l) ==
    LET passing == IF l.summary = None THEN 0 ELSE l.summary
        errors  == \/ l.exit_code = 0 /\ l.summary = None
                   \/ passing > Cardinality(r.selected)
                   \/ l.exit_code = 0 /\ passing # Cardinality(r.selected)
    IN  [r EXCEPT !.passing_tests = passing,
                  !.exit_code     = IF errors THEN 4 ELSE l.exit_code,
                  !.errors        = @ \/ errors]

mark_discovery_failure(r, code) ==
    [r EXCEPT !.passing_tests = 0, !.exit_code = code, !.errors = TRUE]

-----------------------------------------------------------------------------
(***************************************************************************)
(* What a job checks, and what the aggregation checks.                     *)
(***************************************************************************)
command_check(j) ==
    \A k \in DOMAIN Work[j] :
        LET r == record[Work[j][k]]
        IN  IsRecord(r) /\ r.exit_code = 0 /\ ~r.errors

(* validate_record_shape: an exit code that is still None has no integer    *)
(* type; a shard that found or kept nothing is refused.                     *)
WellFormed(u, r) ==
    /\ r.exit_code # None
    /\ u.shard_count = Expected[u.suite]
    /\ u.shard_index \in 0 .. Expected[u.suite] - 1
    /\ r.discovered # {}
    /\ r.selected # {}

(* The records of suite s that the aggregation accepts, from the result     *)
(* files `got` and the manifests `lists` it was given.                      *)
Accepted(s, got) ==
    {u \in Units : u.suite = s /\ IsRecord(got[u]) /\ WellFormed(u, got[u])}

AllAccepted(s, got) ==
    /\ \A u \in Units : u.suite = s /\ IsRecord(got[u]) => u \in Accepted(s, got)
    /\ {u.shard_index : u \in Accepted(s, got)} = 0 .. Expected[s] - 1

ManifestLabels(u, lists) == IF lists[u] = NoFile THEN {} ELSE discovered_labels(lists[u])

ManifestsMatch(s, got, lists) ==
    /\ \A u \in Accepted(s, got) :
           /\ lists[u] # NoFile
           /\ Canonical(lists[u])
           /\ ManifestLabels(u, lists) = got[u].selected
    /\ \A u, v \in Accepted(s, got) :
           u # v => ManifestLabels(u, lists) \cap ManifestLabels(v, lists) = {}

Discoveries(s, got) == {got[u].discovered : u \in Accepted(s, got)}

total_tests(s, got) == Max({0} \cup {Cardinality(d) : d \in Discoveries(s, got)})

(* What every shard adds to a sum, told apart by the shard.                 *)
PerShard(f) == UNION {{u} \X f[u] : u \in DOMAIN f}

passing_tests(s, got) ==
    Cardinality(PerShard([u \in Accepted(s, got) |-> 1 .. got[u].passing_tests]))

(* The digest the union is compared with is the least of those found; any   *)
(* fixed choice stands for that order.                                      *)
UnionMatches(s, got, lists) ==
    LET union == UNION {ManifestLabels(u, lists) : u \in Accepted(s, got)}
        total == Cardinality(PerShard([u \in Accepted(s, got) |-> ManifestLabels(u, lists)]))
    IN  /\ total = total_tests(s, got)
        /\ union = IF Discoveries(s, got) = {} THEN {}
                   ELSE CHOOSE d \in Discoveries(s, got) : TRUE

\* (mutant) The shards may have seen different lists of tests.
MutAgree(s, got) == TRUE

Agree(s, got) == Cardinality(Discoveries(s, got)) <= 1

\* (mutant) What the shards exited with is left to the jobs.
MutSuitePasses(s, got, lists) ==
    AllAccepted(s, got) /\ Agree(s, got) /\ ManifestsMatch(s, got, lists)

SuitePasses(s, got, lists) ==
    /\ AllAccepted(s, got)
    /\ Agree(s, got)
    /\ ManifestsMatch(s, got, lists)
    /\ \A u \in Accepted(s, got) : got[u].exit_code = 0 /\ ~got[u].errors
    /\ UnionMatches(s, got, lists)
    /\ passing_tests(s, got) <= total_tests(s, got)

SuiteOutput(s, got, lists) ==
    [total_tests   |-> total_tests(s, got),
     passing_tests |-> passing_tests(s, got),
     exit_code     |-> IF SuitePasses(s, got, lists) THEN 0 ELSE 1]

aggregate_results(got, lists) == [s \in Suites |-> SuiteOutput(s, got, lists)]

(* A result file that is no JSON is an error of the aggregation as a whole. *)
command_aggregate(got, lists) ==
    /\ \A u \in Units : got[u] # Torn
    /\ \A s \in Suites : SuitePasses(s, got, lists)

-----------------------------------------------------------------------------
Init ==
    /\ phase = [j \in Jobs |-> "query"]
    /\ turn = [j \in Jobs |-> 1]
    /\ listing = [u \in Units |-> {}]
    /\ manifest = [u \in Units |-> NoFile]
    /\ record = [u \in Units |-> NoFile]
    /\ log = [u \in Units |-> NoFile]
    /\ passed = [u \in Units |-> {}]
    /\ gate = "pending"
    /\ outputs = [s \in Suites |-> NoFile]
    /\ tainted = {}
    /\ faults = 0
    /\ reruns = 0

Here(j) == Work[j][turn[j]]

Charge(who, bad) ==
    /\ bad => faults < MaxFaults
    /\ faults' = IF bad THEN faults + 1 ELSE faults
    /\ tainted' = IF bad THEN tainted \cup {who} ELSE tainted

(* The shell goes on with the next shard of the job, whatever the last      *)
(* command returned (set +e); after the last one the results are checked.   *)
NextShard(j) ==
    IF turn[j] < Len(Work[j])
    THEN turn' = [turn EXCEPT ![j] = @ + 1] /\ phase' = [phase EXCEPT ![j] = "query"]
    ELSE UNCHANGED turn /\ phase' = [phase EXCEPT ![j] = "check"]

GoTo(j, p) == phase' = [phase EXCEPT ![j] = p] /\ UNCHANGED turn

(* Bazel lists the tests of the suite: all of them, or, at fault, some, a    *)
(* line that is no label, or a part and an error.                           *)
Query(j) ==
    /\ phase[j] = "query"
    /\ LET u == Here(j)
           all == Tests[u.suite]
       IN  \E lines \in (SUBSET all) \cup {all \cup {BadLine}} : \E ok \in BOOLEAN :
               /\ u.suite \in Listed => lines = all /\ ok
               /\ Charge(j, lines # all \/ ~ok)
               /\ listing' = [listing EXCEPT ![u] = lines]
               /\ GoTo(j, IF ok THEN "partition" ELSE "salvage")
    /\ UNCHANGED <<manifest, record, log, passed, final, reruns>>

(* partition: first the manifest, then the record.  After a query that      *)
(* failed the record is only there to be marked.                            *)
Partition(j) ==
    /\ phase[j] \in {"partition", "salvage"}
    /\ LET u == Here(j)
           r == prepare_partition(u, listing[u])
       IN  /\ manifest' = [manifest EXCEPT ![u] = r.selected]
           /\ record' = [record EXCEPT ![u] = r]
           /\ CASE phase[j] = "salvage" -> GoTo(j, "mark")
                [] phase[j] = "partition" /\ r.errors  -> NextShard(j)
                [] phase[j] = "partition" /\ ~r.errors -> GoTo(j, "test")
    /\ UNCHANGED <<listing, log, passed, final, tainted, faults, reruns>>

MarkDiscoveryFailure(j) ==
    /\ phase[j] = "mark"
    /\ LET u == Here(j)
       IN  record' = IF IsRecord(record[u])
                     THEN [record EXCEPT ![u] = mark_discovery_failure(@, 1)]
                     ELSE record
    /\ NextShard(j)
    /\ UNCHANGED <<listing, manifest, log, passed, final, tainted, faults, reruns>>

(* bazel test over the manifest.  At fault, tests fail, Bazel's exit code    *)
(* does not say so, the summary is missing, or more passes are counted than *)
(* there are targets.                                                       *)
RunBazel(j) ==
    /\ phase[j] = "test"
    /\ LET u == Here(j)
           all == manifest[u]
       IN  \E ok \in SUBSET all : \E code \in {0, 3} :
           \E summary \in {None, Cardinality(ok), Cardinality(all) + 1} :
               /\ Charge(j, ok # all \/ code # 0 \/ summary # Cardinality(all))
               /\ passed' = [passed EXCEPT ![u] = ok]
               /\ log' = [log EXCEPT ![u] = [exit_code |-> code, summary |-> summary]]
    /\ GoTo(j, "finalize")
    /\ UNCHANGED <<listing, manifest, record, final, reruns>>

Finalize(j) ==
    /\ phase[j] = "finalize"
    /\ LET u == Here(j)
       IN  record' = [record EXCEPT ![u] = finalize_result(@, log[u])]
    /\ NextShard(j)
    /\ UNCHANGED <<listing, manifest, log, passed, final, tainted, faults, reruns>>

(* A helper, or the container it runs in, dies.  The file it was writing is  *)
(* as before, cut off or, if it dies after its last write, complete.  The   *)
(* shell goes on, or the step ends there; the check runs in every case      *)
(* (if: always()).                                                          *)
Die(j) ==
    /\ phase[j] \in {"query", "partition", "salvage", "mark", "test", "finalize"}
    /\ Charge(j, TRUE)
    /\ LET u == Here(j)
           kept == selected_labels(u, listing[u])
       IN  \/ /\ phase[j] \in {"query", "test"}
              /\ UNCHANGED <<manifest, record>>
           \/ /\ phase[j] \in {"partition", "salvage"}
              /\ \E part \in SUBSET kept : manifest' = [manifest EXCEPT ![u] = part]
              /\ UNCHANGED record
           \/ /\ phase[j] \in {"partition", "salvage"}
              /\ manifest' = [manifest EXCEPT ![u] = kept]
              /\ \E r \in {Torn, prepare_partition(u, listing[u])} :
                     record' = [record EXCEPT ![u] = r]
           \/ /\ phase[j] \in {"mark", "finalize"}
              /\ UNCHANGED manifest
              /\ \E r \in {record[u], Torn} : record' = [record EXCEPT ![u] = r]
           \/ /\ phase[j] = "mark" /\ IsRecord(record[u])
              /\ UNCHANGED manifest
              /\ record' = [record EXCEPT ![u] = mark_discovery_failure(@, 1)]
           \/ /\ phase[j] = "finalize"
              /\ UNCHANGED manifest
              /\ record' = [record EXCEPT ![u] = finalize_result(@, log[u])]
    /\ \/ GoTo(j, "check")
       \/ phase[j] \in {"partition", "mark", "finalize"} /\ NextShard(j)
       \/ phase[j] = "salvage" /\ GoTo(j, "mark")
    /\ UNCHANGED <<listing, log, passed, final, reruns>>

Check(j) ==
    /\ phase[j] = "check"
    /\ GoTo(j, IF command_check(j) THEN "success" ELSE "failure")
    /\ UNCHANGED <<files, final, tainted, faults, reruns>>

(* When every job has ended, the files are fetched and aggregated.  At fault *)
(* a file is not there, or only its beginning is.                           *)
Aggregate ==
    /\ gate = "pending"
    /\ \A j \in Jobs : phase[j] \in {"success", "failure"}
    /\ \E got \in {record} \cup {[record EXCEPT ![u] = r] : u \in Units, r \in {NoFile, Torn}} :
       \E lists \in {manifest} \cup {[manifest EXCEPT ![u] = NoFile] : u \in Units}
                    \cup UNION {{[manifest EXCEPT ![u] = part] :
                                    part \in SUBSET ManifestLabels(u, manifest)} : u \in Units} :
           /\ Charge(Aggregation, got # record \/ lists # manifest)
           /\ outputs' = aggregate_results(got, lists)
           /\ gate' = IF /\ command_aggregate(got, lists)
                         /\ \A j \in Jobs : phase[j] = "success"
                      THEN "success" ELSE "failure"
    /\ UNCHANGED <<phase, turn, files, reruns>>

(* The failed jobs and the aggregation are run again; a job starts with an  *)
(* empty directory on a new machine.                                        *)
Rerun ==
    /\ gate = "failure"
    /\ reruns < MaxReruns
    /\ LET again == {j \in Jobs : phase[j] = "failure"}
           units == {u \in Units : \E j \in again : \E k \in DOMAIN Work[j] : Work[j][k] = u}
           Fresh(f, v) == [u \in Units |-> IF u \in units THEN v ELSE f[u]]
       IN  /\ phase' = [j \in Jobs |-> IF j \in again THEN "query" ELSE phase[j]]
           /\ turn' = [j \in Jobs |-> IF j \in again THEN 1 ELSE turn[j]]
           /\ listing' = Fresh(listing, {})
           /\ manifest' = Fresh(manifest, NoFile)
           /\ record' = Fresh(record, NoFile)
           /\ log' = Fresh(log, NoFile)
           /\ passed' = Fresh(passed, {})
           /\ tainted' = tainted \ (again \cup {Aggregation})
    /\ gate' = "pending"
    /\ reruns' = reruns + 1
    /\ UNCHANGED <<outputs, faults>>

Next ==
    \/ \E j \in Jobs :
           \/ Query(j) \/ Partition(j) \/ MarkDiscoveryFailure(j)
           \/ RunBazel(j) \/ Finalize(j) \/ Die(j) \/ Check(j)
    \/ Aggregate
    \/ Rerun

Spec == Init /\ [][Next]_vars

-----------------------------------------------------------------------------
TypeOK ==
    /\ phase \in [Jobs -> {"query", "partition", "salvage", "mark", "test",
                           "finalize", "check", "success", "failure"}]
    /\ \A j \in Jobs : turn[j] \in DOMAIN Work[j]
    /\ listing \in [Units -> SUBSET (Labels \cup {BadLine})]
    /\ \A u \in Units : manifest[u] # NoFile => manifest[u] \in SUBSET Labels
    /\ \A u \in Units : IsRecord(record[u]) => record[u] \in Record
    /\ passed \in [Units -> SUBSET Labels]
    /\ gate \in {"pending", "success", "failure"}
    /\ faults \in 0 .. MaxFaults /\ reruns \in 0 .. MaxReruns

(* The gate opens only if the shards of every suite saw one list of tests   *)
(* and every test of it passed on exactly one of them.                      *)
GreenMeansTested ==
    gate = "success" =>
        \A s \in Suites :
            LET shards == {u \in Units : u.suite = s}
            IN  \A u \in shards :
                    /\ listing[u] # {}
                    /\ \A v \in shards : listing[v] = listing[u]
                    /\ \A l \in listing[u] :
                           Cardinality({v \in shards : l \in passed[v]}) = 1

(* A job that reports success ran, in this attempt, every test its shard    *)
(* was to run, and they all passed.                                         *)
JobMeansPassed ==
    \A j \in Jobs : phase[j] = "success" =>
        \A k \in DOMAIN Work[j] :
            LET u == Work[j][k]
            IN  passed[u] = selected_labels(u, listing[u]) /\ passed[u] # {}

(* The matrix runs every shard, and every shard gets a test: one without is  *)
(* refused.                                                                 *)
MatrixFits ==
    /\ \A s \in Suites : \A i \in 0 .. Expected[s] - 1 : \E u \in Units :
           u.suite = s /\ u.shard_index = i
    /\ \A u \in Units : \E l \in Tests[u.suite] :
           shard_for_label(l, u.shard_count) = u.shard_index

(* A badge that reports exit code 0 counts every test that was found, and   *)
(* no more, as passed.                                                      *)
BadgeIsHonest ==
    gate # "pending" =>
        \A s \in Suites : outputs[s].exit_code = 0 =>
            /\ outputs[s].passing_tests = outputs[s].total_tests
            /\ outputs[s].total_tests =
                   Cardinality(UNION {passed[u] : u \in {v \in Units : v.suite = s}})

(* Without a fault since its last start, no job fails and neither does the  *)
(* gate: what an earlier attempt left behind does not count.                *)
NoFalseAlarm ==
    /\ \A j \in Jobs : phase[j] = "failure" => j \in tainted
    /\ gate = "failure" => tainted # {}

=============================================================================
