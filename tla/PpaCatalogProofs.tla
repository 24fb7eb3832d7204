--------------------------- MODULE PpaCatalogProofs ---------------------------
(***************************************************************************)
(* Theorems about PpaCatalog for any targets and documentation, any number  *)
(* of revisions, failures and kills: what a catalog on disk holds, and what *)
(* a full run vouches for.                                                 *)
(***************************************************************************)
EXTENDS PpaCatalog, WellFoundedInduction, TLAPS

(* A set of natural numbers that is not empty has a least one.               *)
LEMMA LeastNat ==
  ASSUME NEW S \in SUBSET Nat, S # {}
  PROVE  \E n \in S : \A m \in S : n <= m
<1>1. PICK n \in S : \A m \in S : <<m, n>> \notin OpToRel(<, Nat)
  BY NatLessThanWellFounded, WFMin, Zenon
<1>2. \A m \in S : ~(m < n)
  BY <1>1, Zenon DEF OpToRel
<1> QED BY <1>2

(* Statistics that were measured, on sources there have been.                *)
Measured(log) == IsParsed(log) => log.stats \in 1 .. rev

TypeInv ==
    /\ TypeOK
    /\ DOMAIN logs = TargetSet /\ DOMAIN stats = Names
    /\ \A t \in TargetSet : Measured(logs[t])
    /\ phase = "ran" => Measured(proc.log)

(* What a child that returned 0 printed.                                    *)
ChildIsFresh ==
    phase = "ran" /\ proc.returncode = 0 =>
        /\ First(todo) \in DOMAIN Builds[rev]
        /\ proc.log = [config |-> Builds[rev][First(todo)], stats |-> rev, depth |-> TRUE]

(* The rows a run without --resume has collected.                           *)
RowsAreFresh ==
    phase # "exit" /\ ~args.resume => metrics \subseteq FreshRows(rev)

(* What is collected and what is left are the targets there are now, and no *)
(* configuration was collected twice.                                       *)
Covering ==
    phase # "exit" =>
        /\ args.target = {} => {row.target : row \in metrics} \cup todo = DOMAIN Builds[rev]
        /\ \A a, b \in metrics : Key(a) = Key(b) => a = b

(* Rows are collected by runs, and are gone when the run has ended.          *)
IInv ==
    /\ TypeInv
    /\ phase = "exit" => metrics = {}
    /\ ChildIsFresh
    /\ RowsAreFresh
    /\ Covering
    /\ CatalogIsComplete

-----------------------------------------------------------------------------
(* The first of the targets that are left is one of them.                    *)
LEMMA FirstIsLeft ==
  ASSUME NEW ts \in SUBSET TargetSet, ts # {}
  PROVE  First(ts) \in ts
<1> DEFINE S == {k \in DOMAIN Targets : Targets[k] \in ts}
<1>1. S # {}
  BY DEF TargetSet
<1>2. S \in SUBSET Nat
  BY TargetsAssumption
<1>3. PICK k \in S : \A i \in S : k <= i
  <2> HIDE DEF S
  <2> QED BY <1>1, <1>2, LeastNat
<1>4. k \in DOMAIN Targets /\ Targets[k] \in ts /\ \A i \in 1 .. k - 1 : Targets[i] \notin ts
  BY <1>2, <1>3, TargetsAssumption
<1> QED BY <1>4 DEF First

(* Failures are counted up to their bound.                                  *)
LEMMA FaultIsBounded ==
  ASSUME NEW bad \in BOOLEAN, Fault(bad), faults \in 0 .. MaxFaults
  PROVE  faults' \in 0 .. MaxFaults
BY BoundAssumption DEF Fault

LEMMA InitEstablishes == Init => IInv
<1> SUFFICES ASSUME Init PROVE IInv
  OBVIOUS
<1>1. args \in Options
  BY TargetsAssumption DEF Init, Options
<1>2. TypeInv
  BY <1>1, BuildsAssumption, BoundAssumption
     DEF Init, TypeInv, TypeOK, Measured, IsParsed
<1> QED BY <1>2 DEF Init, IInv, ChildIsFresh, RowsAreFresh, Covering, CatalogIsComplete, IsCatalog

(* The end of a run that does not touch the catalog, or cuts it off.         *)
LEMMA ExitKeeps ==
  ASSUME IInv, NEW code \in {0, 1}, Exit(code), UNCHANGED rev,
         ppa' \in {ppa, Torn}, faults' \in 0 .. MaxFaults,
         DOMAIN logs' = TargetSet, DOMAIN stats' = Names,
         \A t \in TargetSet : logs'[t] = logs[t] \/ Measured(logs'[t]),
         \A n \in Names : stats'[n] \in {stats[n], NoFile, rev}
  PROVE  IInv'
<1>1. TypeInv'
  BY BuildsAssumption DEF IInv, TypeInv, TypeOK, Exit, Measured
<1>2. CatalogIsComplete'
  BY DEF IInv, TypeInv, TypeOK, CatalogIsComplete, IsCatalog
<1> QED BY <1>1, <1>2 DEF IInv, Exit, ChildIsFresh, RowsAreFresh, Covering

(* The child that returns 0 wrote the statistics it reports.                *)
LEMMA RunTargetKeeps ==
  ASSUME IInv, RunTarget
  PROVE  IInv'
<1>1. /\ phase = "collect" /\ phase' = "ran"
      /\ UNCHANGED <<rev, args, todo, metrics>>
  BY DEF RunTarget
<1>2. ChildIsFresh'
  <2> DEFINE t == First(todo)
             json(wrote) == IF wrote THEN rev ELSE stats[Name[t]]
  <2> SUFFICES ASSUME proc'.returncode = 0
               PROVE  /\ t \in DOMAIN Builds[rev]
                      /\ proc'.log = [config |-> Builds[rev][t], stats |-> rev, depth |-> TRUE]
    BY <1>1 DEF ChildIsFresh
  <2>1. proc' # [returncode |-> 1, log |-> Torn]
    OBVIOUS
  <2>2. /\ t \in DOMAIN Current
        /\ \E o \in {x \in Outcome : ~x.asserted /\ ~x.test_passed} :
           \E wrote \in StatsWritten(o, FALSE) :
              proc' = [returncode |-> IF yosys_success(o, json(wrote), NoFile) THEN 0 ELSE 1,
                       log |-> [config |-> Current[t],
                                stats  |-> yosys_report(json(wrote)).stats,
                                depth  |-> o.return_code = 0]]
    BY <2>1 DEF RunTarget
  <2>3. PICK o \in Outcome, wrote \in BOOLEAN :
           /\ wrote \in StatsWritten(o, FALSE)
           /\ proc' = [returncode |-> IF yosys_success(o, json(wrote), NoFile) THEN 0 ELSE 1,
                       log |-> [config |-> Current[t],
                                stats  |-> yosys_report(json(wrote)).stats,
                                depth  |-> o.return_code = 0]]
    BY <2>2 DEF StatsWritten
  <2>4. o.return_code = 0
    BY <2>3 DEF yosys_success
  <2>5. wrote = TRUE
    BY <2>3, <2>4 DEF StatsWritten
  <2>6. yosys_report(json(wrote)).stats = rev
    BY <2>5 DEF yosys_report
  <2>7. (o.return_code = 0) = TRUE
    BY <2>4
  <2>8. proc'.log = [config |-> Current[t], stats |-> rev, depth |-> TRUE]
    <3>1. proc'.log = [config |-> Current[t],
                       stats  |-> yosys_report(json(wrote)).stats,
                       depth  |-> o.return_code = 0]
      BY <2>3
    <3> HIDE DEF json
    <3> QED BY <2>6, <2>7, <3>1
  <2> QED BY <2>2, <2>8 DEF Current
<1>3. TypeInv'
  <2> DEFINE t == First(todo)
  <2>1. t \in TargetSet /\ faults' \in 0 .. MaxFaults
    <3>1. t \in TargetSet
      BY FirstIsLeft DEF RunTarget, IInv, TypeInv, TypeOK
    <3>2. faults' = faults \/ (faults < MaxFaults /\ faults' = faults + 1)
      BY DEF RunTarget, Fault
    <3> QED BY <3>1, <3>2, BoundAssumption DEF IInv, TypeInv, TypeOK
  <2>2. CASE proc'.log = Torn /\ stats' = stats
    BY <1>1, <2>1, <2>2 DEF RunTarget, IInv, TypeInv, TypeOK, Measured, IsParsed
  <2>3. CASE \E wrote \in BOOLEAN :
                /\ stats' = [stats EXCEPT ![Name[t]] = IF wrote THEN rev ELSE stats[Name[t]]]
                /\ proc'.log.stats = IF wrote THEN rev ELSE stats[Name[t]]
    <3>1. Name[t] \in Names
      BY <2>1 DEF Names
    <3>2. \A n \in Names : stats'[n] \in {stats[n], rev}
      BY <2>3 DEF IInv, TypeInv
    <3>3. IsParsed(proc'.log) => proc'.log.stats \in 1 .. rev
      BY <2>3, <3>1, BuildsAssumption DEF IsParsed, IInv, TypeInv, TypeOK
    <3> QED BY <1>1, <2>1, <2>3, <3>2, <3>3, BuildsAssumption
            DEF RunTarget, IInv, TypeInv, TypeOK, Measured
  <2> QED
    <3>1. CASE proc' = [returncode |-> 1, log |-> Torn] /\ stats' = stats
      BY <2>2, <3>1
    <3>2. CASE \E wrote \in BOOLEAN, code \in {0, 1}, depth \in BOOLEAN :
                    /\ stats' = [stats EXCEPT ![Name[t]] = IF wrote THEN rev ELSE stats[Name[t]]]
                    /\ proc' = [returncode |-> code,
                                log |-> [config |-> Current[t],
                                         stats  |-> yosys_report(IF wrote THEN rev
                                                                 ELSE stats[Name[t]]).stats,
                                         depth  |-> depth]]
      <4>1. PICK wrote \in BOOLEAN, code \in {0, 1}, depth \in BOOLEAN :
                    /\ stats' = [stats EXCEPT ![Name[t]] = IF wrote THEN rev ELSE stats[Name[t]]]
                    /\ proc' = [returncode |-> code,
                                log |-> [config |-> Current[t],
                                         stats  |-> yosys_report(IF wrote THEN rev
                                                                 ELSE stats[Name[t]]).stats,
                                         depth  |-> depth]]
        BY <3>2
      <4>2. proc'.log.stats = IF wrote THEN rev ELSE stats[Name[t]]
        BY <4>1 DEF yosys_report
      <4> QED BY <2>3, <4>1, <4>2
    <3>3. \A o : StatsWritten(o, FALSE) \subseteq BOOLEAN
      BY DEF StatsWritten
    <3> QED BY <3>1, <3>2, <3>3 DEF RunTarget
<1>4. CatalogIsComplete'
  BY DEF RunTarget, IInv, CatalogIsComplete, IsCatalog
<1> QED BY <1>1, <1>2, <1>3, <1>4 DEF IInv, RowsAreFresh, Covering

(* A row that is collected joins the others or ends the run.                *)
LEMMA CollectedKeeps ==
  ASSUME IInv, NEW row, Collected(row), UNCHANGED <<rev, ppa, faults>>,
         phase # "exit", todo # {},
         row.target = First(todo), row.measured \in 1 .. rev,
         ~args.resume => row \in FreshRows(rev),
         DOMAIN logs' = TargetSet, DOMAIN stats' = Names,
         \A t \in TargetSet : logs'[t] = logs[t] \/ Measured(logs'[t]),
         \A n \in Names : stats'[n] \in {stats[n], NoFile, rev}
  PROVE  IInv'
<1>1. CASE Exit(1)
  BY <1>1, ExitKeeps DEF IInv, TypeInv, TypeOK
<1>2. CASE /\ Key(row) \notin {Key(m) : m \in metrics}
           /\ metrics' = metrics \cup {row} /\ todo' = todo \ {First(todo)}
           /\ phase' = "collect" /\ UNCHANGED <<args, exit_code>>
  <2>1. First(todo) \in todo /\ todo \subseteq TargetSet
    BY FirstIsLeft DEF IInv, TypeInv, TypeOK
  <2>2. TypeInv'
    BY <1>2, <2>1, BuildsAssumption DEF IInv, TypeInv, TypeOK, Measured
  <2>3. Covering'
    <3>1. \A a, b \in metrics' : Key(a) = Key(b) => a = b
      BY <1>2 DEF IInv, Covering
    <3>2. {r.target : r \in metrics'} = {r.target : r \in metrics} \cup {First(todo)}
      BY <1>2
    <3> QED BY <1>2, <2>1, <3>1, <3>2 DEF IInv, Covering
  <2>4. CatalogIsComplete'
    BY DEF IInv, CatalogIsComplete, IsCatalog
  <2> QED BY <1>2, <2>2, <2>3, <2>4 DEF IInv, ChildIsFresh, RowsAreFresh
<1> QED BY <1>1, <1>2 DEF Collected

LEMMA SaveLogKeeps ==
  ASSUME IInv, SaveLog
  PROVE  IInv'
<1>1. /\ phase = "ran" /\ UNCHANGED <<rev, ppa, faults>>
      /\ todo # {} /\ First(todo) \in TargetSet
  BY FirstIsLeft DEF SaveLog, IInv, TypeInv, TypeOK
<1>2. /\ DOMAIN logs' = TargetSet /\ DOMAIN stats' = Names
      /\ \A t \in TargetSet : logs'[t] = logs[t] \/ Measured(logs'[t])
      /\ \A n \in Names : stats'[n] \in {stats[n], NoFile, rev}
  BY <1>1 DEF SaveLog, IInv, TypeInv
<1>3. CASE Exit(1)
  BY <1>1, <1>2, <1>3, ExitKeeps DEF IInv, TypeInv, TypeOK
<1>4. CASE /\ proc.returncode = 0 /\ IsParsed(proc.log)
           /\ Collected(parse_log(First(todo), proc.log))
  <2> DEFINE row == parse_log(First(todo), proc.log)
  <2>1. row \in FreshRows(rev)
    BY <1>1, <1>4 DEF IInv, ChildIsFresh, FreshRows
  <2>2. row.target = First(todo) /\ row.measured \in 1 .. rev
    BY <1>1, <1>4 DEF parse_log, IInv, TypeInv, Measured
  <2> HIDE DEF row
  <2> QED BY <1>1, <1>2, <1>4, <2>1, <2>2, CollectedKeeps DEF row
<1> QED BY <1>3, <1>4 DEF SaveLog

LEMMA UseCachedKeeps ==
  ASSUME IInv, UseCached
  PROVE  IInv'
<1> DEFINE row == parse_log(First(todo), logs[First(todo)])
<1>1. /\ phase = "collect" /\ args.resume /\ todo # {}
      /\ First(todo) \in TargetSet /\ IsParsed(logs[First(todo)])
      /\ UNCHANGED <<rev, logs, stats, ppa, faults>>
      /\ Collected(row)
  BY FirstIsLeft DEF UseCached, Cached, disk, IInv, TypeInv, TypeOK
<1>2. row.target = First(todo) /\ row.measured \in 1 .. rev
  BY <1>1 DEF parse_log, IInv, TypeInv, Measured
<1> HIDE DEF row
<1> QED BY <1>1, <1>2, CollectedKeeps DEF IInv, TypeInv

(* A catalog is written only when it is complete.                           *)
LEMMA FinishKeeps ==
  ASSUME IInv, Finish
  PROVE  IInv'
<1>1. /\ phase = "collect" /\ todo = {} /\ UNCHANGED <<rev, logs, stats, faults>>
      /\ \E code \in {0, 1} : Exit(code)
  BY DEF Finish
<1>2. CASE UNCHANGED ppa
  BY <1>1, <1>2, ExitKeeps DEF IInv, TypeInv, TypeOK
<1>3. CASE args.target = {} /\ validate_catalog_coverage(metrics) /\ ppa' = metrics
  <2>1. TypeInv'
    BY <1>1 DEF IInv, TypeInv, TypeOK, Exit, Measured
  <2>2. CatalogIsComplete'
    <3>1. {row.target : row \in metrics} = DOMAIN Builds[rev]
      BY <1>1, <1>3 DEF IInv, Covering
    <3>2. rev \in 1 .. rev
      BY BuildsAssumption DEF IInv, TypeInv, TypeOK
    <3> QED BY <1>1, <1>3, <3>1, <3>2
            DEF IInv, Covering, CatalogIsComplete, validate_catalog_coverage
  <2> QED BY <1>1, <2>1, <2>2 DEF IInv, Exit, ChildIsFresh, RowsAreFresh, Covering
<1> QED BY <1>2, <1>3 DEF Finish

LEMMA KilledKeeps ==
  ASSUME IInv, Killed
  PROVE  IInv'
<1>1. /\ Exit(1) /\ UNCHANGED rev /\ faults' \in 0 .. MaxFaults
      /\ ppa' \in {ppa, Torn}
  BY FaultIsBounded DEF Killed, disk, IInv, TypeInv, TypeOK
<1>2. /\ DOMAIN logs' = TargetSet
      /\ \A t \in TargetSet : logs'[t] = logs[t] \/ Measured(logs'[t])
  BY DEF Killed, disk, IInv, TypeInv, Measured, IsParsed
<1>3. DOMAIN stats' = Names /\ \A n \in Names : stats'[n] \in {stats[n], NoFile, rev}
  BY DEF Killed, disk, IInv, TypeInv
<1> QED BY <1>1, <1>2, <1>3, ExitKeeps

LEMMA StartKeeps ==
  ASSUME IInv, NEW o \in Options, Start(o)
  PROVE  IInv'
<1>1. /\ phase = "exit" /\ metrics = {} /\ args' = o /\ exit_code' = 1
      /\ UNCHANGED <<rev, logs, stats, ppa, metrics>>
  BY DEF Start, disk, IInv
<1>2. CASE /\ todo' = IF o.target # {} THEN o.target ELSE query_targets
           /\ phase' = "collect" /\ UNCHANGED faults
  <2>1. o.target \subseteq TargetSet /\ query_targets \subseteq TargetSet
    BY TargetsAssumption, BuildsAssumption
       DEF Options, query_targets, Current, IInv, TypeInv, TypeOK
  <2>2. TypeInv'
    BY <1>1, <1>2, <2>1 DEF IInv, TypeInv, TypeOK, Measured
  <2>3. Covering'
    BY <1>1, <1>2 DEF Covering, query_targets, Current
  <2> QED BY <1>1, <1>2, <2>2, <2>3
          DEF IInv, ChildIsFresh, RowsAreFresh, CatalogIsComplete, IsCatalog
<1>3. CASE phase' = "exit" /\ Fault(TRUE) /\ UNCHANGED todo
  <2>1. TypeInv'
    BY <1>1, <1>3, FaultIsBounded DEF IInv, TypeInv, TypeOK, Measured
  <2> QED BY <1>1, <1>3, <2>1
          DEF IInv, ChildIsFresh, RowsAreFresh, Covering, CatalogIsComplete, IsCatalog
<1> QED BY <1>2, <1>3 DEF Start

LEMMA EditKeeps ==
  ASSUME IInv, Edit
  PROVE  IInv'
<1>1. /\ phase = "exit" /\ rev' = rev + 1 /\ rev' \in DOMAIN Builds /\ rev \in Nat
      /\ UNCHANGED <<phase, args, todo, metrics, logs, stats, ppa, exit_code, faults>>
  BY BuildsAssumption DEF Edit, run, disk, IInv, TypeInv, TypeOK
<1>2. 1 .. rev \subseteq 1 .. rev'
  BY <1>1
<1>3. TypeInv'
  BY <1>1, <1>2 DEF IInv, TypeInv, TypeOK, Measured
<1>4. CatalogIsComplete'
  BY <1>1, <1>2 DEF IInv, CatalogIsComplete, IsCatalog
<1> QED BY <1>1, <1>3, <1>4 DEF IInv, ChildIsFresh, RowsAreFresh, Covering

LEMMA StepKeeps == IInv /\ [Next]_vars => IInv'
<1> SUFFICES ASSUME IInv, [Next]_vars PROVE IInv'
  OBVIOUS
<1>1. CASE Edit
  BY <1>1, EditKeeps
<1>2. ASSUME NEW o \in Options, Start(o)
      PROVE  IInv'
  BY <1>2, StartKeeps
<1>3. CASE UseCached
  BY <1>3, UseCachedKeeps
<1>4. CASE RunTarget
  BY <1>4, RunTargetKeeps
<1>5. CASE SaveLog
  BY <1>5, SaveLogKeeps
<1>6. CASE Finish
  BY <1>6, FinishKeeps
<1>7. CASE Killed
  BY <1>7, KilledKeeps
<1>8. CASE UNCHANGED vars
  BY <1>8 DEF vars, run, disk, IInv, TypeInv, TypeOK, Measured, ChildIsFresh, RowsAreFresh,
              Covering, CatalogIsComplete, IsCatalog
<1> QED BY <1>1, <1>2, <1>3, <1>4, <1>5, <1>6, <1>7, <1>8 DEF Next

-----------------------------------------------------------------------------
(* The generator, main and what it calls, keeps its options, rows, logs and  *)
(* files of their types; rows are of sources there have been.               *)
THEOREM TypeCorrect == Spec => []TypeOK
<1>1. IInv => TypeOK
  BY DEF IInv, TypeInv
<1> QED BY <1>1, InitEstablishes, StepKeeps, PTL DEF Spec

(* The catalog that main writes is complete, whatever failed, was killed or  *)
(* was resumed before: it covers every documented top, shows no             *)
(* configuration twice, and has one row for each target of some revision.   *)
THEOREM CatalogsAreComplete == Spec => []CatalogIsComplete
<1>1. IInv => CatalogIsComplete
  BY DEF IInv
<1> QED BY <1>1, InitEstablishes, StepKeeps, PTL DEF Spec

(* A full run (main without --target) that does not resume and ends with 0   *)
(* leaves, or confirms, a catalog whose rows are all of this run.           *)
THEOREM FullRunsAreFresh == Spec => FullRunIsFresh
<1>1. ASSUME IInv, [Next]_vars,
             phase # "exit", phase' = "exit", exit_code' = 0,
             ~args.resume, args.target = {}
      PROVE  IsCatalog(ppa') /\ ppa' \subseteq FreshRows(rev)
  <2>1. Finish
    <3>1. ~UNCHANGED vars
      BY <1>1 DEF vars
    <3>2. ~(Edit \/ (\E o \in Options : Start(o)) \/ RunTarget \/ Killed)
      BY <1>1 DEF Edit, Start, RunTarget, Killed, Exit
    <3>3. ~(UseCached \/ SaveLog)
      BY <1>1 DEF UseCached, SaveLog, Collected, Exit
    <3> QED BY <1>1, <3>1, <3>2, <3>3 DEF Next
  <2>2. phase = "collect" /\ ppa' = metrics
    BY <1>1, <2>1 DEF Finish, Exit
  <2>3. metrics \in SUBSET FreshRows(rev)
    BY <1>1, <2>2 DEF IInv, RowsAreFresh
  <2>4. metrics \notin {NoFile, Torn}
    BY <1>1, <2>3, MarkersAssumption DEF IInv, TypeInv, TypeOK
  <2> QED BY <2>2, <2>3, <2>4 DEF IsCatalog
<1>2. IInv /\ [Next]_vars =>
          [phase # "exit" /\ phase' = "exit" /\ exit_code' = 0
             /\ ~args.resume /\ args.target = {} =>
               /\ IsCatalog(ppa')
               /\ ppa' \subseteq FreshRows(rev)]_vars
  BY <1>1
<1> QED BY <1>2, InitEstablishes, StepKeeps, PTL DEF Spec, FullRunIsFresh
=============================================================================
