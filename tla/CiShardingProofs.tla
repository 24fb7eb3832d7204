--------------------------- MODULE CiShardingProofs ---------------------------
(***************************************************************************)
(* Theorems about CiSharding for any suites, any way to split them over     *)
(* shards and jobs, and any number of faults and reruns: what a job that    *)
(* succeeds and a gate that opens say about the tests.                      *)
(***************************************************************************)
EXTENDS CiSharding, FiniteSetTheorems, TLAPS

(* The values of a function on a finite set are finitely many, and as many  *)
(* as its arguments if none occurs twice.                                   *)
LEMMA FiniteImage ==
  ASSUME NEW S, IsFiniteSet(S), NEW f, DOMAIN f = S
  PROVE  /\ IsFiniteSet({f[x] : x \in S})
         /\ (\A x, y \in S : f[x] = f[y] => x = y) =>
                Cardinality({f[x] : x \in S}) = Cardinality(S)
<1> DEFINE T == {f[x] : x \in S}
           g == [x \in S |-> f[x]]
<1>1. g \in Surjection(S, T)
  BY DEF Surjection
<1>2. (\A x, y \in S : f[x] = f[y] => x = y) => g \in Injection(S, T)
  BY DEF Injection, IsInjective
<1>3. /\ IsFiniteSet(T)
      /\ (\A x, y \in S : f[x] = f[y] => x = y) => Cardinality(T) = Cardinality(S)
  <2> HIDE DEF g, T
  <2> QED BY <1>1, <1>2, FS_Surjection
<1> QED BY <1>3

(* The elements of several sets, told apart by the set they are from: a sum  *)
(* of cardinalities is the cardinality of such a set.                       *)
LEMMA FinitePairs ==
  ASSUME NEW S, IsFiniteSet(S), NEW f, DOMAIN f = S, \A u \in S : IsFiniteSet(f[u])
  PROVE  IsFiniteSet(UNION {{u} \X f[u] : u \in S})
<1> DEFINE g == [u \in S |-> {u} \X f[u]]
<1>1. \A u \in S : IsFiniteSet(g[u])
  BY FS_Singleton, FS_Product
<1>2. IsFiniteSet({g[u] : u \in S})
  <2>1. DOMAIN g = S
    OBVIOUS
  <2> HIDE DEF g
  <2> QED BY <2>1, FiniteImage
<1>3. IsFiniteSet(UNION {g[u] : u \in S})
  <2> HIDE DEF g
  <2> QED BY <1>1, <1>2, FS_UNION
<1> QED BY <1>3

(* Two sums of the same numbers are the same.                               *)
LEMMA SumsAgree ==
  ASSUME NEW S, IsFiniteSet(S), NEW f, DOMAIN f = S, NEW g, DOMAIN g = S,
         \A u \in S : IsFiniteSet(f[u]) /\ IsFiniteSet(g[u]),
         \A u \in S : Cardinality(f[u]) = Cardinality(g[u])
  PROVE  Cardinality(UNION {{u} \X f[u] : u \in S}) =
         Cardinality(UNION {{u} \X g[u] : u \in S})
<1> DEFINE P == UNION {{u} \X f[u] : u \in S}
           Q == UNION {{u} \X g[u] : u \in S}
           b == [u \in S |-> CHOOSE h : h \in Bijection(f[u], g[u])]
           F == [p \in P |-> <<p[1], b[p[1]][p[2]]>>]
<1>1. \A u \in S : b[u] \in Bijection(f[u], g[u])
  BY FS_SameCardinalityBij DEF ExistsBijection
<1> HIDE DEF b
<1>2. \A p \in P : p = <<p[1], p[2]>> /\ p[1] \in S /\ p[2] \in f[p[1]]
  OBVIOUS
<1>3. \A u \in S : \A x \in f[u] : <<u, x>> \in P
  OBVIOUS
<1>4. \A u \in S : \A y \in g[u] : <<u, y>> \in Q
  OBVIOUS
<1>5. \A q \in Q : q = <<q[1], q[2]>> /\ q[1] \in S /\ q[2] \in g[q[1]]
  OBVIOUS
<1> HIDE DEF P, Q
<1>6. ASSUME NEW u \in S
      PROVE  /\ \A x \in f[u] : b[u][x] \in g[u]
             /\ \A x, y \in f[u] : b[u][x] = b[u][y] => x = y
             /\ \A y \in g[u] : \E x \in f[u] : b[u][x] = y
  <2>1. b[u] \in Injection(f[u], g[u]) /\ b[u] \in Surjection(f[u], g[u])
    BY <1>1 DEF Bijection
  <2> QED BY <2>1 DEF Injection, Surjection, IsInjective
<1>7. F \in [P -> Q]
  BY <1>2, <1>4, <1>6
<1>8. F \in Injection(P, Q)
  <2>1. ASSUME NEW p \in P, NEW q \in P, F[p] = F[q]
        PROVE  p = q
    BY <1>2, <1>6, <2>1
  <2> QED BY <1>7, <2>1 DEF Injection, IsInjective
<1>9. F \in Surjection(P, Q)
  <2>1. ASSUME NEW q \in Q
        PROVE  \E p \in P : F[p] = q
    <3>1. PICK x \in f[q[1]] : b[q[1]][x] = q[2]
      BY <1>5, <1>6
    <3>2. <<q[1], x>> \in P /\ F[<<q[1], x>>] = q
      BY <1>3, <1>5, <3>1
    <3> QED BY <3>2
  <2> QED BY <1>7, <2>1 DEF Surjection
<1>10. IsFiniteSet(P)
  BY FinitePairs DEF P
<1>11. Cardinality(P) = Cardinality(Q)
  BY <1>8, <1>9, <1>10, FS_Bijection DEF Bijection, ExistsBijection
<1> QED BY <1>11 DEF P, Q

(* The sum of the sizes of disjoint sets is the size of their union.         *)
LEMMA DisjointSum ==
  ASSUME NEW S, IsFiniteSet(S), NEW f, DOMAIN f = S,
         \A u \in S : IsFiniteSet(f[u]),
         \A u, v \in S : u # v => f[u] \cap f[v] = {}
  PROVE  Cardinality(UNION {{u} \X f[u] : u \in S}) = Cardinality(UNION {f[u] : u \in S})
<1> DEFINE P == UNION {{u} \X f[u] : u \in S}
           U == UNION {f[u] : u \in S}
           F == [p \in P |-> p[2]]
<1>1. \A p \in P : p = <<p[1], p[2]>> /\ p[1] \in S /\ p[2] \in f[p[1]]
  OBVIOUS
<1>2. \A x \in U : \E p \in P : p[2] = x
  <2> TAKE x \in U
  <2>1. PICK u \in S : x \in f[u]
    OBVIOUS
  <2>2. <<u, x>> \in P
    BY <2>1
  <2> QED BY <2>2
<1>3. \A p \in P : p[2] \in U
  BY <1>1
<1> HIDE DEF P, U
<1>4. F \in Injection(P, U) /\ F \in Surjection(P, U)
  <2>1. F \in [P -> U]
    BY <1>3
  <2>2. ASSUME NEW p \in P, NEW q \in P, F[p] = F[q]
        PROVE  p = q
    BY <1>1, <2>2
  <2>3. \A x \in U : \E p \in P : F[p] = x
    BY <1>2
  <2> QED BY <2>1, <2>2, <2>3 DEF Injection, Surjection, IsInjective
<1>5. IsFiniteSet(P)
  BY FinitePairs DEF P
<1>6. Cardinality(P) = Cardinality(U)
  BY <1>4, <1>5, FS_Bijection DEF Bijection, ExistsBijection
<1> QED BY <1>6 DEF P, U

Files == Record \cup {NoFile, Torn}
Lists == (SUBSET Labels) \cup {NoFile}
Logs  == [exit_code : {0, 3}, summary : Nat \cup {None}] \cup {NoFile}

Phases == {"query", "partition", "salvage", "mark", "test",
           "finalize", "check", "success", "failure"}

TypeInv ==
    /\ phase \in [Jobs -> Phases]
    /\ turn \in [Jobs -> Nat]
    /\ \A j \in Jobs : turn[j] \in DOMAIN Work[j]
    /\ listing \in [Units -> SUBSET (Labels \cup {BadLine})]
    /\ manifest \in [Units -> Lists]
    /\ record \in [Units -> Files]
    /\ log \in [Units -> Logs]
    /\ passed \in [Units -> SUBSET Labels]
    /\ gate \in {"pending", "success", "failure"}
    /\ faults \in 0 .. MaxFaults /\ reruns \in 0 .. MaxReruns

(* The shards a job has not come to have no record.                         *)
Untouched(j) ==
    \A k \in DOMAIN Work[j] :
        \/ k > turn[j]
        \/ k = turn[j] /\ phase[j] \in {"query", "partition", "salvage"}
        => record[Work[j][k]] = NoFile

(* Bazel is run on a partition that was prepared without error, from the    *)
(* list of tests as it was found.                                           *)
Prepared(j) ==
    phase[j] \in {"test", "finalize"} =>
        /\ record[Here(j)] = prepare_partition(Here(j), listing[Here(j)])
        /\ ~record[Here(j)].errors
        /\ manifest[Here(j)] = record[Here(j)].selected

(* The log speaks of the run whose tests passed.                            *)
Ran(j) ==
    phase[j] = "finalize" =>
        /\ passed[Here(j)] \subseteq manifest[Here(j)]
        /\ log[Here(j)].exit_code \in {0, 3}
        /\ log[Here(j)].summary \in {None, Cardinality(passed[Here(j)]),
                                     Cardinality(manifest[Here(j)]) + 1}

Succeeded(j) == phase[j] = "success" => command_check(j)

(* A record without error is the truth about the shard.                     *)
Clean(r) == IsRecord(r) /\ r.exit_code = 0 /\ ~r.errors

Vouched(u) ==
    Clean(record[u]) =>
        /\ Canonical(listing[u])
        /\ record[u].discovered = listing[u]
        /\ passed[u] = selected_labels(u, listing[u])
        /\ passed[u] # {}
        /\ record[u].selected = passed[u]
        /\ record[u].passing_tests = Cardinality(passed[u])

JobInv(j) == Untouched(j) /\ Prepared(j) /\ Ran(j) /\ Succeeded(j)

Ended(j) == phase[j] \in {"success", "failure"}

(* While the gate is closed or open no job moves.                           *)
GateInv ==
    /\ gate # "pending" => BadgeIsHonest /\ \A j \in Jobs : Ended(j)
    /\ gate = "success" => GreenMeansTested

IInv ==
    /\ TypeInv
    /\ \A j \in Jobs : JobInv(j)
    /\ \A u \in Units : Vouched(u)
    /\ GateInv

-----------------------------------------------------------------------------
(* Where a shard is, and that no other job is there.                        *)
LEMMA Places ==
  ASSUME NEW j \in Jobs, NEW k \in DOMAIN Work[j]
  PROVE  /\ Work[j][k] \in Units
         /\ k \in Nat
         /\ \A i \in Jobs : \A l \in DOMAIN Work[i] :
                Work[i][l] = Work[j][k] => i = j /\ l = k
<1>1. Work[j] \in Seq(Units)
  BY MatrixAssumption
<1>2. k \in Nat /\ Work[j][k] \in Units
  BY <1>1
<1>3. ASSUME NEW i \in Jobs, NEW l \in DOMAIN Work[i], Work[i][l] = Work[j][k]
      PROVE  i = j /\ l = k
  BY <1>3, MatrixAssumption
<1> QED BY <1>2, <1>3

LEMMA HereIsUnit ==
  ASSUME TypeInv, NEW j \in Jobs
  PROVE  /\ Here(j) \in Units
         /\ \A i \in Jobs : \A l \in DOMAIN Work[i] :
                Work[i][l] = Here(j) => i = j /\ l = turn[j]
BY Places DEF TypeInv, Here

(* A partition keeps labels that were found, and its record has the form of  *)
(* a record.                                                                *)
LEMMA PartitionType ==
  ASSUME NEW u \in Units, NEW lines \in SUBSET (Labels \cup {BadLine})
  PROVE  /\ discovered_labels(lines) \in SUBSET Labels
         /\ selected_labels(u, lines) \in SUBSET Labels
         /\ prepare_partition(u, lines) \in Record
<1>1. discovered_labels(lines) \in SUBSET Labels
  BY DEF discovered_labels, Canonical
<1>2. selected_labels(u, lines) \in SUBSET Labels
  BY <1>1 DEF selected_labels
<1> QED BY <1>1, <1>2 DEF prepare_partition, Record

(* A partition without error is one of a list of labels, and keeps some; its *)
(* record does not say yet what Bazel said.                                 *)
LEMMA PartitionClean ==
  ASSUME NEW u \in Units, NEW lines, ~prepare_partition(u, lines).errors
  PROVE  /\ Canonical(lines)
         /\ selected_labels(u, lines) # {}
         /\ prepare_partition(u, lines).exit_code = None
<1>1. prepare_partition(u, lines).errors <=> ~Canonical(lines) \/ selected_labels(u, lines) = {}
  BY Zenon DEF prepare_partition
<1>2. Canonical(lines) /\ selected_labels(u, lines) # {}
  BY <1>1
<1> QED BY <1>2 DEF prepare_partition

(* Files that were not written are not records, and 0 is not None.          *)
LEMMA Markers ==
  /\ \A r \in Record : IsRecord(r)
  /\ ~IsRecord(NoFile) /\ ~IsRecord(Torn)
  /\ \A n \in Int : n # None
  /\ \A r \in Files : IsRecord(r) => r \in Record
BY MarkersAssumption DEF IsRecord, Files

-----------------------------------------------------------------------------
(* A step of job j at its shard leaves the other jobs and shards alone.      *)
OnlyAt(j) ==
    /\ \A u \in Units \ {Here(j)} :
           /\ listing'[u] = listing[u] /\ manifest'[u] = manifest[u]
           /\ record'[u] = record[u] /\ log'[u] = log[u] /\ passed'[u] = passed[u]
    /\ \A i \in Jobs \ {j} : phase'[i] = phase[i] /\ turn'[i] = turn[i]
    /\ gate' = gate
    /\ ~Ended(j)

LEMMA Elsewhere ==
  ASSUME IInv, TypeInv', NEW j \in Jobs, OnlyAt(j), JobInv(j)',
         NEW at \in Units, at = Here(j), Vouched(at)'
  PROVE  IInv'
<1>1. ASSUME NEW i \in Jobs
      PROVE  JobInv(i)'
  <2>1. CASE i = j
    BY <2>1
  <2>2. CASE i # j
    <3>1. /\ phase'[i] = phase[i] /\ turn'[i] = turn[i]
          /\ \A k \in DOMAIN Work[i] : record'[Work[i][k]] = record[Work[i][k]]
      BY <2>2, HereIsUnit, Places DEF IInv, OnlyAt
    <3>2. Here(i)' = Here(i) /\ Here(i) \in Units /\ Here(i) # Here(j)
      BY <2>2, <3>1, HereIsUnit DEF IInv, TypeInv, Here
    <3>3. /\ listing'[Here(i)] = listing[Here(i)] /\ manifest'[Here(i)] = manifest[Here(i)]
          /\ record'[Here(i)] = record[Here(i)] /\ log'[Here(i)] = log[Here(i)]
          /\ passed'[Here(i)] = passed[Here(i)]
      BY <3>2 DEF OnlyAt
    <3>4. Untouched(i)'
      BY <3>1 DEF IInv, JobInv, Untouched
    <3>5. Prepared(i)' /\ Ran(i)'
      BY <3>1, <3>2, <3>3 DEF IInv, JobInv, Prepared, Ran
    <3>6. Succeeded(i)'
      BY <3>1 DEF IInv, JobInv, Succeeded, command_check
    <3> QED BY <3>4, <3>5, <3>6 DEF JobInv
  <2> QED BY <2>1, <2>2
<1>2. ASSUME NEW u \in Units
      PROVE  Vouched(u)'
  <2>1. CASE u = at
    BY <2>1
  <2>2. CASE u # at
    BY <2>2 DEF OnlyAt, IInv, Vouched
  <2> QED BY <2>1, <2>2
<1>3. GateInv'
  <2>1. gate' = "pending"
    BY DEF OnlyAt, IInv, TypeInv, GateInv
  <2> QED BY <2>1 DEF GateInv
<1> QED BY <1>1, <1>2, <1>3 DEF IInv

-----------------------------------------------------------------------------
(* What the helpers of the steps leave as they are.                         *)
LEMMA GoToIsLocal ==
  ASSUME TypeInv, NEW j \in Jobs, NEW p \in Phases, GoTo(j, p)
  PROVE  /\ phase' \in [Jobs -> Phases] /\ phase'[j] = p
         /\ turn' = turn /\ Here(j)' = Here(j)
         /\ \A i \in Jobs \ {j} : phase'[i] = phase[i] /\ turn'[i] = turn[i]
BY DEF GoTo, TypeInv, Here

LEMMA NextShardIsLocal ==
  ASSUME TypeInv, NEW j \in Jobs, NextShard(j)
  PROVE  /\ phase' \in [Jobs -> Phases] /\ phase'[j] \in {"query", "check"}
         /\ turn' \in [Jobs -> Nat]
         /\ \A i \in Jobs : turn'[i] \in DOMAIN Work[i]
         /\ turn'[j] >= turn[j]
         /\ phase'[j] = "query" => turn'[j] = turn[j] + 1 /\ turn'[j] > turn[j]
         /\ phase'[j] = "check" => turn'[j] = turn[j] /\ turn[j] = Len(Work[j])
         /\ \A i \in Jobs \ {j} : phase'[i] = phase[i] /\ turn'[i] = turn[i]
<1>1. Work[j] \in Seq(Units)
  BY MatrixAssumption
<1>2. turn[j] \in Nat /\ turn[j] \in 1 .. Len(Work[j])
  BY <1>1 DEF TypeInv
<1>3. CASE turn[j] < Len(Work[j])
  <2>1. turn' = [turn EXCEPT ![j] = @ + 1] /\ phase' = [phase EXCEPT ![j] = "query"]
    BY <1>3 DEF NextShard
  <2>2. turn[j] + 1 \in DOMAIN Work[j]
    BY <1>1, <1>2, <1>3
  <2> QED BY <1>2, <2>1, <2>2 DEF TypeInv, Phases
<1>4. CASE ~(turn[j] < Len(Work[j]))
  BY <1>2, <1>4 DEF NextShard, TypeInv, Phases
<1> QED BY <1>3, <1>4

LEMMA ChargeIsBounded ==
  ASSUME TypeInv, NEW who, NEW bad \in BOOLEAN, Charge(who, bad)
  PROVE  faults' \in 0 .. MaxFaults
BY BoundsAssumption DEF TypeInv, Charge

-----------------------------------------------------------------------------
(* A job that writes the record of the shard it is at, and does not stay     *)
(* there to begin with it, has not written those to come.                   *)
LEMMA UntouchedAhead ==
  ASSUME IInv, NEW j \in Jobs,
         \A u \in Units \ {Here(j)} : record'[u] = record[u],
         turn'[j] \in Nat, turn'[j] >= turn[j],
         phase'[j] \notin {"query", "partition", "salvage"} \/ turn'[j] > turn[j]
  PROVE  Untouched(j)'
<1> SUFFICES ASSUME NEW k \in DOMAIN Work[j],
                    \/ k > turn'[j]
                    \/ k = turn'[j] /\ phase'[j] \in {"query", "partition", "salvage"}
             PROVE  record'[Work[j][k]] = NoFile
  BY DEF Untouched
<1>1. k \in Nat /\ turn[j] \in Nat
  BY Places DEF IInv, TypeInv
<1>2. k > turn[j]
  BY <1>1
<1>3. Work[j][k] \in Units /\ Work[j][k] # Here(j)
  BY <1>1, <1>2, HereIsUnit, Places DEF IInv
<1>4. record[Work[j][k]] = NoFile
  BY <1>2 DEF IInv, JobInv, Untouched
<1> QED BY <1>3, <1>4

-----------------------------------------------------------------------------
LEMMA QueryKeeps ==
  ASSUME IInv, NEW j \in Jobs, Query(j)
  PROVE  IInv' /\ OnlyAt(j)
<1>u. PICK u \in Units : u = Here(j)
  BY HereIsUnit DEF IInv
<1>1. phase[j] = "query" /\ record[u] = NoFile
  BY <1>u DEF IInv, JobInv, Untouched, TypeInv, Query, Here
<1>2. PICK lines \in (SUBSET Tests[u.suite]) \cup {Tests[u.suite] \cup {BadLine}}, ok \in BOOLEAN :
          /\ Charge(j, lines # Tests[u.suite] \/ ~ok)
          /\ listing' = [listing EXCEPT ![u] = lines]
          /\ GoTo(j, IF ok THEN "partition" ELSE "salvage")
  BY <1>u DEF Query
<1>3. lines \in SUBSET (Labels \cup {BadLine})
  <2>1. u.suite \in Suites
    BY MatrixAssumption
  <2>2. Tests[u.suite] \in SUBSET Labels
    BY <2>1, SuitesAssumption
  <2> QED BY <1>2, <2>2
<1>4. PICK p \in {"partition", "salvage"} : GoTo(j, p)
  BY <1>2
<1>5. TypeInv'
  BY <1>1, <1>2, <1>3, <1>4, GoToIsLocal, ChargeIsBounded DEF IInv, TypeInv, Query, final, Phases
<1>6. OnlyAt(j)
  BY <1>u, <1>1, <1>2, <1>4, GoToIsLocal DEF IInv, TypeInv, OnlyAt, Query, final, Phases, Ended
<1>7. JobInv(j)'
  <2>1. phase'[j] \in {"partition", "salvage"} /\ turn' = turn /\ record' = record
    BY <1>4, GoToIsLocal DEF Query, IInv, Phases
  <2>2. Untouched(j)'
    BY <1>1, <2>1 DEF IInv, JobInv, Untouched
  <2> QED BY <2>1, <2>2 DEF JobInv, Prepared, Ran, Succeeded
<1>8. Vouched(u)'
  BY <1>1, Markers DEF Query, Vouched, Clean
<1> QED BY <1>u, <1>5, <1>6, <1>7, <1>8, Elsewhere

LEMMA PartitionKeeps ==
  ASSUME IInv, NEW j \in Jobs, Partition(j)
  PROVE  IInv' /\ OnlyAt(j)
<1>u. PICK u \in Units : u = Here(j)
  BY HereIsUnit DEF IInv
<1> DEFINE r == prepare_partition(u, listing[u])
<1>1. /\ phase[j] \in {"partition", "salvage"}
      /\ manifest' = [manifest EXCEPT ![u] = r.selected]
      /\ record' = [record EXCEPT ![u] = r]
      /\ UNCHANGED <<listing, log, passed, gate, faults, reruns>>
  BY <1>u DEF Partition, final
<1>2. r \in Record /\ IsRecord(r) /\ r.exit_code # 0
  <2>1. listing[u] \in SUBSET (Labels \cup {BadLine})
    BY <1>1 DEF IInv, TypeInv
  <2>2. r \in Record /\ IsRecord(r)
    BY <1>1, <2>1, PartitionType, Markers
  <2> QED BY <2>2, Markers DEF prepare_partition
<1>3. \/ GoTo(j, "mark")
      \/ NextShard(j)
      \/ ~r.errors /\ GoTo(j, "test")
  <2>1. CASE phase[j] = "salvage"
    BY <1>u, <2>1 DEF Partition
  <2>2. CASE phase[j] = "partition" /\ r.errors
    BY <1>u, <2>2 DEF Partition
  <2>3. CASE phase[j] = "partition" /\ ~r.errors
    BY <1>u, <2>3 DEF Partition
  <2>4. r.errors \in BOOLEAN
    BY <1>2 DEF Record
  <2> QED BY <1>1, <2>1, <2>2, <2>3, <2>4
<1>4. /\ phase' \in [Jobs -> Phases] /\ turn' \in [Jobs -> Nat]
      /\ \A i \in Jobs : turn'[i] \in DOMAIN Work[i]
      /\ \A i \in Jobs \ {j} : phase'[i] = phase[i] /\ turn'[i] = turn[i]
      /\ \/ phase'[j] \in {"mark", "check"} /\ turn'[j] >= turn[j]
         \/ phase'[j] = "query" /\ turn'[j] > turn[j]
         \/ phase'[j] = "test" /\ turn' = turn /\ ~r.errors
  BY <1>3, GoToIsLocal, NextShardIsLocal DEF IInv, TypeInv, Phases
<1>5. TypeInv'
  <2>1. r.selected \in Lists
    BY <1>2 DEF Record, Lists
  <2> QED BY <1>1, <1>2, <1>4, <2>1 DEF IInv, TypeInv, Files
<1>6. OnlyAt(j)
  BY <1>u, <1>1, <1>4 DEF IInv, TypeInv, OnlyAt, Ended
<1>7. JobInv(j)'
  <2>1. \A v \in Units \ {Here(j)} : record'[v] = record[v]
    BY <1>6 DEF OnlyAt
  <2>2. Untouched(j)'
    BY <1>4, <2>1, UntouchedAhead DEF IInv, TypeInv
  <2>3. Prepared(j)'
    <3>1. CASE phase'[j] = "test"
      <4>1. Here(j)' = u /\ ~r.errors
        BY <1>u, <1>4, <3>1 DEF Here
      <4>2. record'[u] = r /\ manifest'[u] = r.selected /\ listing'[u] = listing[u]
        BY <1>1 DEF IInv, TypeInv
      <4> QED BY <4>1, <4>2 DEF Prepared
    <3> QED BY <1>4, <3>1 DEF Prepared
  <2> QED BY <1>4, <2>2, <2>3 DEF JobInv, Ran, Succeeded
<1>8. Vouched(u)'
  BY <1>1, <1>2 DEF IInv, TypeInv, Vouched, Clean
<1> QED BY <1>u, <1>5, <1>6, <1>7, <1>8, Elsewhere

LEMMA MarkKeeps ==
  ASSUME IInv, NEW j \in Jobs, MarkDiscoveryFailure(j)
  PROVE  IInv' /\ OnlyAt(j)
<1>u. PICK u \in Units : u = Here(j)
  BY HereIsUnit DEF IInv
<1>1. /\ phase[j] = "mark" /\ NextShard(j)
      /\ record' = IF IsRecord(record[u])
                   THEN [record EXCEPT ![u] = mark_discovery_failure(@, 1)]
                   ELSE record
      /\ UNCHANGED <<listing, manifest, log, passed, gate, faults, reruns>>
  BY <1>u DEF MarkDiscoveryFailure, final
<1>2. /\ record' \in [Units -> Files]
      /\ \A v \in Units \ {u} : record'[v] = record[v]
      /\ ~Clean(record'[u])
  <2>1. CASE IsRecord(record[u])
    <3> DEFINE r == mark_discovery_failure(record[u], 1)
    <3>1. record[u] \in Record
      BY <2>1, Markers DEF IInv, TypeInv
    <3>2. r \in Record /\ r.errors
      BY <3>1 DEF mark_discovery_failure, Record
    <3>3. record' = [record EXCEPT ![u] = r]
      BY <1>1, <2>1
    <3> HIDE DEF r
    <3> QED BY <3>2, <3>3 DEF IInv, TypeInv, Files, Clean
  <2>2. CASE ~IsRecord(record[u])
    BY <1>1, <2>2 DEF IInv, TypeInv, Clean
  <2> QED BY <2>1, <2>2
<1>3. TypeInv'
  BY <1>1, <1>2, NextShardIsLocal DEF IInv, TypeInv
<1>4. OnlyAt(j)
  BY <1>u, <1>1, <1>2, NextShardIsLocal DEF IInv, OnlyAt, Ended
<1>5. JobInv(j)'
  <2>1. Untouched(j)'
    BY <1>u, <1>1, <1>2, NextShardIsLocal, UntouchedAhead DEF IInv
  <2> QED BY <1>1, <2>1, NextShardIsLocal DEF IInv, JobInv, Prepared, Ran, Succeeded
<1>6. Vouched(u)'
  BY <1>2 DEF Vouched
<1> QED BY <1>u, <1>3, <1>4, <1>5, <1>6, Elsewhere

LEMMA RunBazelKeeps ==
  ASSUME IInv, NEW j \in Jobs, RunBazel(j)
  PROVE  IInv' /\ OnlyAt(j)
<1>u. PICK u \in Units : u = Here(j)
  BY HereIsUnit DEF IInv
<1>1. /\ phase[j] = "test" /\ GoTo(j, "finalize")
      /\ UNCHANGED <<listing, manifest, record, gate, reruns>>
  BY DEF RunBazel, final
<1>a. PICK ok \in SUBSET manifest[u], code \in {0, 3} :
          \E summary \in {None, Cardinality(ok), Cardinality(manifest[u]) + 1} :
              /\ Charge(j, ok # manifest[u] \/ code # 0 \/ summary # Cardinality(manifest[u]))
              /\ passed' = [passed EXCEPT ![u] = ok]
              /\ log' = [log EXCEPT ![u] = [exit_code |-> code, summary |-> summary]]
  BY <1>u DEF RunBazel
<1>2. PICK summary \in {None, Cardinality(ok), Cardinality(manifest[u]) + 1} :
          /\ Charge(j, ok # manifest[u] \/ code # 0 \/ summary # Cardinality(manifest[u]))
          /\ passed' = [passed EXCEPT ![u] = ok]
          /\ log' = [log EXCEPT ![u] = [exit_code |-> code, summary |-> summary]]
  BY <1>a
<1>3. /\ record[u] = prepare_partition(u, listing[u]) /\ ~record[u].errors
      /\ manifest[u] = record[u].selected
  BY <1>u, <1>1 DEF IInv, JobInv, Prepared
<1>4. manifest[u] \in SUBSET Labels
  <2>1. prepare_partition(u, listing[u]) \in Record
    BY PartitionType DEF IInv, TypeInv
  <2> QED BY <1>3, <2>1 DEF Record
<1>5. [exit_code |-> code, summary |-> summary] \in Logs
  <2>1. ok \in SUBSET Labels /\ IsFiniteSet(Labels)
    BY <1>4, SuitesAssumption
  <2>2. IsFiniteSet(ok) /\ IsFiniteSet(manifest[u])
    BY <1>4, <2>1, FS_Subset
  <2>3. Cardinality(ok) \in Nat /\ Cardinality(manifest[u]) \in Nat
    BY <2>2, FS_CardinalityType
  <2> QED BY <1>2, <2>3 DEF Logs
<1>6. TypeInv'
  <2>1. faults' \in 0 .. MaxFaults
    BY <1>2, ChargeIsBounded DEF IInv
  <2>2. passed' \in [Units -> SUBSET Labels] /\ log' \in [Units -> Logs]
    BY <1>2, <1>4, <1>5 DEF IInv, TypeInv
  <2> QED BY <1>1, <2>1, <2>2, GoToIsLocal DEF IInv, TypeInv, Phases
<1>7. OnlyAt(j)
  BY <1>u, <1>1, <1>2, GoToIsLocal DEF IInv, TypeInv, OnlyAt, Phases, Ended
<1>8. phase'[j] = "finalize" /\ turn' = turn /\ Here(j)' = u
  BY <1>u, <1>1, GoToIsLocal DEF IInv, Phases
<1>9. JobInv(j)'
  <2>1. Untouched(j)'
    BY <1>1, <1>8, UntouchedAhead DEF IInv, TypeInv
  <2>2. Prepared(j)'
    BY <1>1, <1>3, <1>8 DEF Prepared
  <2>3. Ran(j)'
    <3>1. passed'[u] = ok /\ log'[u] = [exit_code |-> code, summary |-> summary]
      BY <1>2 DEF IInv, TypeInv
    <3> QED BY <1>1, <1>2, <1>8, <3>1 DEF Ran
  <2> QED BY <1>8, <2>1, <2>2, <2>3 DEF JobInv, Succeeded
<1>10. Vouched(u)'
  <2>1. record[u].exit_code = None
    <3>1. ~prepare_partition(u, listing[u]).errors
      BY <1>3, Zenon
    <3> QED BY <1>3, <3>1, PartitionClean
  <2>2. ~Clean(record[u])
    BY <2>1, Markers DEF Clean
  <2> QED BY <1>1, <2>2 DEF Vouched
<1> QED BY <1>u, <1>6, <1>7, <1>9, <1>10, Elsewhere

(* The fields of a result.                                                  *)
LEMMA FinalizeFields ==
  ASSUME NEW r \in Record, NEW l, l.exit_code \in {0, 3},
         l.summary \in Nat \cup {None}
  PROVE  /\ finalize_result(r, l) \in Record
         /\ finalize_result(r, l).discovered = r.discovered
         /\ finalize_result(r, l).selected = r.selected
         /\ Clean(finalize_result(r, l)) =>
                /\ l.summary = Cardinality(r.selected)
                /\ finalize_result(r, l).passing_tests = Cardinality(r.selected)
<1> DEFINE passing == IF l.summary = None THEN 0 ELSE l.summary
           bad == \/ l.exit_code = 0 /\ l.summary = None
                  \/ passing > Cardinality(r.selected)
                  \/ l.exit_code = 0 /\ passing # Cardinality(r.selected)
           code == IF bad THEN 4 ELSE l.exit_code
<1>1. finalize_result(r, l) = [r EXCEPT !.passing_tests = passing,
                                        !.exit_code = code,
                                        !.errors = @ \/ bad]
  BY Zenon DEF finalize_result
<1>2. passing \in Nat /\ code \in Nat /\ bad \in BOOLEAN
  OBVIOUS
<1>3. code = 0 => l.summary = Cardinality(r.selected) /\ passing = Cardinality(r.selected)
  OBVIOUS
<1> HIDE DEF passing, bad, code
<1>4. finalize_result(r, l).exit_code = code
  BY <1>1 DEF Record
<1> QED BY <1>1, <1>2, <1>3, <1>4 DEF Record, Clean

(* A result without error is of a run in which every selected test passed.   *)
LEMMA FinalizeIsExact ==
  ASSUME NEW r \in Record, NEW l, NEW ok \in SUBSET r.selected,
         l.summary \in {None, Cardinality(ok), Cardinality(r.selected) + 1},
         l.summary = Cardinality(r.selected)
  PROVE  ok = r.selected
<1>1. r.selected \in SUBSET Labels /\ IsFiniteSet(Labels)
  BY SuitesAssumption DEF Record
<1>2. IsFiniteSet(r.selected)
  BY <1>1, FS_Subset
<1>3. Cardinality(r.selected) \in Nat
  BY <1>2, FS_CardinalityType
<1>4. Cardinality(ok) = Cardinality(r.selected)
  BY <1>3, Markers
<1> QED BY <1>2, <1>4, FS_Subset

(* The result that finalize writes is a record, and if it is without error   *)
(* the shard ran all of its tests, which are what Bazel listed for it.       *)
LEMMA FinalizeVouches ==
  ASSUME IInv, NEW j \in Jobs, phase[j] = "finalize", NEW u \in Units, u = Here(j)
  PROVE  LET r == finalize_result(record[u], log[u])
         IN  /\ r \in Record
             /\ Clean(r) => /\ Canonical(listing[u])
                            /\ r.discovered = listing[u]
                            /\ passed[u] = selected_labels(u, listing[u])
                            /\ passed[u] # {}
                            /\ r.selected = passed[u]
                            /\ r.passing_tests = Cardinality(passed[u])
<1> DEFINE r == finalize_result(record[u], log[u])
<1>1. /\ record[u] = prepare_partition(u, listing[u]) /\ ~record[u].errors
      /\ manifest[u] = record[u].selected
      /\ passed[u] \subseteq manifest[u]
      /\ log[u].exit_code \in {0, 3}
      /\ log[u].summary \in {None, Cardinality(passed[u]), Cardinality(manifest[u]) + 1}
  BY DEF IInv, JobInv, Prepared, Ran
<1>2. record[u] \in Record /\ ~prepare_partition(u, listing[u]).errors
  <2>1. record[u] \in Record
    BY <1>1, PartitionType DEF IInv, TypeInv
  <2>2. ~prepare_partition(u, listing[u]).errors
    BY <1>1, Zenon
  <2> QED BY <2>1, <2>2
<1>3. log[u].summary \in Nat \cup {None}
  <2>1. record[u].selected \in SUBSET Labels /\ passed[u] \in SUBSET Labels
    BY <1>2 DEF Record, IInv, TypeInv
  <2>2. Cardinality(passed[u]) \in Nat /\ Cardinality(manifest[u]) \in Nat
    BY <1>1, <2>1, SuitesAssumption, FS_Subset, FS_CardinalityType
  <2> QED BY <1>1, <2>2
<1>4. /\ r \in Record
      /\ r.discovered = record[u].discovered /\ r.selected = record[u].selected
      /\ Clean(r) => /\ log[u].summary = Cardinality(record[u].selected)
                     /\ r.passing_tests = Cardinality(record[u].selected)
  BY <1>1, <1>2, <1>3, FinalizeFields
<1> HIDE DEF r
<1>5. ASSUME Clean(r)
      PROVE  /\ Canonical(listing[u])
             /\ r.discovered = listing[u]
             /\ passed[u] = selected_labels(u, listing[u])
             /\ passed[u] # {}
             /\ r.selected = passed[u]
             /\ r.passing_tests = Cardinality(passed[u])
  <2>1. passed[u] = record[u].selected
    BY <1>1, <1>2, <1>4, <1>5, FinalizeIsExact
  <2>2. Canonical(listing[u]) /\ selected_labels(u, listing[u]) # {}
    BY <1>2, PartitionClean
  <2>3. /\ record[u].selected = selected_labels(u, listing[u])
        /\ record[u].discovered = discovered_labels(listing[u])
    BY <1>1 DEF prepare_partition
  <2> QED BY <1>4, <1>5, <2>1, <2>2, <2>3 DEF discovered_labels
<1> QED BY <1>4, <1>5 DEF r

LEMMA FinalizeKeeps ==
  ASSUME IInv, NEW j \in Jobs, Finalize(j)
  PROVE  IInv' /\ OnlyAt(j)
<1>u. PICK u \in Units : u = Here(j)
  BY HereIsUnit DEF IInv
<1> DEFINE r == finalize_result(record[u], log[u])
<1>1. /\ phase[j] = "finalize" /\ NextShard(j)
      /\ record' = [record EXCEPT ![u] = r]
      /\ UNCHANGED <<listing, manifest, log, passed, gate, faults, reruns>>
  BY <1>u DEF Finalize, final
<1>2. /\ r \in Record
      /\ Clean(r) => /\ Canonical(listing[u])
                     /\ r.discovered = listing[u]
                     /\ passed[u] = selected_labels(u, listing[u])
                     /\ passed[u] # {}
                     /\ r.selected = passed[u]
                     /\ r.passing_tests = Cardinality(passed[u])
  BY <1>u, <1>1, FinalizeVouches
<1> HIDE DEF r
<1>3. TypeInv'
  BY <1>1, <1>2, NextShardIsLocal DEF IInv, TypeInv, Files
<1>4. OnlyAt(j)
  BY <1>u, <1>1, NextShardIsLocal DEF IInv, TypeInv, OnlyAt, Ended
<1>5. JobInv(j)'
  <2>1. \A v \in Units \ {Here(j)} : record'[v] = record[v]
    BY <1>4 DEF OnlyAt
  <2>2. Untouched(j)'
    BY <1>1, <2>1, NextShardIsLocal, UntouchedAhead DEF IInv
  <2> QED BY <1>1, <2>2, NextShardIsLocal DEF IInv, JobInv, Prepared, Ran, Succeeded
<1>6. Vouched(u)'
  BY <1>1, <1>2 DEF IInv, TypeInv, Vouched
<1> QED BY <1>u, <1>3, <1>4, <1>5, <1>6, Elsewhere

(* What a helper that dies leaves.                                          *)
LEMMA DieKeeps ==
  ASSUME IInv, NEW j \in Jobs, Die(j)
  PROVE  IInv' /\ OnlyAt(j)
<1>u. PICK u \in Units : u = Here(j)
  BY HereIsUnit DEF IInv
<1>1. /\ phase[j] \in {"query", "partition", "salvage", "mark", "test", "finalize"}
      /\ Charge(j, TRUE)
      /\ UNCHANGED <<listing, log, passed, gate, reruns>>
  BY DEF Die, final
<1>2. selected_labels(u, listing[u]) \in SUBSET Labels
  BY PartitionType DEF IInv, TypeInv
<1>3. /\ manifest' \in [Units -> Lists]
      /\ \A v \in Units \ {u} : manifest'[v] = manifest[v]
      /\ \/ record' = record
         \/ record' = [record EXCEPT ![u] = Torn]
         \/ record' = [record EXCEPT ![u] = prepare_partition(u, listing[u])]
         \/ /\ IsRecord(record[u])
            /\ record' = [record EXCEPT ![u] = mark_discovery_failure(record[u], 1)]
         \/ /\ phase[j] = "finalize"
            /\ record' = [record EXCEPT ![u] = finalize_result(record[u], log[u])]
  <2>1. CASE phase[j] \in {"query", "test"} /\ UNCHANGED <<manifest, record>>
    BY <2>1 DEF IInv, TypeInv
  <2>2. CASE \E part \in SUBSET selected_labels(u, listing[u]) :
                 manifest' = [manifest EXCEPT ![u] = part] /\ UNCHANGED record
    BY <1>2, <2>2 DEF IInv, TypeInv, Lists
  <2>3. CASE /\ manifest' = [manifest EXCEPT ![u] = selected_labels(u, listing[u])]
             /\ \E r \in {Torn, prepare_partition(u, listing[u])} :
                    record' = [record EXCEPT ![u] = r]
    BY <1>2, <2>3 DEF IInv, TypeInv, Lists
  <2>4. CASE /\ UNCHANGED manifest
             /\ \E r \in {record[u], Torn} : record' = [record EXCEPT ![u] = r]
    BY <2>4 DEF IInv, TypeInv
  <2>5. CASE /\ IsRecord(record[u]) /\ UNCHANGED manifest
             /\ record' = [record EXCEPT ![u] = mark_discovery_failure(@, 1)]
    BY <2>5 DEF IInv, TypeInv
  <2>6. CASE /\ phase[j] = "finalize" /\ UNCHANGED manifest
             /\ record' = [record EXCEPT ![u] = finalize_result(@, log[u])]
    BY <2>6 DEF IInv, TypeInv
  <2> QED BY <1>u, <2>1, <2>2, <2>3, <2>4, <2>5, <2>6 DEF Die
<1>4. /\ record' \in [Units -> Files]
      /\ \A v \in Units \ {u} : record'[v] = record[v]
      /\ Vouched(u)'
  <2>1. ASSUME NEW r \in Files, ~Clean(r), record' = [record EXCEPT ![u] = r]
        PROVE  /\ record' \in [Units -> Files]
               /\ \A v \in Units \ {u} : record'[v] = record[v]
               /\ Vouched(u)'
    <3>1. record'[u] = r
      BY <2>1 DEF IInv, TypeInv
    <3>2. Vouched(u)'
      BY <2>1, <3>1 DEF Vouched
    <3> QED BY <2>1, <3>2 DEF IInv, TypeInv
  <2>2. CASE record' = record
    BY <1>1, <2>2 DEF IInv, TypeInv, Vouched
  <2>3. CASE record' = [record EXCEPT ![u] = Torn]
    <3>1. Torn \in Files /\ ~Clean(Torn)
      BY Markers DEF Files, Clean
    <3> QED BY <2>1, <2>3, <3>1
  <2>4. CASE record' = [record EXCEPT ![u] = prepare_partition(u, listing[u])]
    <3>1. prepare_partition(u, listing[u]) \in Files
      BY PartitionType DEF IInv, TypeInv, Files
    <3>2. prepare_partition(u, listing[u]).exit_code # 0
      BY Markers DEF prepare_partition
    <3>3. ~Clean(prepare_partition(u, listing[u]))
      BY <3>2, Zenon DEF Clean
    <3> QED BY <2>1, <2>4, <3>1, <3>3, Zenon
  <2>5. CASE /\ IsRecord(record[u])
             /\ record' = [record EXCEPT ![u] = mark_discovery_failure(record[u], 1)]
    <3>1. record[u] \in Record
      BY <2>5, Markers DEF IInv, TypeInv
    <3>2. mark_discovery_failure(record[u], 1) \in Record
      BY <3>1 DEF mark_discovery_failure, Record
    <3>3. mark_discovery_failure(record[u], 1).errors
      BY <3>1 DEF mark_discovery_failure, Record
    <3>4. ~Clean(mark_discovery_failure(record[u], 1))
      BY <3>3, Zenon DEF Clean
    <3>5. mark_discovery_failure(record[u], 1) \in Files
      BY <3>2, Zenon DEF Files
    <3> QED BY <2>1, <2>5, <3>4, <3>5, Zenon
  <2>6. CASE /\ phase[j] = "finalize"
             /\ record' = [record EXCEPT ![u] = finalize_result(record[u], log[u])]
    <3> DEFINE r == finalize_result(record[u], log[u])
    <3>1. /\ r \in Record
          /\ Clean(r) => /\ Canonical(listing[u])
                         /\ r.discovered = listing[u]
                         /\ passed[u] = selected_labels(u, listing[u])
                         /\ passed[u] # {}
                         /\ r.selected = passed[u]
                         /\ r.passing_tests = Cardinality(passed[u])
      BY <1>u, <2>6, FinalizeVouches
    <3>2. record' = [record EXCEPT ![u] = r]
      BY <2>6
    <3> HIDE DEF r
    <3>3. Vouched(u)'
      BY <1>1, <3>1, <3>2 DEF IInv, TypeInv, Vouched
    <3> QED BY <3>1, <3>2, <3>3 DEF IInv, TypeInv, Files
  <2> QED BY <1>3, <2>2, <2>3, <2>4, <2>5, <2>6
<1>5. NextShard(j) \/ GoTo(j, "check") \/ GoTo(j, "mark")
  BY DEF Die
<1>6. /\ phase' \in [Jobs -> Phases] /\ turn' \in [Jobs -> Nat]
      /\ \A i \in Jobs : turn'[i] \in DOMAIN Work[i]
      /\ \A i \in Jobs \ {j} : phase'[i] = phase[i] /\ turn'[i] = turn[i]
      /\ turn'[j] >= turn[j]
      /\ phase'[j] \in {"query", "check", "mark"}
      /\ phase'[j] = "query" => turn'[j] > turn[j]
  BY <1>5, GoToIsLocal, NextShardIsLocal DEF IInv, TypeInv, Phases
<1>7. TypeInv'
  BY <1>1, <1>3, <1>4, <1>6, ChargeIsBounded DEF IInv, TypeInv
<1>8. OnlyAt(j)
  BY <1>u, <1>1, <1>3, <1>4, <1>6 DEF OnlyAt, Ended
<1>9. JobInv(j)'
  <2>1. Untouched(j)'
    BY <1>u, <1>4, <1>6, UntouchedAhead
  <2> QED BY <1>6, <2>1 DEF JobInv, Prepared, Ran, Succeeded
<1> QED BY <1>u, <1>4, <1>7, <1>8, <1>9, Elsewhere

LEMMA CheckKeeps ==
  ASSUME IInv, NEW j \in Jobs, Check(j)
  PROVE  IInv' /\ OnlyAt(j)
<1>u. PICK u \in Units : u = Here(j)
  BY HereIsUnit DEF IInv
<1>1. /\ phase[j] = "check"
      /\ UNCHANGED <<listing, manifest, record, log, passed, gate, faults, reruns>>
  BY DEF Check, files, final
<1>2. PICK p \in {"success", "failure"} :
          GoTo(j, p) /\ (p = "success" => command_check(j))
  BY DEF Check
<1>3. TypeInv'
  BY <1>1, <1>2, GoToIsLocal DEF IInv, TypeInv, Phases
<1>4. OnlyAt(j)
  BY <1>1, <1>2, GoToIsLocal DEF IInv, OnlyAt, Phases, Ended
<1>5. JobInv(j)'
  <2>1. phase'[j] = p /\ turn' = turn
    BY <1>2, GoToIsLocal DEF IInv, Phases
  <2>2. Untouched(j)'
    BY <1>1, <2>1, UntouchedAhead DEF IInv, TypeInv
  <2>3. Succeeded(j)'
    BY <1>1, <1>2, <2>1 DEF Succeeded, command_check
  <2> QED BY <2>1, <2>2, <2>3 DEF JobInv, Prepared, Ran
<1>6. Vouched(u)'
  BY <1>1 DEF IInv, Vouched
<1> QED BY <1>u, <1>3, <1>4, <1>5, <1>6, Elsewhere

-----------------------------------------------------------------------------
(* Two shards of a suite with the same index are one.                       *)
LEMMA IndexIsIdentity ==
  ASSUME NEW u \in Units, NEW v \in Units,
         u.suite = v.suite, u.shard_index = v.shard_index
  PROVE  u = v
<1>1. u.shard_count = v.shard_count
  BY MatrixAssumption
<1>2. u \in [suite : Suites, shard_index : Nat, shard_count : Nat]
  BY MatrixAssumption
<1>3. v \in [suite : Suites, shard_index : Nat, shard_count : Nat]
  BY MatrixAssumption
<1> QED BY <1>1, <1>2, <1>3

(* If the aggregation has no complaint, no file was lost on the way to it    *)
(* and the shards of a suite found the same tests.                          *)
LEMMA NothingLost ==
  ASSUME IInv, NEW s \in Suites, NEW got,
         got = record \/ \E w \in Units, r \in {NoFile, Torn} : got = [record EXCEPT ![w] = r],
         AllAccepted(s, got)
  PROVE  \A u \in Units : u.suite = s => u \in Accepted(s, got) /\ got[u] = record[u]
<1> SUFFICES ASSUME NEW u \in Units, u.suite = s
             PROVE  u \in Accepted(s, got) /\ got[u] = record[u]
  OBVIOUS
<1>1. u.shard_index \in 0 .. Expected[s] - 1
  BY MatrixAssumption, SuitesAssumption
<1>2. PICK v \in Accepted(s, got) : v.shard_index = u.shard_index
  BY <1>1 DEF AllAccepted
<1>3. v \in Units /\ v.suite = s /\ IsRecord(got[v])
  BY <1>2 DEF Accepted
<1>4. v = u
  BY <1>2, <1>3, IndexIsIdentity
<1>5. got[u] = record[u]
  BY <1>3, <1>4, Markers DEF IInv, TypeInv
<1> QED BY <1>2, <1>4, <1>5

LEMMA SameDiscovery ==
  ASSUME NEW s, NEW got, Agree(s, got),
         \A w \in Accepted(s, got) : got[w].discovered \in SUBSET Labels,
         NEW u \in Accepted(s, got), NEW v \in Accepted(s, got)
  PROVE  got[u].discovered = got[v].discovered
<1> DEFINE D == Discoveries(s, got)
<1>1. IsFiniteSet(SUBSET Labels)
  BY SuitesAssumption, FS_SUBSET
<1>2. D \in SUBSET (SUBSET Labels)
  BY DEF Discoveries
<1>3. IsFiniteSet(D)
  BY <1>1, <1>2, FS_Subset
<1>4. Cardinality(D) \in Nat /\ Cardinality(D) <= 1
  BY <1>3, FS_CardinalityType DEF Agree
<1>5. got[u].discovered \in D /\ got[v].discovered \in D
  BY DEF Discoveries
<1>6. Cardinality(D) # 0
  BY <1>3, <1>5, FS_EmptySet
<1>7. Cardinality(D) = 1
  BY <1>4, <1>6
<1> HIDE DEF D
<1>8. PICK d : D = {d}
  BY <1>3, <1>7, FS_Singleton, Zenon
<1> QED BY <1>5, <1>8

(* If every shard runs what it keeps of one list, the shards that run a test *)
(* are those its hash falls on.                                             *)
LEMMA HashDecides ==
  ASSUME NEW s \in Suites, NEW all \in SUBSET Labels, Canonical(all), NEW l \in all
  PROVE  /\ Hash[l] % Expected[s] \in 0 .. Expected[s] - 1
         /\ \A u \in Units : u.suite = s =>
                (l \in selected_labels(u, all) <=> u.shard_index = Hash[l] % Expected[s])
<1>1. Hash[l] \in Nat /\ Expected[s] \in Nat \ {0}
  BY SuitesAssumption
<1>2. Hash[l] % Expected[s] \in 0 .. Expected[s] - 1
  BY <1>1
<1> QED BY <1>2, MatrixAssumption DEF selected_labels, discovered_labels, shard_for_label

(* What the aggregation knows of a shard of a suite without error.           *)
LEMMA PassingShard ==
  ASSUME IInv, NEW s \in Suites, NEW got, NEW lists,
         got = record \/ \E w \in Units, r \in {NoFile, Torn} : got = [record EXCEPT ![w] = r],
         SuitePasses(s, got, lists),
         NEW u \in Units, u.suite = s
  PROVE  /\ u \in Accepted(s, got)
         /\ Canonical(listing[u]) /\ listing[u] \in SUBSET Labels
         /\ got[u].discovered = listing[u]
         /\ got[u].selected = passed[u]
         /\ got[u].passing_tests = Cardinality(passed[u])
         /\ passed[u] = selected_labels(u, listing[u])
         /\ passed[u] # {}
<1>1. u \in Accepted(s, got) /\ got[u] = record[u]
  BY NothingLost DEF SuitePasses
<1>2. Clean(got[u])
  BY <1>1 DEF SuitePasses, Accepted, Clean
<1>3. Canonical(listing[u]) /\ listing[u] \in SUBSET (Labels \cup {BadLine})
  BY <1>1, <1>2 DEF IInv, TypeInv, Vouched
<1> QED BY <1>1, <1>2, <1>3 DEF IInv, Vouched, Canonical

(* The shards of such a suite found the same tests, and each of them passed  *)
(* on one shard.                                                            *)
AllPassedOnce(shards, all) ==
    /\ all # {}
    /\ \A u \in shards : listing[u] = all
    /\ UNION {passed[u] : u \in shards} = all
    /\ \A l \in all : Cardinality({v \in shards : l \in passed[v]}) = 1

LEMMA PassingSuite ==
  ASSUME IInv, NEW s \in Suites, NEW got, NEW lists,
         got = record \/ \E w \in Units, r \in {NoFile, Torn} : got = [record EXCEPT ![w] = r],
         SuitePasses(s, got, lists),
         NEW shards, shards = {w \in Units : w.suite = s}
  PROVE  /\ Accepted(s, got) = shards
         /\ \E all \in SUBSET Labels :
                Discoveries(s, got) = {all} /\ AllPassedOnce(shards, all)
<1>1. Accepted(s, got) = shards
  BY PassingShard DEF Accepted
<1>2. \A i \in 0 .. Expected[s] - 1 : \E v \in shards : v.shard_index = i
  BY <1>1 DEF SuitePasses, AllAccepted
<1>3. PICK u \in shards : TRUE
  <2>1. 0 \in 0 .. Expected[s] - 1
    BY SuitesAssumption
  <2> QED BY <1>2, <2>1
<1> DEFINE all == listing[u]
<1>4. all \in SUBSET Labels /\ Canonical(all) /\ all # {}
  BY PassingShard DEF selected_labels, discovered_labels
<1>5. ASSUME NEW v \in shards
      PROVE  listing[v] = all /\ got[v].discovered = all
  <2>1. \A w \in Accepted(s, got) : got[w].discovered \in SUBSET Labels
    BY <1>1, PassingShard
  <2>2. Agree(s, got)
    BY DEF SuitePasses
  <2>3. got[u].discovered = got[v].discovered
    BY <1>1, <2>1, <2>2, SameDiscovery
  <2> QED BY <2>3, PassingShard
<1>6. Discoveries(s, got) = {all}
  BY <1>1, <1>3, <1>5 DEF Discoveries
<1>7. \A v \in shards : passed[v] = selected_labels(v, all)
  BY <1>5, PassingShard
<1>8. ASSUME NEW l \in all
      PROVE  \E w \in shards : {v \in shards : l \in passed[v]} = {w}
  <2>1. /\ Hash[l] % Expected[s] \in 0 .. Expected[s] - 1
        /\ \A v \in shards : l \in passed[v] <=> v.shard_index = Hash[l] % Expected[s]
    BY <1>4, <1>7, HashDecides
  <2>2. PICK w \in shards : w.shard_index = Hash[l] % Expected[s]
    BY <1>2, <2>1
  <2>3. {v \in shards : l \in passed[v]} = {w}
    BY <2>1, <2>2, IndexIsIdentity
  <2> QED BY <2>3
<1>9. UNION {passed[v] : v \in shards} = all
  <2>1. \A v \in shards : passed[v] \subseteq all
    BY <1>7 DEF selected_labels, discovered_labels
  <2> QED BY <1>8, <2>1
<1>10. \A l \in all : Cardinality({v \in shards : l \in passed[v]}) = 1
  BY <1>8, FS_Singleton
<1>11. AllPassedOnce(shards, all)
  BY <1>4, <1>5, <1>9, <1>10 DEF AllPassedOnce
<1> HIDE DEF all
<1> QED BY <1>1, <1>4, <1>6, <1>11

(* One list of tests was found: the total is its length.                     *)
LEMMA TotalOfOne ==
  ASSUME NEW s, NEW got, NEW all \in SUBSET Labels, Discoveries(s, got) = {all}
  PROVE  total_tests(s, got) = Cardinality(all)
<1>1. Cardinality(all) \in Nat
  BY SuitesAssumption, FS_Subset, FS_CardinalityType
<1>2. {0} \cup {Cardinality(d) : d \in Discoveries(s, got)} = {0, Cardinality(all)}
  OBVIOUS
<1>3. \A n \in Nat : Max({0, n}) = n
  BY DEF Max
<1> QED BY <1>1, <1>2, <1>3 DEF total_tests

(* The manifests are as long as the records say, so that the numbers of      *)
(* passes add up to what the lengths of the manifests do.                   *)
LEMMA PassesAddUp ==
  ASSUME NEW s, NEW got, NEW lists,
         \A u \in Accepted(s, got) :
             /\ ManifestLabels(u, lists) \in SUBSET Labels
             /\ got[u].passing_tests = Cardinality(ManifestLabels(u, lists))
  PROVE  passing_tests(s, got) =
         Cardinality(PerShard([u \in Accepted(s, got) |-> ManifestLabels(u, lists)]))
<1> DEFINE S == Accepted(s, got)
           f == [u \in S |-> 1 .. got[u].passing_tests]
           g == [u \in S |-> ManifestLabels(u, lists)]
<1>1. IsFiniteSet(S)
  BY SuitesAssumption, FS_Subset DEF Accepted
<1>2. ASSUME NEW u \in S
      PROVE  IsFiniteSet(f[u]) /\ IsFiniteSet(g[u]) /\ Cardinality(f[u]) = Cardinality(g[u])
  <2>1. IsFiniteSet(g[u]) /\ Cardinality(g[u]) \in Nat
    BY SuitesAssumption, FS_Subset, FS_CardinalityType
  <2>2. f[u] = 1 .. Cardinality(g[u])
    OBVIOUS
  <2>3. IsFiniteSet(f[u]) /\ Cardinality(f[u]) = Cardinality(g[u])
    <3> DEFINE n == Cardinality(g[u])
    <3>1. IsFiniteSet(1 .. n) /\ Cardinality(1 .. n) = IF 1 > n THEN 0 ELSE n - 1 + 1
      <4>1. n \in Int
        BY <2>1
      <4> HIDE DEF n
      <4> QED BY <4>1, FS_Interval
    <3>2. (IF 1 > n THEN 0 ELSE n - 1 + 1) = n
      <4>1. n \in Nat
        BY <2>1
      <4> HIDE DEF n
      <4> QED BY <4>1
    <3> QED BY <2>2, <3>1, <3>2
  <2> QED BY <2>1, <2>3
<1>3. DOMAIN f = S /\ DOMAIN g = S
  OBVIOUS
<1>4. Cardinality(PerShard(f)) = Cardinality(PerShard(g))
  <2> HIDE DEF S, f, g
  <2> QED BY <1>1, <1>2, <1>3, SumsAgree DEF PerShard
<1> QED BY <1>4 DEF passing_tests

(* A badge without error counts what was found and passed.                  *)
LEMMA PassingBadge ==
  ASSUME IInv, NEW s \in Suites, NEW got, NEW lists,
         got = record \/ \E w \in Units, r \in {NoFile, Torn} : got = [record EXCEPT ![w] = r],
         SuitePasses(s, got, lists)
  PROVE  /\ passing_tests(s, got) = total_tests(s, got)
         /\ total_tests(s, got) =
                Cardinality(UNION {passed[u] : u \in {v \in Units : v.suite = s}})
<1>1. PICK shards : shards = {v \in Units : v.suite = s}
  OBVIOUS
<1>2. Accepted(s, got) = shards
  BY <1>1, PassingSuite
<1>3. PICK all \in SUBSET Labels :
          Discoveries(s, got) = {all} /\ AllPassedOnce(shards, all)
  BY <1>1, PassingSuite
<1>4. total_tests(s, got) = Cardinality(all)
  BY <1>3, TotalOfOne
<1>5. ASSUME NEW u \in Accepted(s, got)
      PROVE  /\ ManifestLabels(u, lists) \in SUBSET Labels
             /\ got[u].passing_tests = Cardinality(ManifestLabels(u, lists))
  <2>1. ManifestLabels(u, lists) = got[u].selected
    BY DEF SuitePasses, ManifestsMatch
  <2>2. got[u].selected = passed[u] /\ got[u].passing_tests = Cardinality(passed[u])
    BY <1>1, <1>2, PassingShard
  <2>3. passed[u] \in SUBSET Labels
    BY <1>1, <1>2 DEF IInv, TypeInv
  <2> QED BY <2>1, <2>2, <2>3
<1>6. passing_tests(s, got) = total_tests(s, got)
  BY <1>5, PassesAddUp DEF SuitePasses, UnionMatches
<1> QED BY <1>1, <1>3, <1>4, <1>6 DEF AllPassedOnce

LEMMA AggregateKeeps ==
  ASSUME IInv, Aggregate
  PROVE  IInv'
<1>1. /\ gate = "pending" /\ gate' \in {"success", "failure"}
      /\ \A j \in Jobs : phase[j] \in {"success", "failure"}
      /\ UNCHANGED <<phase, turn, listing, manifest, record, log, passed, reruns>>
  BY DEF Aggregate, files
<1>2. PICK got, lists :
          /\ got = record \/ \E w \in Units, r \in {NoFile, Torn} :
                                 got = [record EXCEPT ![w] = r]
          /\ Charge(Aggregation, got # record \/ lists # manifest)
          /\ outputs' = aggregate_results(got, lists)
          /\ gate' = IF /\ command_aggregate(got, lists)
                        /\ \A j \in Jobs : phase[j] = "success"
                     THEN "success" ELSE "failure"
  BY DEF Aggregate
<1>3. TypeInv'
  BY <1>1, <1>2, ChargeIsBounded DEF IInv, TypeInv
<1>4. (\A j \in Jobs : JobInv(j)') /\ \A u \in Units : Vouched(u)'
  BY <1>1 DEF IInv, JobInv, Untouched, Prepared, Ran, Succeeded, command_check, Vouched, Here
<1>5. BadgeIsHonest'
  <2> SUFFICES ASSUME NEW s \in Suites, outputs'[s].exit_code = 0
               PROVE  /\ outputs'[s].passing_tests = outputs'[s].total_tests
                      /\ outputs'[s].total_tests =
                             Cardinality(UNION {passed[u] : u \in {v \in Units : v.suite = s}})
    BY <1>1 DEF BadgeIsHonest
  <2>1. /\ outputs'[s].total_tests = total_tests(s, got)
        /\ outputs'[s].passing_tests = passing_tests(s, got)
        /\ SuitePasses(s, got, lists)
    BY <1>2 DEF aggregate_results, SuiteOutput
  <2> QED BY <1>2, <2>1, PassingBadge
<1>6. GreenMeansTested'
  <2> SUFFICES ASSUME gate' = "success", NEW s \in Suites, NEW u \in Units, u.suite = s
               PROVE  /\ listing[u] # {}
                      /\ \A v \in {w \in Units : w.suite = s} : listing[v] = listing[u]
                      /\ \A l \in listing[u] :
                             Cardinality({v \in {w \in Units : w.suite = s} : l \in passed[v]}) = 1
    BY <1>1 DEF GreenMeansTested
  <2>1. SuitePasses(s, got, lists)
    BY <1>2 DEF command_aggregate
  <2>2. PICK shards : shards = {w \in Units : w.suite = s}
    OBVIOUS
  <2>3. PICK all \in SUBSET Labels : AllPassedOnce(shards, all)
    BY <1>2, <2>1, <2>2, PassingSuite
  <2> QED BY <2>2, <2>3 DEF AllPassedOnce
<1>7. GateInv'
  BY <1>1, <1>5, <1>6 DEF GateInv, Ended
<1> QED BY <1>3, <1>4, <1>7 DEF IInv

(* A job that is run again starts with nothing; the others keep what they    *)
(* have.                                                                    *)
LEMMA RerunKeeps ==
  ASSUME IInv, Rerun
  PROVE  IInv'
<1> DEFINE again == {j \in Jobs : phase[j] = "failure"}
           units == {u \in Units : \E j \in again : \E k \in DOMAIN Work[j] : Work[j][k] = u}
           Fresh(f, v) == [u \in Units |-> IF u \in units THEN v ELSE f[u]]
<1>1. /\ gate = "failure" /\ gate' = "pending"
      /\ reruns < MaxReruns /\ reruns' = reruns + 1 /\ faults' = faults
      /\ phase' = [j \in Jobs |-> IF j \in again THEN "query" ELSE phase[j]]
      /\ turn' = [j \in Jobs |-> IF j \in again THEN 1 ELSE turn[j]]
      /\ listing' = Fresh(listing, {})
      /\ manifest' = Fresh(manifest, NoFile)
      /\ record' = Fresh(record, NoFile)
      /\ log' = Fresh(log, NoFile)
      /\ passed' = Fresh(passed, {})
  BY DEF Rerun
<1> HIDE DEF again, units
<1>2. ASSUME NEW j \in Jobs
      PROVE  1 \in DOMAIN Work[j]
  BY MatrixAssumption
<1>3. TypeInv'
  <2>1. phase' \in [Jobs -> Phases]
    BY <1>1 DEF IInv, TypeInv, Phases
  <2>2. turn' \in [Jobs -> Nat] /\ \A j \in Jobs : turn'[j] \in DOMAIN Work[j]
    BY <1>1, <1>2 DEF IInv, TypeInv
  <2>3. /\ listing' \in [Units -> SUBSET (Labels \cup {BadLine})]
        /\ manifest' \in [Units -> Lists] /\ record' \in [Units -> Files]
        /\ log' \in [Units -> Logs] /\ passed' \in [Units -> SUBSET Labels]
    BY <1>1 DEF IInv, TypeInv, Lists, Files, Logs
  <2>4. reruns' \in 0 .. MaxReruns
    BY <1>1, BoundsAssumption DEF IInv, TypeInv
  <2> QED BY <1>1, <2>1, <2>2, <2>3, <2>4 DEF IInv, TypeInv
<1>4. ASSUME NEW j \in Jobs
      PROVE  JobInv(j)'
  <2>1. CASE j \in again
    <3>1. phase'[j] = "query"
      BY <1>1, <2>1
    <3>2. \A k \in DOMAIN Work[j] : Work[j][k] \in units
      BY <2>1, Places DEF units
    <3>3. Untouched(j)'
      BY <1>1, <3>2, Places DEF Untouched
    <3> QED BY <3>1, <3>3 DEF JobInv, Prepared, Ran, Succeeded
  <2>2. CASE j \notin again
    <3>1. phase'[j] = phase[j] /\ turn'[j] = turn[j]
      BY <1>1, <2>2
    <3>2. \A k \in DOMAIN Work[j] : Work[j][k] \in Units \ units
      BY <2>2, Places DEF units, again
    <3>3. \A u \in Units \ units :
              /\ listing'[u] = listing[u] /\ manifest'[u] = manifest[u]
              /\ record'[u] = record[u] /\ log'[u] = log[u] /\ passed'[u] = passed[u]
      BY <1>1
    <3>4. Here(j)' = Here(j) /\ Here(j) \in Units \ units
      BY <3>1, <3>2 DEF IInv, TypeInv, Here
    <3>5. Untouched(j)'
      BY <3>1, <3>2, <3>3 DEF IInv, JobInv, Untouched
    <3>6. Prepared(j)' /\ Ran(j)'
      BY <3>1, <3>3, <3>4 DEF IInv, JobInv, Prepared, Ran
    <3>7. Succeeded(j)'
      BY <3>1, <3>2, <3>3 DEF IInv, JobInv, Succeeded, command_check
    <3> QED BY <3>5, <3>6, <3>7 DEF JobInv
  <2> QED BY <2>1, <2>2
<1>5. ASSUME NEW u \in Units
      PROVE  Vouched(u)'
  <2>1. CASE u \in units
    BY <1>1, <2>1, Markers DEF Vouched, Clean
  <2>2. CASE u \notin units
    BY <1>1, <2>2 DEF IInv, Vouched
  <2> QED BY <2>1, <2>2
<1>6. GateInv'
  BY <1>1 DEF GateInv
<1> QED BY <1>3, <1>4, <1>5, <1>6 DEF IInv

-----------------------------------------------------------------------------
LEMMA InitEstablishes == Init => IInv
<1> SUFFICES ASSUME Init PROVE IInv
  OBVIOUS
<1>1. ASSUME NEW j \in Jobs
      PROVE  1 \in DOMAIN Work[j]
  BY MatrixAssumption
<1>2. TypeInv
  BY <1>1, BoundsAssumption DEF Init, TypeInv, Phases, Lists, Files, Logs
<1>3. ASSUME NEW j \in Jobs
      PROVE  JobInv(j)
  BY Places DEF Init, JobInv, Untouched, Prepared, Ran, Succeeded
<1>4. ASSUME NEW u \in Units
      PROVE  Vouched(u)
  BY Markers DEF Init, Vouched, Clean
<1>5. GateInv
  BY DEF Init, GateInv
<1> QED BY <1>2, <1>3, <1>4, <1>5 DEF IInv

LEMMA StepKeeps == IInv /\ [Next]_vars => IInv'
<1> SUFFICES ASSUME IInv, [Next]_vars PROVE IInv'
  OBVIOUS
<1>1. ASSUME NEW j \in Jobs,
             \/ Query(j) \/ Partition(j) \/ MarkDiscoveryFailure(j)
             \/ RunBazel(j) \/ Finalize(j) \/ Die(j) \/ Check(j)
      PROVE  IInv'
  BY <1>1, QueryKeeps, PartitionKeeps, MarkKeeps, RunBazelKeeps, FinalizeKeeps,
     DieKeeps, CheckKeeps
<1>2. CASE Aggregate
  BY <1>2, AggregateKeeps
<1>3. CASE Rerun
  BY <1>3, RerunKeeps
<1>4. CASE UNCHANGED vars
  BY <1>4 DEF vars, files, final, IInv, TypeInv, JobInv, Untouched, Prepared, Ran, Succeeded,
              command_check, Vouched, GateInv, Ended, BadgeIsHonest, GreenMeansTested, Here
<1> QED BY <1>1, <1>2, <1>3, <1>4 DEF Next

THEOREM Invariance == Spec => []IInv
BY InitEstablishes, StepKeeps, PTL DEF Spec

(* The files hold what their types say, however many faults and reruns:     *)
(* TypeOK, of all the states and files of the jobs and of the gate.          *)
THEOREM TypeCorrect == Spec => []TypeOK
<1>1. IInv => TypeOK
  <2> SUFFICES ASSUME IInv PROVE TypeOK
    OBVIOUS
  <2>1. \A u \in Units : manifest[u] # NoFile => manifest[u] \in SUBSET Labels
    BY DEF IInv, TypeInv, Lists
  <2>2. \A u \in Units : IsRecord(record[u]) => record[u] \in Record
    BY Markers DEF IInv, TypeInv
  <2> QED BY <2>1, <2>2 DEF IInv, TypeInv, TypeOK, Phases
<1> QED BY <1>1, Invariance, PTL

(* A job that reports success (command_check after finalize_result) ran      *)
(* every test its shards were to run, in this attempt, and all passed.       *)
THEOREM SuccessIsEarned == Spec => []JobMeansPassed
<1>1. IInv => JobMeansPassed
  <2> SUFFICES ASSUME IInv, NEW j \in Jobs, phase[j] = "success", NEW k \in DOMAIN Work[j]
               PROVE  LET u == Work[j][k]
                      IN  passed[u] = selected_labels(u, listing[u]) /\ passed[u] # {}
    BY DEF JobMeansPassed
  <2>1. Work[j][k] \in Units
    BY Places
  <2>2. Clean(record[Work[j][k]])
    BY DEF IInv, JobInv, Succeeded, command_check, Clean
  <2> QED BY <2>1, <2>2 DEF IInv, Vouched
<1> QED BY <1>1, Invariance, PTL

(* The gate (command_aggregate after every command_check) opens only if the  *)
(* shards of every suite found the same tests and each of them passed on     *)
(* exactly one shard.                                                       *)
THEOREM GateIsEarned == Spec => []GreenMeansTested
<1>1. IInv => GreenMeansTested
  BY DEF IInv, GateInv, GreenMeansTested
<1> QED BY <1>1, Invariance, PTL

(* A badge (outputs of aggregate_results) that reports exit code 0 counts    *)
(* every test that was found, and no more, as passed.                       *)
THEOREM BadgesAreHonest == Spec => []BadgeIsHonest
<1>1. IInv => BadgeIsHonest
  BY DEF IInv, GateInv, BadgeIsHonest
<1> QED BY <1>1, Invariance, PTL
-----------------------------------------------------------------------------
(* A shard of which a job without a fault is done: the whole suite was found *)
(* and what the shard keeps of it passed.                                   *)
Good(u) ==
    /\ listing[u] = Tests[u.suite]
    /\ manifest[u] = selected_labels(u, Tests[u.suite])
    /\ Clean(record[u])

(* A job without a fault takes no way out.                                  *)
Smooth(j) ==
    j \notin tainted =>
        /\ phase[j] \in {"query", "partition", "test", "finalize", "check", "success"}
        /\ \A k \in DOMAIN Work[j] :
               k < turn[j] \/ phase[j] \in {"check", "success"} => Good(Work[j][k])
        /\ phase[j] \in {"partition", "test", "finalize"} =>
               listing[Here(j)] = Tests[Here(j).suite]
        /\ phase[j] = "finalize" =>
               /\ log[Here(j)].exit_code = 0
               /\ log[Here(j)].summary = Cardinality(manifest[Here(j)])

AlarmInv ==
    /\ \A j \in Jobs : Smooth(j)
    /\ gate = "failure" => tainted # {}

(* A step of job j at its shard does not make another job fail.             *)
LEMMA SmoothElsewhere ==
  ASSUME IInv, AlarmInv, NEW j \in Jobs, OnlyAt(j), tainted \subseteq tainted', Smooth(j)'
  PROVE  AlarmInv'
<1>1. ASSUME NEW i \in Jobs
      PROVE  Smooth(i)'
  <2>1. CASE i = j
    BY <2>1
  <2>2. CASE i # j
    <3>1. /\ phase'[i] = phase[i] /\ turn'[i] = turn[i] /\ Smooth(i)
          /\ i \notin tainted' => i \notin tainted
      BY <2>2 DEF OnlyAt, AlarmInv
    <3>2. ASSUME NEW k \in DOMAIN Work[i], Good(Work[i][k])
          PROVE  Good(Work[i][k])'
      <4>1. Work[i][k] \in Units \ {Here(j)}
        BY <2>2, Places, HereIsUnit DEF IInv
      <4> QED BY <3>2, <4>1 DEF OnlyAt, Good
    <3>3. /\ Here(i)' = Here(i) /\ listing'[Here(i)] = listing[Here(i)]
          /\ log'[Here(i)] = log[Here(i)] /\ manifest'[Here(i)] = manifest[Here(i)]
      <4>1. Here(i)' = Here(i) /\ Here(i) \in Units \ {Here(j)}
        BY <2>2, <3>1, HereIsUnit DEF IInv, TypeInv, Here
      <4> QED BY <4>1 DEF OnlyAt
    <3> QED BY <3>1, <3>2, <3>3 DEF Smooth
  <2> QED BY <2>1, <2>2
<1>2. gate' # "failure"
  BY DEF OnlyAt, IInv, GateInv
<1> QED BY <1>1, <1>2 DEF AlarmInv

(* The shards a job has done stay as they are while it is at another.       *)
LEMMA DoneStaysGood ==
  ASSUME IInv, NEW j \in Jobs, OnlyAt(j),
         NEW k \in DOMAIN Work[j], k # turn[j], Good(Work[j][k])
  PROVE  Good(Work[j][k])'
<1>1. Work[j][k] \in Units \ {Here(j)}
  BY Places, HereIsUnit DEF IInv
<1> QED BY <1>1 DEF OnlyAt, Good

(* The whole suite is a list of labels, and every shard keeps some of it.    *)
LEMMA SuiteIsSplit ==
  ASSUME MatrixFits, NEW u \in Units
  PROVE  /\ Tests[u.suite] \in SUBSET Labels /\ Canonical(Tests[u.suite])
         /\ selected_labels(u, Tests[u.suite]) # {}
         /\ prepare_partition(u, Tests[u.suite]).errors = FALSE
         /\ prepare_partition(u, Tests[u.suite]).selected = selected_labels(u, Tests[u.suite])
<1>1. Tests[u.suite] \in SUBSET Labels
  BY MatrixAssumption, SuitesAssumption
<1>2. Canonical(Tests[u.suite])
  BY <1>1, MarkersAssumption DEF Canonical
<1>3. selected_labels(u, Tests[u.suite]) # {}
  BY <1>2 DEF MatrixFits, selected_labels, discovered_labels
<1>4. prepare_partition(u, Tests[u.suite]).errors = FALSE
  BY <1>2, <1>3 DEF prepare_partition
<1> QED BY <1>1, <1>2, <1>3, <1>4 DEF prepare_partition

LEMMA QueryIsSmooth ==
  ASSUME IInv, AlarmInv, NEW j \in Jobs, Query(j)
  PROVE  AlarmInv'
<1>u. PICK u \in Units : u = Here(j)
  BY HereIsUnit DEF IInv
<1>1. phase[j] = "query" /\ OnlyAt(j)
  BY QueryKeeps DEF Query
<1>2. PICK lines \in (SUBSET Tests[u.suite]) \cup {Tests[u.suite] \cup {BadLine}}, ok \in BOOLEAN :
          /\ Charge(j, lines # Tests[u.suite] \/ ~ok)
          /\ listing' = [listing EXCEPT ![u] = lines]
          /\ GoTo(j, IF ok THEN "partition" ELSE "salvage")
  BY <1>u DEF Query
<1>3. tainted \subseteq tainted'
  BY <1>2 DEF Charge
<1>4. Smooth(j)'
  <2> SUFFICES ASSUME j \notin tainted'
               PROVE  Smooth(j)'
    BY DEF Smooth
  <2>1. lines = Tests[u.suite] /\ ok /\ j \notin tainted
    BY <1>2 DEF Charge
  <2>2. phase'[j] = "partition" /\ turn' = turn /\ Here(j)' = u
    BY <1>u, <1>2, <2>1, GoToIsLocal DEF IInv, Phases
  <2>3. listing'[u] = Tests[u.suite]
    BY <1>2, <2>1 DEF IInv, TypeInv
  <2>4. \A k \in DOMAIN Work[j] : k < turn[j] => Good(Work[j][k])'
    <3> SUFFICES ASSUME NEW k \in DOMAIN Work[j], k < turn[j]
                 PROVE  Good(Work[j][k])'
      OBVIOUS
    <3>1. k # turn[j] /\ Good(Work[j][k])
      BY <2>1, Places DEF IInv, TypeInv, AlarmInv, Smooth
    <3> QED BY <1>1, <3>1, DoneStaysGood
  <2> QED BY <2>2, <2>3, <2>4 DEF Smooth
<1> QED BY <1>1, <1>3, <1>4, SmoothElsewhere

LEMMA PartitionIsSmooth ==
  ASSUME MatrixFits, IInv, AlarmInv, NEW j \in Jobs, Partition(j)
  PROVE  AlarmInv'
<1>u. PICK u \in Units : u = Here(j)
  BY HereIsUnit DEF IInv
<1>1. phase[j] \in {"partition", "salvage"} /\ OnlyAt(j) /\ tainted' = tainted
  BY PartitionKeeps DEF Partition
<1>2. Smooth(j)'
  <2> SUFFICES ASSUME j \notin tainted
               PROVE  Smooth(j)'
    BY <1>1 DEF Smooth
  <2>1. phase[j] = "partition" /\ listing[u] = Tests[u.suite]
    BY <1>u, <1>1 DEF AlarmInv, Smooth
  <2>2. ~prepare_partition(u, listing[u]).errors
    BY <2>1, SuiteIsSplit, Zenon
  <2>3. GoTo(j, "test") /\ listing' = listing
    BY <1>u, <2>1, <2>2 DEF Partition
  <2>4. phase'[j] = "test" /\ turn' = turn /\ Here(j)' = u
    BY <1>u, <2>3, GoToIsLocal DEF IInv, Phases
  <2>5. \A k \in DOMAIN Work[j] : k < turn[j] => Good(Work[j][k])'
    <3> SUFFICES ASSUME NEW k \in DOMAIN Work[j], k < turn[j]
                 PROVE  Good(Work[j][k])'
      OBVIOUS
    <3>1. k # turn[j] /\ Good(Work[j][k])
      BY Places DEF IInv, TypeInv, AlarmInv, Smooth
    <3> QED BY <1>1, <3>1, DoneStaysGood
  <2> QED BY <2>1, <2>3, <2>4, <2>5 DEF Smooth
<1> QED BY <1>1, <1>2, SmoothElsewhere

LEMMA RunBazelIsSmooth ==
  ASSUME IInv, AlarmInv, NEW j \in Jobs, RunBazel(j)
  PROVE  AlarmInv'
<1>u. PICK u \in Units : u = Here(j)
  BY HereIsUnit DEF IInv
<1>1. /\ phase[j] = "test" /\ GoTo(j, "finalize") /\ OnlyAt(j)
      /\ UNCHANGED <<listing, manifest>>
  BY RunBazelKeeps DEF RunBazel
<1>2. PICK ok \in SUBSET manifest[u], code \in {0, 3} :
          \E summary \in {None, Cardinality(ok), Cardinality(manifest[u]) + 1} :
              /\ Charge(j, ok # manifest[u] \/ code # 0 \/ summary # Cardinality(manifest[u]))
              /\ passed' = [passed EXCEPT ![u] = ok]
              /\ log' = [log EXCEPT ![u] = [exit_code |-> code, summary |-> summary]]
  BY <1>u DEF RunBazel
<1>3. PICK summary \in {None, Cardinality(ok), Cardinality(manifest[u]) + 1} :
          /\ Charge(j, ok # manifest[u] \/ code # 0 \/ summary # Cardinality(manifest[u]))
          /\ log' = [log EXCEPT ![u] = [exit_code |-> code, summary |-> summary]]
  BY <1>2
<1>4. tainted \subseteq tainted'
  BY <1>3 DEF Charge
<1>5. Smooth(j)'
  <2> SUFFICES ASSUME j \notin tainted'
               PROVE  Smooth(j)'
    BY DEF Smooth
  <2>1. code = 0 /\ summary = Cardinality(manifest[u]) /\ j \notin tainted
    BY <1>3 DEF Charge
  <2>2. phase'[j] = "finalize" /\ turn' = turn /\ Here(j)' = u
    BY <1>u, <1>1, GoToIsLocal DEF IInv, Phases
  <2>3. log'[u].exit_code = 0 /\ log'[u].summary = Cardinality(manifest[u])
    BY <1>3, <2>1 DEF IInv, TypeInv
  <2>4. listing[u] = Tests[u.suite]
    BY <1>u, <1>1, <2>1 DEF AlarmInv, Smooth
  <2>5. \A k \in DOMAIN Work[j] : k < turn[j] => Good(Work[j][k])'
    <3> SUFFICES ASSUME NEW k \in DOMAIN Work[j], k < turn[j]
                 PROVE  Good(Work[j][k])'
      OBVIOUS
    <3>1. k # turn[j] /\ Good(Work[j][k])
      BY <2>1, Places DEF IInv, TypeInv, AlarmInv, Smooth
    <3> QED BY <1>1, <3>1, DoneStaysGood
  <2> QED BY <1>1, <2>2, <2>3, <2>4, <2>5 DEF Smooth
<1> QED BY <1>1, <1>4, <1>5, SmoothElsewhere

(* A run without a fault leaves a record without error.                     *)
LEMMA FinalizeIsClean ==
  ASSUME NEW r \in Record, ~r.errors, NEW l,
         l.exit_code = 0, l.summary = Cardinality(r.selected)
  PROVE  Clean(finalize_result(r, l))
<1>1. Cardinality(r.selected) \in Nat
  BY SuitesAssumption, FS_Subset, FS_CardinalityType DEF Record
<1> DEFINE passing == IF l.summary = None THEN 0 ELSE l.summary
           bad == \/ l.exit_code = 0 /\ l.summary = None
                  \/ passing > Cardinality(r.selected)
                  \/ l.exit_code = 0 /\ passing # Cardinality(r.selected)
           code == IF bad THEN 4 ELSE l.exit_code
<1>2. finalize_result(r, l) = [r EXCEPT !.passing_tests = passing,
                                        !.exit_code = code,
                                        !.errors = @ \/ bad]
  BY Zenon DEF finalize_result
<1>3. passing \in Nat /\ ~bad /\ code = 0
  BY <1>1, Markers
<1> HIDE DEF passing, bad, code
<1>4. finalize_result(r, l).exit_code = 0
  BY <1>2, <1>3 DEF Record
<1>5. finalize_result(r, l).errors = (r.errors \/ bad)
  BY <1>2 DEF Record
<1>6. finalize_result(r, l) \in Record
  BY <1>1, FinalizeFields
<1> QED BY <1>3, <1>4, <1>5, <1>6, Markers DEF Clean

LEMMA FinalizeIsSmooth ==
  ASSUME MatrixFits, IInv, AlarmInv, NEW j \in Jobs, Finalize(j)
  PROVE  AlarmInv'
<1>u. PICK u \in Units : u = Here(j)
  BY HereIsUnit DEF IInv
<1>1. /\ phase[j] = "finalize" /\ NextShard(j) /\ OnlyAt(j) /\ tainted' = tainted
      /\ record' = [record EXCEPT ![u] = finalize_result(record[u], log[u])]
      /\ UNCHANGED <<listing, manifest>>
  BY <1>u, FinalizeKeeps DEF Finalize
<1>2. Smooth(j)'
  <2> SUFFICES ASSUME j \notin tainted
               PROVE  Smooth(j)'
    BY <1>1 DEF Smooth
  <2>1. /\ listing[u] = Tests[u.suite]
        /\ log[u].exit_code = 0 /\ log[u].summary = Cardinality(manifest[u])
    BY <1>u, <1>1 DEF AlarmInv, Smooth
  <2>2. /\ record[u] = prepare_partition(u, listing[u]) /\ ~record[u].errors
        /\ manifest[u] = record[u].selected
    BY <1>u, <1>1 DEF IInv, JobInv, Prepared
  <2>3. record[u] \in Record
    BY <2>2, PartitionType DEF IInv, TypeInv
  <2>4. Clean(finalize_result(record[u], log[u]))
    BY <2>1, <2>2, <2>3, FinalizeIsClean
  <2>5. manifest[u] = selected_labels(u, Tests[u.suite])
    BY <2>1, <2>2, SuiteIsSplit
  <2>6. Good(u)'
    BY <1>1, <2>1, <2>4, <2>5 DEF IInv, TypeInv, Good
  <2>7. ASSUME NEW k \in DOMAIN Work[j],
               k < turn'[j] \/ phase'[j] \in {"check", "success"}
        PROVE  Good(Work[j][k])'
    <3>1. k \in Nat /\ turn[j] \in Nat /\ k <= turn[j]
      <4>1. Work[j] \in Seq(Units)
        BY MatrixAssumption
      <4>2. k \in Nat /\ k <= Len(Work[j]) /\ turn[j] \in Nat
        BY <4>1 DEF IInv, TypeInv
      <4>3. phase'[j] = "query" => turn'[j] = turn[j] + 1
        BY <1>1, NextShardIsLocal DEF IInv
      <4>4. phase'[j] = "check" => turn[j] = Len(Work[j])
        BY <1>1, NextShardIsLocal DEF IInv
      <4>5. phase'[j] \in {"query", "check"}
        BY <1>1, NextShardIsLocal DEF IInv
      <4> QED BY <2>7, <4>2, <4>3, <4>4, <4>5
    <3>2. CASE k = turn[j]
      BY <1>u, <2>6, <3>2 DEF Here
    <3>3. CASE k # turn[j]
      <4>1. Good(Work[j][k])
        BY <3>1, <3>3 DEF AlarmInv, Smooth
      <4> QED BY <1>1, <3>3, <4>1, DoneStaysGood
    <3> QED BY <3>2, <3>3
  <2>8. phase'[j] \in {"query", "check"}
    BY <1>1, NextShardIsLocal DEF IInv
  <2> QED BY <2>7, <2>8 DEF Smooth
<1> QED BY <1>1, <1>2, SmoothElsewhere

LEMMA CheckIsSmooth ==
  ASSUME IInv, AlarmInv, NEW j \in Jobs, Check(j)
  PROVE  AlarmInv'
<1>1. /\ phase[j] = "check" /\ OnlyAt(j)
      /\ GoTo(j, IF command_check(j) THEN "success" ELSE "failure")
      /\ UNCHANGED <<listing, manifest, record, tainted>>
  BY CheckKeeps DEF Check, files
<1>2. Smooth(j)'
  <2> SUFFICES ASSUME j \notin tainted
               PROVE  Smooth(j)'
    BY <1>1 DEF Smooth
  <2>1. \A k \in DOMAIN Work[j] : Good(Work[j][k])
    BY <1>1 DEF AlarmInv, Smooth
  <2>2. command_check(j)
    BY <2>1 DEF command_check, Good, Clean
  <2>3. phase'[j] = "success"
    BY <1>1, <2>2, GoToIsLocal DEF IInv, Phases
  <2> QED BY <1>1, <2>1, <2>3 DEF Smooth, Good
<1> QED BY <1>1, <1>2, SmoothElsewhere

(* Mark and Die are steps of jobs that met a fault.                         *)
LEMMA FaultIsNoted ==
  ASSUME IInv, AlarmInv, NEW j \in Jobs, MarkDiscoveryFailure(j) \/ Die(j)
  PROVE  AlarmInv'
<1>1. CASE MarkDiscoveryFailure(j)
  <2>1. phase[j] = "mark" /\ tainted' = tainted /\ OnlyAt(j)
    BY <1>1, MarkKeeps DEF MarkDiscoveryFailure
  <2>2. j \in tainted
    BY <2>1 DEF AlarmInv, Smooth
  <2> QED BY <2>1, <2>2, SmoothElsewhere DEF Smooth
<1>2. CASE Die(j)
  <2>1. tainted' = tainted \cup {j} /\ OnlyAt(j)
    BY <1>2, DieKeeps DEF Die, Charge
  <2> QED BY <2>1, SmoothElsewhere DEF Smooth
<1> QED BY <1>1, <1>2

-----------------------------------------------------------------------------
(* A suite whose shards are all done without a fault passes.                *)
LEMMA GoodShard ==
  ASSUME MatrixFits, IInv, NEW u \in Units, Good(u)
  PROVE  /\ IsRecord(record[u]) /\ WellFormed(u, record[u])
         /\ record[u].exit_code = 0 /\ ~record[u].errors
         /\ record[u].discovered = Tests[u.suite]
         /\ record[u].selected = selected_labels(u, Tests[u.suite])
         /\ record[u].passing_tests = Cardinality(selected_labels(u, Tests[u.suite]))
         /\ manifest[u] # NoFile /\ Canonical(manifest[u])
         /\ ManifestLabels(u, manifest) = selected_labels(u, Tests[u.suite])
<1>1. /\ IsRecord(record[u]) /\ record[u].exit_code = 0 /\ ~record[u].errors
      /\ listing[u] = Tests[u.suite] /\ manifest[u] = selected_labels(u, Tests[u.suite])
  BY DEF Good, Clean
<1>2. /\ record[u].discovered = Tests[u.suite]
      /\ record[u].selected = selected_labels(u, Tests[u.suite])
      /\ record[u].passing_tests = Cardinality(selected_labels(u, Tests[u.suite]))
  BY <1>1 DEF IInv, Vouched, Good
<1>3. /\ selected_labels(u, Tests[u.suite]) # {}
      /\ selected_labels(u, Tests[u.suite]) \subseteq Tests[u.suite]
      /\ Tests[u.suite] \in SUBSET Labels
  BY SuiteIsSplit DEF selected_labels, discovered_labels
<1>4. manifest[u] # NoFile /\ Canonical(manifest[u])
  BY <1>1, <1>3, MarkersAssumption DEF Canonical
<1>5. ManifestLabels(u, manifest) = selected_labels(u, Tests[u.suite])
  BY <1>1, <1>4 DEF ManifestLabels, discovered_labels
<1>6. WellFormed(u, record[u])
  <2>1. u.shard_count = Expected[u.suite] /\ u.shard_index \in 0 .. Expected[u.suite] - 1
    BY MatrixAssumption, SuitesAssumption
  <2> QED BY <1>1, <1>2, <1>3, <2>1, Markers DEF WellFormed
<1> QED BY <1>1, <1>2, <1>4, <1>5, <1>6

LEMMA GoodSuitePasses ==
  ASSUME MatrixFits, IInv, \A u \in Units : Good(u), NEW s \in Suites
  PROVE  SuitePasses(s, record, manifest)
<1> DEFINE A == Accepted(s, record)
           all == Tests[s]
           kept == [u \in A |-> ManifestLabels(u, manifest)]
<1>1. A = {u \in Units : u.suite = s}
  BY GoodShard DEF Accepted
<1>2. \A i \in 0 .. Expected[s] - 1 : \E u \in A : u.shard_index = i
  BY <1>1 DEF MatrixFits
<1>3. PICK first \in A : TRUE
  <2>1. 0 \in 0 .. Expected[s] - 1
    BY SuitesAssumption
  <2> QED BY <1>2, <2>1
<1>4. all \in SUBSET Labels /\ Canonical(all)
  BY <1>1, <1>3, SuiteIsSplit
<1>5. \A u \in A : /\ record[u].discovered = all
                   /\ record[u].exit_code = 0 /\ ~record[u].errors
                   /\ manifest[u] # NoFile /\ Canonical(manifest[u])
                   /\ ManifestLabels(u, manifest) = selected_labels(u, all)
                   /\ record[u].selected = selected_labels(u, all)
                   /\ record[u].passing_tests = Cardinality(selected_labels(u, all))
  BY <1>1, GoodShard
<1>6. \A u \in A : u.shard_index \in 0 .. Expected[s] - 1
  BY <1>1, MatrixAssumption, SuitesAssumption
<1>7. AllAccepted(s, record)
  BY <1>1, <1>2, <1>6 DEF AllAccepted
<1>8. Discoveries(s, record) = {all}
  BY <1>3, <1>5 DEF Discoveries
<1>9. Agree(s, record)
  <2>1. Cardinality({all}) = 1
    BY FS_Singleton
  <2> HIDE DEF all
  <2> QED BY <1>8, <2>1 DEF Agree
<1>10. \A u, v \in A : u # v =>
           ManifestLabels(u, manifest) \cap ManifestLabels(v, manifest) = {}
  <2> SUFFICES ASSUME NEW u \in A, NEW v \in A,
                      NEW l \in ManifestLabels(u, manifest) \cap ManifestLabels(v, manifest)
               PROVE  u = v
    OBVIOUS
  <2>1. l \in all /\ l \in selected_labels(u, all) /\ l \in selected_labels(v, all)
    BY <1>5 DEF selected_labels, discovered_labels
  <2>2. u.shard_index = v.shard_index
    BY <1>1, <1>4, <2>1, HashDecides
  <2> QED BY <1>1, <2>2, IndexIsIdentity
<1>11. ManifestsMatch(s, record, manifest)
  BY <1>5, <1>10 DEF ManifestsMatch
<1>12. UNION {kept[u] : u \in A} = all
  <2>1. \A u \in A : kept[u] \subseteq all
    BY <1>5 DEF selected_labels, discovered_labels
  <2>2. ASSUME NEW l \in all
        PROVE  \E u \in A : l \in kept[u]
    <3>1. Hash[l] % Expected[s] \in 0 .. Expected[s] - 1
      BY <1>4, HashDecides
    <3>2. PICK u \in A : u.shard_index = Hash[l] % Expected[s]
      BY <1>2, <3>1
    <3>3. l \in selected_labels(u, all)
      BY <1>1, <1>4, <3>2, HashDecides
    <3> QED BY <1>5, <3>3
  <2> QED BY <2>1, <2>2
<1>13. Cardinality(PerShard(kept)) = Cardinality(all)
  <2>1. IsFiniteSet(A)
    BY SuitesAssumption, FS_Subset DEF Accepted
  <2>2. \A u \in A : IsFiniteSet(kept[u])
    BY <1>4, <1>12, SuitesAssumption, FS_Subset
  <2>3. \A u, v \in A : u # v => kept[u] \cap kept[v] = {}
    BY <1>10
  <2>4. DOMAIN kept = A
    OBVIOUS
  <2> HIDE DEF A, kept
  <2> QED BY <1>12, <2>1, <2>2, <2>3, <2>4, DisjointSum DEF PerShard
<1>14. total_tests(s, record) = Cardinality(all) /\ Cardinality(all) \in Nat
  BY <1>4, <1>8, TotalOfOne, SuitesAssumption, FS_Subset, FS_CardinalityType
<1>15. UnionMatches(s, record, manifest)
  <2>1. UNION {ManifestLabels(u, manifest) : u \in A} = all
    BY <1>12
  <2>2. (CHOOSE d \in Discoveries(s, record) : TRUE) = all
    BY <1>8
  <2>3. Discoveries(s, record) # {}
    BY <1>8
  <2> HIDE DEF all
  <2> QED BY <1>13, <1>14, <2>1, <2>2, <2>3 DEF UnionMatches
<1>16. passing_tests(s, record) = Cardinality(all)
  <2>1. \A u \in A : /\ ManifestLabels(u, manifest) \in SUBSET Labels
                     /\ record[u].passing_tests = Cardinality(ManifestLabels(u, manifest))
    BY <1>4, <1>5 DEF selected_labels, discovered_labels
  <2> QED BY <1>13, <2>1, PassesAddUp
<1> QED BY <1>5, <1>7, <1>9, <1>11, <1>14, <1>15, <1>16 DEF SuitePasses

LEMMA AggregateIsSmooth ==
  ASSUME MatrixFits, IInv, AlarmInv, Aggregate
  PROVE  AlarmInv'
<1>1. /\ \A j \in Jobs : phase[j] \in {"success", "failure"}
      /\ UNCHANGED <<phase, turn, listing, manifest, record, log, passed, reruns>>
  BY DEF Aggregate, files
<1>2. PICK got, lists :
          /\ Charge(Aggregation, got # record \/ lists # manifest)
          /\ gate' = IF /\ command_aggregate(got, lists)
                        /\ \A j \in Jobs : phase[j] = "success"
                     THEN "success" ELSE "failure"
  BY DEF Aggregate
<1>3. tainted \subseteq tainted'
  BY <1>2 DEF Charge
<1>4. \A j \in Jobs : Smooth(j)'
  BY <1>1, <1>3 DEF AlarmInv, Smooth, Good, Here
<1>5. gate' = "failure" => tainted' # {}
  <2> SUFFICES ASSUME tainted' = {}
               PROVE  gate' # "failure"
    OBVIOUS
  <2>1. got = record /\ lists = manifest /\ tainted = {}
    BY <1>2 DEF Charge
  <2>2. \A j \in Jobs : phase[j] = "success" /\ \A k \in DOMAIN Work[j] : Good(Work[j][k])
    BY <1>1, <2>1 DEF AlarmInv, Smooth
  <2>3. \A u \in Units : Good(u)
    BY <2>2 DEF Units
  <2>4. command_aggregate(record, manifest)
    <3>1. \A u \in Units : record[u] # Torn
      BY <2>3 DEF Good, Clean, IsRecord
    <3> QED BY <2>3, <3>1, GoodSuitePasses DEF command_aggregate
  <2> QED BY <1>2, <2>1, <2>2, <2>4
<1> QED BY <1>4, <1>5 DEF AlarmInv

(* What is run again starts without a fault, and the faults of the jobs that *)
(* are not run again stay.                                                  *)
LEMMA RerunIsSmooth ==
  ASSUME IInv, AlarmInv, Rerun
  PROVE  AlarmInv'
<1> DEFINE again == {j \in Jobs : phase[j] = "failure"}
           units == {u \in Units : \E j \in again : \E k \in DOMAIN Work[j] : Work[j][k] = u}
           Fresh(f, v) == [u \in Units |-> IF u \in units THEN v ELSE f[u]]
<1>1. /\ gate' = "pending"
      /\ phase' = [j \in Jobs |-> IF j \in again THEN "query" ELSE phase[j]]
      /\ turn' = [j \in Jobs |-> IF j \in again THEN 1 ELSE turn[j]]
      /\ listing' = Fresh(listing, {})
      /\ manifest' = Fresh(manifest, NoFile)
      /\ record' = Fresh(record, NoFile)
      /\ log' = Fresh(log, NoFile)
      /\ tainted' = tainted \ (again \cup {Aggregation})
  BY DEF Rerun
<1> HIDE DEF again, units
<1>2. ASSUME NEW j \in Jobs
      PROVE  Smooth(j)'
  <2>1. CASE j \in again
    <3>1. phase'[j] = "query" /\ turn'[j] = 1
      BY <1>1, <2>1
    <3>2. \A k \in DOMAIN Work[j] : ~(k < 1)
      BY MatrixAssumption
    <3> QED BY <3>1, <3>2 DEF Smooth
  <2>2. CASE j \notin again
    <3>1. /\ phase'[j] = phase[j] /\ turn'[j] = turn[j]
          /\ j \notin tainted' => j \notin tainted
      BY <1>1, <2>2, MatrixAssumption
    <3>2. \A k \in DOMAIN Work[j] : Work[j][k] \in Units \ units
      BY <2>2, Places DEF units, again
    <3>3. \A u \in Units \ units :
              /\ listing'[u] = listing[u] /\ manifest'[u] = manifest[u]
              /\ record'[u] = record[u] /\ log'[u] = log[u]
      BY <1>1
    <3>4. Here(j)' = Here(j) /\ Here(j) \in Units \ units
      BY <3>1, <3>2 DEF IInv, TypeInv, Here
    <3>5. \A k \in DOMAIN Work[j] : Good(Work[j][k]) => Good(Work[j][k])'
      BY <3>2, <3>3 DEF Good
    <3> QED BY <3>1, <3>3, <3>4, <3>5 DEF AlarmInv, Smooth
  <2> QED BY <2>1, <2>2
<1> QED BY <1>1, <1>2 DEF AlarmInv

(* If the matrix runs every shard and every shard has a test, then without a *)
(* fault since its last start no job fails, and neither does the gate: what  *)
(* an attempt before left in record and manifest does not count.            *)
THEOREM NoAlarmIsFalse == MatrixFits => (Spec => []NoFalseAlarm)
<1> SUFFICES ASSUME MatrixFits PROVE Spec => []NoFalseAlarm
  OBVIOUS
<1>1. Init => AlarmInv
  <2> SUFFICES ASSUME Init PROVE AlarmInv
    OBVIOUS
  <2>1. \A j \in Jobs : \A k \in DOMAIN Work[j] : ~(k < 1)
    BY MatrixAssumption
  <2> QED BY <2>1 DEF Init, AlarmInv, Smooth
<1>2. IInv /\ AlarmInv /\ [Next]_vars => AlarmInv'
  <2> SUFFICES ASSUME IInv, AlarmInv, [Next]_vars PROVE AlarmInv'
    OBVIOUS
  <2>1. ASSUME NEW j \in Jobs,
               \/ Query(j) \/ Partition(j) \/ MarkDiscoveryFailure(j)
               \/ RunBazel(j) \/ Finalize(j) \/ Die(j) \/ Check(j)
        PROVE  AlarmInv'
    BY <2>1, QueryIsSmooth, PartitionIsSmooth, RunBazelIsSmooth, FinalizeIsSmooth,
       CheckIsSmooth, FaultIsNoted
  <2>2. CASE Aggregate
    BY <2>2, AggregateIsSmooth
  <2>3. CASE Rerun
    BY <2>3, RerunIsSmooth
  <2>4. CASE UNCHANGED vars
    BY <2>4 DEF vars, files, final, AlarmInv, Smooth, Good, Here
  <2> QED BY <2>1, <2>2, <2>3, <2>4 DEF Next
<1>3. AlarmInv => NoFalseAlarm
  BY DEF AlarmInv, Smooth, NoFalseAlarm
<1> QED BY <1>1, <1>2, <1>3, Invariance, PTL DEF Spec
=============================================================================
