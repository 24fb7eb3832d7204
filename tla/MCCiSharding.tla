---------------------------- MODULE MCCiSharding ----------------------------
(* One job runs the single shards of two suites, two jobs share a third.    *)
EXTENDS CiSharding

CONSTANTS python, stardoc, slang, p1, d1, s1, s2, s3

MCSuites == {python, stardoc, slang}
MCTests == [s \in MCSuites |-> CASE s = python  -> {p1}
                                 [] s = stardoc -> {d1}
                                 [] s = slang   -> {s1, s2, s3}]
MCHash == [l \in {p1, d1, s1, s2, s3} |-> IF l = s2 THEN 3 ELSE 4]
MCExpected == [s \in MCSuites |-> IF s = slang THEN 2 ELSE 1]
MCJobs == {"python-stardoc", "slang-1-of-2", "slang-2-of-2"}
MCWork == [j \in MCJobs |->
              CASE j = "python-stardoc" -> <<Unit(python, 0, 1), Unit(stardoc, 0, 1)>>
                [] j = "slang-1-of-2"   -> <<Unit(slang, 0, 2)>>
                [] j = "slang-2-of-2"   -> <<Unit(slang, 1, 2)>>]

ASSUME MCMatrixAssumption == MatrixFits
=============================================================================
