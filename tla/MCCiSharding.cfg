CONSTANTS
    python = python
    stardoc = stardoc
    slang = slang
    p1 = p1
    d1 = d1
    s1 = s1
    s2 = s2
    s3 = s3
    BadLine = BadLine
    None = None
    NoFile = NoFile
    Torn = Torn
    Suites <- MCSuites
    Tests <- MCTests
    Listed = {stardoc}
    Hash <- MCHash
    Expected <- MCExpected
    Jobs <- MCJobs
    Work <- MCWork
    MaxFaults = 2
    MaxReruns = 1
SPECIFICATION Spec
INVARIANTS TypeOK GreenMeansTested JobMeansPassed BadgeIsHonest NoFalseAlarm
CHECK_DEADLOCK FALSE
