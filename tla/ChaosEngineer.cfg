\* Two thirds of three pods stand in for the 20 % of LoadExperiments, so that the
\* share is two here, less as pods go, and never none.
SPECIFICATION Spec
CONSTANTS
    r1 = r1
    r2 = r2
    q1 = q1
    q2 = q2
    q3 = q3
    q4 = q4
    Run <- MCRun
    Pod <- MCPod
    Deployed <- MCDeployed
    Percentage = 67
    MaxErrors = 1
INVARIANT TypeOK
INVARIANT CostsOnlyItsShare
INVARIANT FailureKillsNothing
PROPERTY ExperimentsEnd
CHECK_DEADLOCK FALSE
