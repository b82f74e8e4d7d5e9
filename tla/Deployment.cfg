CONSTANTS
    a1 = a1
    a2 = a2
    v1 = v1
    v2 = v2
    v3 = v3
    d1 = d1
    d2 = d2
    run = run
    artifacts = artifacts
    None = None
    Apps = {a1, a2}
    Versions = {v1, v2, v3}
    Digest <- Rebuilt
    Builds <- Uneven
    APIs = {run, artifacts}
    RunAPI = run
    RepoAPI = artifacts
    MaxFaults = 1
    MaxChanges = 2
SPECIFICATION Spec
INVARIANTS TypeOK NothingForgotten OkMeansDeployed
PROPERTIES Deploys
