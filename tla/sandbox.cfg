SPECIFICATION SandboxSpec
CONSTANTS
    Calls = {c1, c2, c3}
    MaxGens = 2
    Nobody = nobody
    Jobs = {create, exec, close}
    Creator = create
    Closer = close
    Limit = 2
    MaxOutput = 3
INVARIANTS
    NoStrayLines
    TimeoutKillsGroup
    ResultHonest
PROPERTIES
    EveryExecReturns
