\* Two commands on one stack, two releases of the modules and of the CLI, two
\* platforms; two shards; two runs on one bucket at a time, three in all;
\* two plugins of the engine.
CONSTANTS
    ShardOrder <- MCShardOrder
    Ids = {i1, i2}
    MaxChanges = 2
    MaxRuns = 2
    Commands = {k1, k2}
    Stacks = {s1}
    Platforms = {here, other}
    Host = here
    MaxRelease = 2
    Clis = {1, 2}
    MaxTofuRuns = 2
    Runs = {r1, r2}
    Hosts = {h1, h2}
    NoHost = NoHost
    Repeatable = FALSE
    MaxStateRuns = 3
    Providers = {p1, p2}
SPECIFICATION PartsSpec
CHECK_DEADLOCK FALSE
INVARIANTS
    PartsTypeOK
    DeleteSound
    StacksWork
PROPERTIES
    BucketSound
