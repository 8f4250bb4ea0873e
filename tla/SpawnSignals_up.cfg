SPECIFICATION FairSpawnSpec
CONSTANTS
    Workers = {w1, w2}
    Spawner = spawner
    KillGrace = 3
    StopGrace = 2
PROPERTIES
    SpawnerStopped
