SPECIFICATION FairSpec
CONSTANTS
    Tasks = {t1, t2}
    WorkerSteps = 3
    PoolStep = 1
    ConsumerSteps = 4
    Connecting = {1, 2}
    Talking = {3}
    Configurations <- TwoConfigurations
    MaxErrors = 2
    MaxSignals = 4
PROPERTY StepsInOrder ShutdownEnds
CHECK_DEADLOCK FALSE
