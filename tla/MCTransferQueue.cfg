SPECIFICATION QueueSpec
CONSTANTS
    NumShards = 2
    NSamples = 2
    MaxGroups = 3
    f1 = f1
    f2 = f2
    t1 = t1
    t2 = t2
    FwdWorkers <- MCFwd
    TrainRanks <- MCTrain
    Share <- MCShare
SYMMETRY MCSymmetry
INVARIANTS
    QueueTypeOK
    ReadyIsStored
    HandedOutOnce
    LostOnlyByRace
    RanksMeet
