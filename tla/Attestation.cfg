SPECIFICATION FairSpec
INVARIANTS TypeOK StakesAreBacked UpheldIsUnpaid 
PROPERTIES
    UnderstakedOnlyByAdmin
    QuorumDecides
    
    
CONSTANTS
    v1 = v1
    v2 = v2
    t1 = t1
    b1 = b1
    none = none
    Verifiers = {v1, v2}
    Tasks = {t1}
    Bindings = {b1}
    NoTask = none
    Amounts = {1}
    Minimums = {0, 1}
    Rewards = {1}
    Quorums <- QuorumChoices
    MaxHeld = 2
    MaxChanges = 1
    MIN_CHALLENGE_WINDOW = 1
    Windows = {0, 2}
    InitialWindow = 1
    ChallengeStakes = {0, 1}
    FeeShares = {0, 1}
    MaxTime = 3
