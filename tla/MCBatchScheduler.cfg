SPECIFICATION FairSpec
CONSTANTS
    j1 = j1
    j2 = j2
    j3 = j3
    Jobs <- MCJobs
    MaxSequences = 3
    MaxScheduled = 4
    MaxPrefill = 2
    Chunk = 2
    MaxPrompt = 2
PROPERTIES PrefillServed
