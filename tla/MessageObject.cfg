SPECIFICATION Spec
CONSTANTS
    Objects = {o1, o2}
    Result = res
    Fields <- MCFields
    Keys = {1, 2}
    RunKeys <- MCRunKeys
    MaxArgs = 2
    MaxPushes = 2
    MaxCalls = 2
INVARIANTS TypeOK IsReplay OnlySelfMergeDangles
PROPERTIES CopyKeepsSource LosesNothing Returns
