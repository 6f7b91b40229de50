SPECIFICATION Spec
CONSTANTS
    MaxHeap = 2
    MaxFrames = 1
    MaxChoices = 2
    MaxTrail = 4
    Values = {1}
INVARIANTS RestoresVariables WakeupsAreFound UnwoundIsTheLoop MarksAreSentinels
