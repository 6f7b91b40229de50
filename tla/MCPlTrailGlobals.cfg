SPECIFICATION Spec
CONSTANTS
    MaxHeap = 1
    MaxFrames = 1
    MaxChoices = 3
    MaxTrail = 6
    Values = {1, 2}
INVARIANT RestoresGlobals
