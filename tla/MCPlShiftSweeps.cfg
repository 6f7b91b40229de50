SPECIFICATION Spec
CONSTANTS
    Main = main
    Goals = {g1, g2}
    MaxHeap = 1
    MaxTrail = 7
    MaxChoices = 1
    MaxGen = 3
    Strict = FALSE
INVARIANTS
    SweptAreDead
