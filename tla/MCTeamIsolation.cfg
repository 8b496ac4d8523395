SPECIFICATION TeamSpec
CONSTANTS
    Facts <- MCFacts
    Body <- MCBody
    Programs <- MCPrograms
    Reads <- MCReads
    Writes <- MCWrites
    Compute <- MCCompute
    Agents = {a1, a2}
    Spaces = {s1}
    Work = {w1}
    MaxFence = 2
SYMMETRY MCSymmetry
PROPERTIES Serializable NoLostUpdate FencesAdvance
