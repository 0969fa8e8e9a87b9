SPECIFICATION Spec
CONSTANTS
    Saves = {s1, s2}
    Batches <- MCBatches
SYMMETRY Symmetric
 
PROPERTIES OnlySubmittedMoves
