CONSTANTS
    a = a
    b = b
    c = c
    Nodes <- MCNodes
SPECIFICATION Spec
INVARIANTS
    Acyclic
