SPECIFICATION Spec
CONSTANTS
    r1 = r1 r2 = r2
    n1 = n1 n2 = n2 n3 = n3
    a1 = a1 a2 = a2
    T1 = T1 T2 = T2 None = None Zero = Zero
    Roots = {r1, r2}
    Pool = {n1, n2, n3}
    Allocs = {a1}
    Keys = {11}
    ScalarTypes = {"string"}
    Payloads = {Zero}
    MaxLen = 2
    MaxAutoGrowth = 1
    SizeMax = 7
SYMMETRY Interchangeable
INVARIANTS NoDangling SingleOwner Acyclic NoLeak
PROPERTY DocSpec
