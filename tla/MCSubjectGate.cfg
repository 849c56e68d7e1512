CONSTANTS
    r1 = r1  r2 = r2  r3 = r3  r4 = r4  r5 = r5  ann = ann  bob = bob
    Requests = {r1, r2, r3, r4, r5}
    Subjects = {ann, bob}
    SubjectOf <- Owner
    Process = 3
    PerSubject = 2
SPECIFICATION GateSpec
INVARIANT GateSound
SYMMETRY Alike
