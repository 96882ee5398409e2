SPECIFICATION Spec
CONSTANTS
    A = A
    B = B
    C = C
    D = D
    P = P
    R = R
    S = S
    Null = Null
    Stub = Stub
    Consumer = Consumer
    Task <- FourTasks
    Producer <- ThreeProducers
SYMMETRY SymmetricNodes
INVARIANTS TypeOK PointersFollow LinksBehindLiveNode
PROPERTIES IsMPSCQueue AnswersAreRight
