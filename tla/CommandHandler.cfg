\* One device with two capabilities, which may share a path, and one request.
SPECIFICATION Spec
CONSTANTS
    Nodes = {n1}
    Paths = {p1, p2}
    SemanticTypes = {"temperature", "relay"}
    Readable = {"temperature"}
    Nothing = Nothing
    ProtocolError = ProtocolError
    MaxCaps = 2
    MaxInFlight = 1
SYMMETRY PathSymmetry
INVARIANTS TypeOK OkIsDone ReportsAreLabelled
PROPERTY RegistryAsPromised
