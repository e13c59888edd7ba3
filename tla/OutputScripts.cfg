CONSTANTS
    Scripts <- MCScripts
    UninitializedBytes = {0, 2}
SPECIFICATION Spec
INVARIANTS TypeOK StandardDecoded KeysInside SilentMeansDecoded
