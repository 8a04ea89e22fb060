SPECIFICATION Spec
CONSTANTS PtrSize = 8
          Modulus = 4096
          Inputs <- TouchingBinds
INVARIANT InsideSegments
