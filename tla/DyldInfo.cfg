SPECIFICATION Spec
CONSTANTS PtrSize = 8
          Modulus = 4096
          Inputs <- Images
INVARIANTS SameFixups InsideSegments
