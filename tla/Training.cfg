SPECIFICATION SpecEither
CONSTANTS
  None = None
  Residuals <- Vectors
  Centroids <- Origin
  Widths = {0, 1, 2, 3, 4}
  Constants <- Factors
  Unit = 60
  Reseeds = 2
  Mantissa = 24
  Inputs <- SmallInputs
INVARIANTS
  SumsExact HeapExact OrderKept ExactAlongResidual ExtraBitsHelp
  Accounted Consistent Separates
PROPERTIES Implements Descends IsLloyd
