SPECIFICATION Spec
CONSTANTS
  Names = {"a", "b", "c"}
  Values = {"x", "y", "z"}
  Matrices <- AllMatrices
INVARIANTS
  ProductExact
  RunsAsDocumented
