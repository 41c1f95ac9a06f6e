CONSTANTS
  A = A
  B = B
  None = None
  Mixed = Mixed
  Projects = {A, B}
  Products = {1, 2}
  Product <- OneEach
  Actions = {"new", "r", "R", "ota", "snod", "clean", "clone", "copybin"}
  Asked <- AllOfA
  MaxFaults = 2
SPECIFICATION Spec
INVARIANTS
  PackagesSuccess
  KeepsAPackage
  PackagesOwnBuild
