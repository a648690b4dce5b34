CONSTANTS
  c1 = c1
  c2 = c2
  f1 = f1
  f2 = f2
  s1 = s1
  s2 = s2
  s3 = s3
  Client <- MCClient
  Fp <- MCFp
  Sid <- MCSid
  None = None
SPECIFICATION Spec
INVARIANTS TypeOK AccessNeedsCode SetupSpent
SYMMETRY MCSymmetry
