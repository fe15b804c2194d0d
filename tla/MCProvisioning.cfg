SPECIFICATION Spec
CONSTANTS
  Certs = {c1, c2, c3}
  NoCert = NoCert
SYMMETRY CertSymmetry
INVARIANTS DeletesAccepted RecordedBundleWorks LeftoversWereCut
