\* The firmware packages of two distributions on one host.
SPECIFICATION Spec
CONSTANTS
  Versions <- SomeVersions
  Rows <- SomeRows
INVARIANTS
  SecureBootFirst
