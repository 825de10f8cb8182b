SPECIFICATION Spec
CONSTANTS
  Clients = {c1, c2}
  Candidates = {t1, t2}
  Active = active
  Digests = {d1, d2, d3}
  Absent = Absent
  Nobody = Nobody
  Faults = {"read", "lost", "late", "reject", "crash"}
SYMMETRY Symmetry
CHECK_DEADLOCK FALSE
INVARIANTS TypeOK SuccessWasVisible AbsenceIsAccounted LossIsReported
PROPERTIES RemovesOnlyWhatItReplaces KeepsPromise
