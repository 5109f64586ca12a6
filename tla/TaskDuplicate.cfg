SPECIFICATION Spec
CONSTANTS
  t1 = t1
  t2 = t2
  a1 = a1
  a2 = a2
  u1 = u1
  u2 = u2
  p1 = p1
  r1 = r1
  r2 = r2
  None = None
  MaxBatch = 2
  Tasks <- OneTask
  Assessments <- TwoAssessments
  Users <- OneUser
  Periods <- OnePeriod
  Requests <- TwoRequests
SYMMETRY Symmetry
INVARIANT OneDraftPerPeriod
