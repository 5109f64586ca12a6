SPECIFICATION Spec
CONSTANTS
  a1 = a1
  officer = officer
  admin = admin
  subadmin = subadmin
  r1 = r1
  r2 = r2
  s1 = s1
  s2 = s2
  g1 = g1
  g2 = g2
  null = null
  None = null
  Assessments <- OneAssessment
  Users <- OfficerAndOne
  Validators <- OneValidator
  Permanent <- OneOfficer
  Requests <- TwoRequests
  Sections <- OneSection
  Groups <- OneGroup
PROPERTY OnlyDraftsAreDeleted
