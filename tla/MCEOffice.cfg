SPECIFICATION Spec
CONSTANTS
    Callers = {c1, c2}
    Requester = requester
    Reviewers = {r1, r2}
    Admin = admin
    Nobody = Nobody
    MaxActions = 4
SYMMETRY Symmetric
INVARIANTS
  SubmissionIsSound
PROPERTIES
  SubmittedTextIsFinal
CHECK_DEADLOCK FALSE
