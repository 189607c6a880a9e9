CONSTANTS
  s1 = s1
  s2 = s2
  q1 = q1
  m1 = m1
  m2 = m2
  Nobody = Nobody
  Recorded = {m1}
  Scanners = {s1, s2}
  Requests = {q1}
  Mailboxes = {m1, m2}
  Stale = 1
  Horizon = 2
  Faults = 1
  Changes = 1
CHECK_DEADLOCK FALSE
SPECIFICATION FairSpec
INVARIANTS TypeOK MailedOnce AppliedIsAnswered
PROPERTIES MailIsAuthorized EndedStaysEnded QualifiedIsTaken
