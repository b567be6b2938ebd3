INIT StudyInit
NEXT StudyNext
CONSTANTS
  PlanRequests = {r1, r2}
  LibHandlers = {r1, r2}
  Requests = {r1, r2}
  Tasks = {a1, a2}
  Days = {1}
  TaskWishes = {"pending", "completed"}
  PlanWishes = {"active", "completed", "cancelled"}
  Sources = {a1, a2}
  Folders = {f1}
  LibProjects = {p1, p2}
  MainProject = p1
  Quotas <- LibraryQuotas
  SizeOf <- LibrarySizes
  Quizzes = {z1, z2}
  Questions = {a1, a2}
SYMMETRY Symmetry
INVARIANT ProgressIsTrue
INVARIANT WithinQuota
INVARIANT FileOfSource
INVARIANT SourceInProjectOfFolder
INVARIANT PublishedIsGradable
PROPERTY ReadyStaysReady
PROPERTY PublishedContentIsImmutable
CHECK_DEADLOCK FALSE
