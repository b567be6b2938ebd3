INIT RequestsInit
NEXT RequestsNext
CONSTANTS
  UserRequests = {r1, r2}
  AdminRequests = {r1, r2}
  TicketRequests = {r1, r2}
  Forwarders = {r1, r2}
  Posts = {r1, r2}
  Tokens = {a1, a2}
  OTP_MAX_ATTEMPTS = 2
  MaxCodes = 2
  MaxPasswords = 2
  u1 = u1
  u2 = u2
  u3 = u3
  super = super
  support = support
  staff = staff
  Admins = {u1, u2, u3}
  SuperRole = super
  SystemRoles = {super, support}
  CustomRoles = {staff}
  Perms <- AllPerms
  PermSets <- SomePermSets
  DefaultPerms <- SeededPerms
  FirstAdmins <- TwoAdmins
  MaxServed = 3
  MaxVersions = 3
  MaxForwardRetries = 1
  Bodies <- SomeBodies
  AllSources <- ThreeSources
  Audio = {1}
  Derived = {3}
  SourceLimit = 2
  MaxDrift = 1
  Tiers = {free, pro}
  DefaultTiers <- OnlyFree
  FreeTier = free
  free = free
  pro = pro
  PlanClerks = {r1, r2}
  SubStatuses <- Trialing
  SubEnds <- StillOpen
  ProjectIds = {p1, p2}
  p1 = p1
  p2 = p2
  OwnerRequests = {o1}
  Cases <- SomeCases
  MaxQuestions = 2
  MaxChoices = 3
  MaxTasks = 3
  LeastDaily = 1
  MostDaily = 2
SYMMETRY Symmetry
INVARIANT DeletedIsLockedOut
INVARIANT GuessesAreCounted
INVARIANT NothingFromNowhere
INVARIANT FinalSaysWhen
INVARIANT ForwardedWasReceived
INVARIANT SentIsRecorded
INVARIANT AcceptedCanBeSent
INVARIANT OneJobPerInput
INVARIANT EventsTellPlan
INVARIANT StaysScoped
INVARIANT MaterializedIsUsable
PROPERTY UndoneByStaleEditOnly
PROPERTY DeletionLeavesSuperAdmin
CHECK_DEADLOCK FALSE
