CONSTANTS
  r1 = r1
  r2 = r2
  Requests <- MCRequests
  Users <- MCUsers
  Mails <- MCMails
  AllowedMails <- MCAllowed
  Codes = {"c1"}
  Passwords = {"p", "q"}
  RegistrationForms <- MCForms
  FirstAccounts <- MCFirst
  MaxAccounts = 3
  MaxStarts = 3
  MaxFaults = 1
  MaxFailures = 2
  RequireInvite = TRUE
  NoCode = "none"
  Documents <- MCDocuments
  Hub <- MCHub
  DirOrder <- MCDirOrder
  Slug <- MCSlug
  Title <- MCTitle
  Known <- MCKnown
  Categories = {"engineering"}
  BuiltIn = {"alpha"}
  Tags = {"t"}
  Owners = {"ann"}
  MaxSkills = 2
  MaxBoots = 1
  MaxItems = 3
  QueueSize = 1
  Coroutine = {"a", "b"}
  MaxSize = 1
  MaxPools = 2
SPECIFICATION PlatformSpec
INVARIANTS
  InviteSpentOnce
  LockedWhenExceeded
  PrimaryMatches
  
  AcceptedIsHeld
  CommittedWhole
SYMMETRY Symmetric
CHECK_DEADLOCK FALSE
