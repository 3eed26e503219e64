SPECIFICATION Spec
CONSTANTS
  None = None
  s1 = s1
  u1 = u1
  u2 = u2
  u3 = u3
  l1 = l1
  g1 = g1
  x1 = x1
  p1 = p1
  p2 = p2
  c1 = c1
  d1 = d1
  h1 = h1
  w1 = w1
  w2 = w2
  m1 = m1
  f1 = f1
  t1 = t1
  t2 = t2
  k1 = k1
  k2 = k2
  Users = {s1, u1, u2, u3}
  Classrooms = {0, 1, 2}
  Requests = {r1, r2}
  InitialFunds <- MCFunds
  HomeRoom <- MCHomeRoom
  Workloads <- MCStuckWorkloads
  MaxRequests <- MCStuckMaxRequests
  MaxRestarts = 0
  Staff = s1
  StartAccount <- MCAccount
  StartSeat <- MCRows
  StartMember <- MCMember
  StartRooms = {1}
  InitialCapital = 2
  Gifts <- MCGifts
  Loans = {l1, l2}
  StartLoan <- MCLoan
  LoanAmounts = {3}
  Rates = {0, 2600}
  Repayments = {3}
  GrantIds = {g1, g2}
  StartGrant <- MCGrant
  Applications = {x1, x2}
  StartApplication <- MCApplication
  GrantRewards = {2}
  PostIds = {p1, p2, p3}
  StartPost <- MCPost
  Comments = {c1, c2}
  StartComment <- MCComment
  LikeReward = 1
  CommentReward = 1
  PostReward = 2
  AssignReward = 2
  MaxScore = 3
  KeyIds = {1, 2, 3}
  StartKey <- MCKey
  Costs = {0, 4}
  MaxDays = 2
  Sessions = {h1, h2}
  StartSession <- MCSession
  Slots = 1
  HistoryLimit = 50
  MaxToolHops = 2
  MaxCalls <- MCStuckMaxCalls
  DbIds = {b1, b2, b3}
  Projects = {w1, w2}
  Wishes <- MCWishes
  Slug <- MCSlug
  MaxPerUser = 1
  MaxOutages = 1
  Addresses = {m1, m2}
  StartAddress <- MCAddress
  Keeper <- MCKeeper
  Parts = {t1, t2}
  Mvps <- MCMvps
  Texts = {t1, t2}
  LongTexts = {t2}
  Finds <- MCFinds
  ServiceIds = {1, 2, 3}
  StartService <- MCService
  Urls = {t1, t2, t3}
  OwnerOf <- MCOwnerOf
  RoomOf <- MCRoomOf
  MaxFiles <- MCStuckMaxFiles
  MessageIds = {1, 2}
  Suggestions = {1, 2}
  NoticeIds = {1, 2, 3, 4}
  Endpoints = {e1}
  Letters <- MCLetters
  Audience = {u1}
  Apps = {1, 2}
  StartApp <- MCApp
  Codes = {1, 2, 3, 4}
  StartCode <- MCCode
  Pairs = {1, 2, 3, 4}
  Resets = {1, 2, 3, 4}
  Slugs = {k1, k2, k3}
  Image = {k1, k3}
  StartFiles <- MCFiles
  SkillIds = {1, 2, 3, 4}
  SkillNames = {q1, q2}
  BuiltIn = {q1}
  Clients = {d1, d2}
  Owner <- MCOwner
  BufSize = 1
PROPERTIES
  ClientsGetRegistered
