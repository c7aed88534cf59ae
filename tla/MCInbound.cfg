SPECIFICATION Spec
CONSTANTS
  me = me
  ana = ana
  bob = bob
  lme = lme
  lana = lana
  lbob = lbob
  lidGroup = lidGroup
  pnGroup = pnGroup
  lidChat = lidChat
  pnChat = pnChat
  m1 = m1
  m2 = m2
  m3 = m3
  m4 = m4
  m5 = m5
  m6 = m6
  m7 = m7
  m8 = m8
  red = red
  blue = blue
  mauve = mauve
  People = {me, ana, bob}
  Me = me
  Lid <- Lids
  ChatNames = {lidGroup, pnGroup, lidChat, pnChat}
  PeerOf <- Peers
  NoPeer = NoPeer
  SpeaksLID = {lidGroup, lidChat}
  Messages = {m1, m2, m3, m4, m5, m6, m7, m8}
  ChatOf <- Chatted
  AuthorOf <- Authors
  NoPost = NoPost
  Voters = {1, 2}
  Options <- PollOptions
  Ballots <- LiveVotes
  Restarts = 1
  NoVote = NoVote
  NoHand = NoHand
  NoTold = NoTold
  Feed <- Phone
  BatchSize = 2
  Own = 2
  Subjects = 3
  Chatter = 2
  Lives = 2
INVARIANTS InboundTypeOK PostsNameTheirRow IdsLeadBack OnlyTheLiveArm KeepsTheLatest ToldCountsIt ImportIsWhole SubjectIsHeard
PROPERTIES GroupIsNamed
CHECK_DEADLOCK FALSE
