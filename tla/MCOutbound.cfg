SPECIFICATION Spec
CONSTANTS
  Requests = {1, 2}
  Faults = 2
  Asks <- Rows
  me = me
  ana = ana
  bob = bob
  lme = lme
  lana = lana
  lbob = lbob
  chat = chat
  People = {me, ana, bob}
  Me = me
  Lid <- Lids
  ChatNames = {chat}
  PeerOf <- Peers
  NoPeer = NoPeer
  SpeaksLID = {}
  Mentioned <- Called
  MaxHeard = 3
  NoSend = NoSend
  yes = yes
  YES = YES
  no = no
  one = one
  other = other
  none = none
  Offers <- Wires
  Texts <- Spoken
  Folded <- Fold
  NoID = none
  NoOffer = NoOffer
  NoAnswer = NoAnswer
  Junk = Junk
  MaxWant = 2
  NoCall = NoCall
INVARIANTS OutboundTypeOK Accounted FailedForGood MentionsSpeakTheChat PressesWhatItNames MovesWhoWasAsked
PROPERTIES RowSettles
CHECK_DEADLOCK FALSE
