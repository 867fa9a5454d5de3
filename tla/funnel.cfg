\* Two workers, two streams, two messages: one toggle, one new policy.
CONSTANTS
  w1 = w1  w2 = w2  m1 = m1  m2 = m2  s1 = s1  s2 = s2
  alice = alice  bob = bob  idiot = idiot  skins = skins
  insult = insult  scam = scam  link = link  newcomer = newcomer  limit = limit
  Workers = {w1, w2}
  Rules = {insult, scam, link, newcomer, limit}
  Row <- RowOf
  RowOrders <- EitherWay
  Everywhere = Everywhere
  NoRule = NoRule
  EnabledAtStart = {insult, link, newcomer, limit}
  Tables <- BothOrNone
  TableAtStart <- Both
  DEFAULT <- Defaults
  Streams = {s1, s2}
  Hash <- HashOf
  Messages = {m1, m2}
  Stream <- StreamOf
  Author <- AuthorOf
  Risk <- RiskOf
  Age <- AgeOf
  NoAge = NoAge
  Says <- Text
  Links <- LinksIn
  Shape <- ShapeOf
  INSULTS = {idiot}
  SCAM = {skins}
  Toxicity <- ToxicityOf
  RiskUnit = 1
  BatchSize = 2
  MaxToggles = 1
  MaxEdits = 1
SYMMETRY Symmetry
SPECIFICATION Spec
INVARIANTS
  TypeOK
  WorkersAgree
  TopRuleDecides
  NothingFallsThrough
  RaidsAreHidden
