SPECIFICATION Spec
CONSTANTS
  c1 = c1
  c2 = c2
  h1 = h1
  h2 = h2
  s1 = s1
  s2 = s2
  Turn = {t1, t2}
  Root = Root
  NoTurn = NoTurn
  NoOrigin = NoOrigin
  Client = {c1}
  Handler = {h1, h2}
  Session = {s1, s2}
  ClientOf <- WithRoot
  Serves <- TwoProviders
  Breakable = {}
PROPERTIES
  EchoSettlesItsAction
CHECK_DEADLOCK FALSE
