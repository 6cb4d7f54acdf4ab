SPECIFICATION MCSpec
CONSTANTS
  a = a  b = b  t1 = t1  t2 = t2
  Facts = {a, b}
  Conf <- MCConf
  MaxFacts = 1
  Answers = 2
  Calls = 2
  Workers = {p, q}
  Triples = {t1, t2}
  Ends <- MCEnds
  Contents = {c}
  MaxExp = 1
  Days = 2
  KbSteps = 5
SYMMETRY MCSymmetry
INVARIANTS NothingIsLost KnowledgeIsSound
\* Sessions and calls are bounded, so the model ends.
CHECK_DEADLOCK FALSE
