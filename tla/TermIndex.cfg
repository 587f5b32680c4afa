SPECIFICATION FairSpec
CONSTANTS
  p1 = p1
  p2 = p2
  tok1 = tok1
  tok2 = tok2
  x = x
  y = y
  Process = {p1, p2}
  Tokenizer = {tok1, tok2}
  TokOf <- TwoBuilds
  Text = {x, y}
  Word = {1, 2}
  Words <- MCWords
  MaxSeq = 2
  Slice = 1
  Chunk = 1
  Absent = Absent
  Forgotten = Forgotten
  NoProcess = NoProcess
INVARIANTS IndexExact
PROPERTIES BuildKeepsProgress BuildEnds
