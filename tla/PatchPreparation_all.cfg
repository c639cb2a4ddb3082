SPECIFICATION Spec
CONSTANTS
  Margin = 1
  MaxSource = 2
  MaxReplacement = 3
  MaxOutput = 3
  MinOutput = 1
  PromptBytes = 3
  Pages = {p1, p2}
  Commands = {c1}
  Sources <- MCSources
  Answers <- MCAnswers
  Blocks <- MCBlocks
  NoPatch = NoPatch
SYMMETRY PageSymmetry
INVARIANTS
  OnePatchPerFinding
  ProvedIsWhatIsSuggested
  UneditedIsRecognized
  WindowIsWhole
