\* Two handlers at a time, one person before and after linking a wallet.
SPECIFICATION Spec
CONSTANTS
  None = None
  quest = quest
  Player <- Players
  Quest = {quest}
  Catalog = {quest}
  Interaction <- Interactions
  Essay <- Essays
  Worker = {w1, w2}
  MaxLate = 1
SYMMETRY Workers
VIEW ButResponse
INVARIANTS TypeOK
PROPERTIES CompletedOnMerit NoWayBack
