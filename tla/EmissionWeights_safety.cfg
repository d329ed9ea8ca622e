SPECIFICATION Spec
CONSTANTS
  Hotkeys <- MCHotkeys
  Entrants <- MCEntrants
  Percents <- MCPercents
  Authors = {1, 6}
  Salts <- MCSalts
  NoScore = NoScore
  Unit = 1
INVARIANTS TypeOK WholeEmissionPaid OnlyActiveEarn AheadEarnsNoLess
PROPERTY RaiseNeverCosts
