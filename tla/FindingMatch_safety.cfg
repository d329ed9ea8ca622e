SPECIFICATION Spec
CONSTANTS
  MaxTargets = 3
  MaxReports = 3
INVARIANTS TypeOK AddedReportNeverCosts PaidExactlyForMatches HalfOfBest
