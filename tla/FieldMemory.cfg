SPECIFICATION Spec
CONSTANTS
  Labels = {"notice period"}
  Known = {"notice period"}
  Values = {"A", "B"}
  NoValue = "-"
  Sites = {"ASHBY"}
  Resume <- NoResume
  LegacyAnswers <- OldRows
  ServerAnswers <- Downloads
  MaxUses = 5
INVARIANT TypeOK
INVARIANT ConfidenceIsEarned
PROPERTY MergeProtection
PROPERTY AskedOnlyIfUnknown
PROPERTY OneAnswerPerSession
