SPECIFICATION SkillSpec
CONSTANTS
  Skill = {"a", "b"}
  Overridden = "a"
  Absent = Absent
CHECK_DEADLOCK FALSE
INVARIANT
  PayloadStillRuns
