SPECIFICATION Spec
CONSTANTS
  Line = {"a", "b", "c"}
  Time <- SomeTimes
  Delta <- ShortAndLong
PROPERTIES
  ImplementsDebug
