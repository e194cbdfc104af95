SPECIFICATION RouterFairSpec
CONSTANTS
  Providers = {"openai", "azure"}
  Reported <- OneName
  Models = {"gpt", "o1"}
  Supported <- OneWildcard
  Requests = {r1}
  Kinds = {"chat", "stream"}
  Strategy = "latency"
  Latencies = {1, 3}
  Unit = 220
  HistoryCap = 7
INVARIANT RouterTypeOK
INVARIANT SevenInARowTrip
INVARIANT DroppedAfterSevenFailures
PROPERTY DeadProviderLeftAlone
