SPECIFICATION Spec
CONSTANTS
  g1 = g1 g2 = g2
  Inits = {g1, g2}
  KafkaTopic = {g2}
  MaxSpans = 3
  None = None
  Text = {"", "u", "w", "service", "kafka", "redis_stream", "grpc", "http", "topic"}
  DefaultText <- MCDefaultText
INVARIANTS CleanupStopsOwn GlobalsAgree ExportedIsWritten
CHECK_DEADLOCK FALSE
