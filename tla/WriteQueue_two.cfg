\* Two producers and no lock: two calls that returned ESP_OK may have queued one command.
CONSTANTS
  mqtt = mqtt
  httpd = httpd
  stove_state = stove_state
  power_set = power_set
  v1 = v1
  v2 = v2
  Addrs = {stove_state, power_set}
  Values = {v1, v2}
  Producers = {mqtt, httpd}
  WRITE_Q_SIZE = 8
  MaxCalls = 2
SPECIFICATION Spec
INVARIANTS
  OkMeansQueued
CHECK_DEADLOCK FALSE
