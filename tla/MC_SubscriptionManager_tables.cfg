SPECIFICATION Spec
CONSTANTS
  a = a
  b = b
  c = c
  Tasks = {a, b, c}
  QoS0 = {a}
  Filter <- Private
  MQTT_AGENT_MAX_SUBSCRIPTIONS = 4
  MQTT_AGENT_MAX_CALLBACKS = 4
  MaxCount = 3
  MaxLosses = 1
  Faults = {"quietLoss", "refused"}
INVARIANT TypeOK
INVARIANT TableServes
INVARIANT BrokerServes
INVARIANT OwnFilterOnly
CHECK_DEADLOCK FALSE
