SPECIFICATION Spec
CONSTANTS
  a = a
  b = b
  c = c
  Tasks = {a, b}
  QoS0 = {a}
  Filter <- Private
  MQTT_AGENT_MAX_SUBSCRIPTIONS = 4
  MQTT_AGENT_MAX_CALLBACKS = 4
  MaxCount = 4
  MaxLosses = 1
  Faults = {"quietLoss"}
PROPERTY Unsubscribed
CHECK_DEADLOCK FALSE
