SPECIFICATION Spec
CONSTANTS
  MaxEvents = 3
  MaxBreaks = 3
  Faults = {{}, {"status"}, {"twice"}, {"late"}}
CHECK_DEADLOCK FALSE
INVARIANTS NothingRepeated ClosedStaysClosed TurnedAwayIfAsked
PROPERTIES NoReconnectObeyed Reconnects
