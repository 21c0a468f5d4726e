\* One parent, one form.
CONSTANTS
  Parent = {"a"}
  Sub = {"default", "high"}
  Slot = {"s1"}
  MaxOpens = 1
SPECIFICATION Spec
PROPERTIES
  SubQueueKeepsDeployment
CHECK_DEADLOCK FALSE
