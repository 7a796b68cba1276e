SPECIFICATION Spec
CONSTANTS
  Device = {m1}
  Caller = {t1, t2, t3}
  Ode = {"_device", "_speed"}
  Obs = {"device", "pressure"}
  Type = {"s", "i"}
  Default = "s"
  PreOde = "_device"
  PreObs = "device"
  Background = Background
  None = None
INVARIANTS TypeOK TypeWasAnswered GrantedOnce
PROPERTIES OneCreator KeepsPromise
SYMMETRY CallerSymmetry
CHECK_DEADLOCK FALSE
