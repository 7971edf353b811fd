SPECIFICATION Spec
CHECK_DEADLOCK FALSE
CONSTANTS
  dev1 = dev1
  dev2 = dev2
  Deployments <- AllDeployments
INVARIANTS
  DeploymentIsSound
  LoadingHasWork
PROPERTIES
  KeepsEnrolledDevices
