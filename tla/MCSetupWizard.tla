--------------------------- MODULE MCSetupWizard ----------------------------
(***************************************************************************)
(* SetupWizard on small instances: two commands in flight at once, as a    *)
(* stray user list makes possible, with one site, and two sites to review  *)
(* one after the other.  Two devices where two acceptances can overlap at  *)
(* one site, so that the first can write back without what the second has  *)
(* added.                                                                  *)
(***************************************************************************)
EXTENDS SetupWizard

CONSTANTS dev1, dev2

Deployment(profile, devices, sites, inflight) ==
  [profile |-> profile, devices |-> devices, sites |-> sites,
   inflight |-> inflight]

AllDeployments ==
  {Deployment("dev-vxrail", {dev1}, 2, 2),
   Deployment("appliance", {dev1, dev2}, 1, 2),
   Deployment("appliance", {dev1}, 2, 1)}
=============================================================================
