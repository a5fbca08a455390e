---------------------------- MODULE MCLifecycle ----------------------------
(* A control thread, the PnP manager, one request, and two other disks.      *)
EXTENDS Lifecycle
CONSTANTS t1, pnp, u1, disk, other1, other2
=============================================================================
