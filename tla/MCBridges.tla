----------------------------- MODULE MCBridges ------------------------------
(* A stove with water and one without; the cloud and its account given,    *)
(* taken away, and with the model cached; the discovery switched off.      *)
EXTENDS Bridges

MCSetting(discovery, account, cloudOn, cachedModel) ==
  [provisioned |-> TRUE, discovery |-> discovery, account |-> account, cloud |-> cloudOn,
   cached |-> cachedModel]

MCSettings ==
  {MCSetting(TRUE, FALSE, FALSE, FALSE), MCSetting(TRUE, TRUE, TRUE, FALSE),
   MCSetting(FALSE, TRUE, TRUE, TRUE)}
=============================================================================
