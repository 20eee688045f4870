---------------------------- MODULE MCDeviceList ----------------------------
(* Constants for model-checking DeviceList.                                *)
EXTENDS DeviceList

CONSTANTS i1, i2, a1, a2, n1, n2, phone, computer

MCId == {i1, i2}
MCAddress == {a1, a2}
MCName == {n1, n2}
MCPairState == {"no", "byPeer", "yes"}
MCType == {phone, computer}
MCFirstType == {phone}
Symmetry == 
  {f @@ g @@ h : f \in Permutations(MCId), g \in Permutations(MCAddress), h \in Permutations(MCName)}
=============================================================================
