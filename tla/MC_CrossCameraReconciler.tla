---------------------- MODULE MC_CrossCameraReconciler ----------------------
(* One slave, compared with the master on two stream identities.            *)
EXTENDS CrossCameraImages

CONSTANTS s1, ir, color

MCSlaves == {s1}
MCIdentities == {ir, color}
MCSpecs == [slave : MCSlaves, identity : MCIdentities]
MCEpoch == [c \in Cameras |-> IF c = Master THEN 0 ELSE 7]
=============================================================================
