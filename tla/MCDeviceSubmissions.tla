------------------------ MODULE MCDeviceSubmissions ------------------------
(* Small instances of DeviceSubmissions: devices that are lab routers, and *)
(* policies that a configuration of each may violate.                      *)
EXTENDS DeviceSubmissions

CONSTANTS s1, s2, r1, r2, router1, router2, acl1, acl2, i1, i2, i3, i4, cisco, arista, frr

MCSession == SubmitSession \cup RegisterSession
MCOneRouter == <<router1>>
MCTwoRouters == <<router1, router2>>
MCFirstRouterPolicy == [d \in Device |-> IF d = router1 THEN Fingerprint ELSE {}]
=============================================================================
