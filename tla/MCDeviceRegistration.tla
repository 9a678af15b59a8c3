------------------------ MODULE MCDeviceRegistration ------------------------
(* Model checking DeviceRegistration: one device per console program, and  *)
(* the forms other programs post.                                          *)
EXTENDS DeviceRegistration, TLC

CONSTANTS d1, d2

MCAlg == d1 :> "ES256" @@ d2 :> "RS256"

GoodForm == [grant_type |-> "fp_register", client_id |-> "cid-fp-device", alg |-> "ES256"]
TwoForms == {GoodForm, [GoodForm EXCEPT !.alg = "other"]}
=============================================================================
