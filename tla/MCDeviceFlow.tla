---------------------------- MODULE MCDeviceFlow ----------------------------
(* Model checking DeviceFlow: other programs call both SMS steps. *)
EXTENDS DeviceFlow

SmsSteps == {"StartSmsVerification", "VerifyPhoneNumberWithSmsCode"}
=============================================================================
