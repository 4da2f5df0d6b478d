----------------------------- MODULE MCUserData -----------------------------
(* Instances of UserData for TLC                                           *)
EXTENDS UserData

NoVlan == -1
=============================================================================
