----------------------------- MODULE MCPresence -----------------------------
(* Small instances of Presence: a user with two devices and a second user. *)
EXTENDS Presence, TLC

CONSTANTS alice, bob, phone, laptop, tablet

MCUsers == {alice, bob}
OneUser == {alice}
TwoSockets == {phone, laptop}
ThreeSockets == {phone, laptop, tablet}

OwnerOfTwo == [s \in TwoSockets |-> alice]
OwnerOfThree == [s \in ThreeSockets |-> IF s = tablet THEN bob ELSE alice]
=============================================================================
