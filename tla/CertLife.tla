------------------------------ MODULE CertLife ------------------------------
(***************************************************************************)
(* The life of a device certificate under the provisioning scripts: put    *)
(* together once, in use, and then taken apart in an order AWS IoT accepts *)
(* (deprovision-device.sh is the "reverse of provision-device.sh").  A     *)
(* certificate never goes back and never skips a stage, and the thing one  *)
(* is attached to exists.                                                  *)
(***************************************************************************)

CONSTANT Certs

VARIABLES registered,   \* is the thing in the registry
          life          \* the stage of each certificate

After == [unminted |-> "minted", minted |-> "permitted", permitted |-> "bound",
          bound |-> "listed", listed |-> "unpermitted", unpermitted |-> "unbound",
          unbound |-> "inactive", inactive |-> "deleted"]

BoundStages == {"bound", "listed", "unpermitted"}

Init == registered = FALSE /\ life = [c \in Certs |-> "unminted"]

Register == registered' = TRUE /\ UNCHANGED life

Unregister ==
  /\ registered' = FALSE /\ \A c \in Certs : life[c] \notin BoundStages
  /\ UNCHANGED life

Advance(c) ==
  /\ life[c] \in DOMAIN After /\ (life[c] = "permitted" => registered)
  /\ life' = [life EXCEPT ![c] = After[@]]
  /\ UNCHANGED registered

Next == Register \/ Unregister \/ \E c \in Certs : Advance(c)

Spec == Init /\ [][Next]_<<registered, life>>
=============================================================================
