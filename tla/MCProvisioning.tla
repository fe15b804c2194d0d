--------------------------- MODULE MCProvisioning ---------------------------
(* Provisioning for TLC.                                                    *)
EXTENDS Provisioning, TLC

\* Certificates are interchangeable until they are minted.
CertSymmetry == Permutations(Certs)
=============================================================================
