------------------------- MODULE ProvisioningProofs -------------------------
(***************************************************************************)
(* Theorems about Provisioning, for any set of certificates and any number *)
(* of runs of the two scripts, each cut anywhere.                          *)
(***************************************************************************)
EXTENDS Provisioning, TLAPS

\* The commands by what is in hand when the script comes to them.
Minting == {"policy", "attach"}
Bundling == {"mkdir", "ca", "keys", "record"}
Detaching == {"detachPolicy", "detachThing"}
Removing == {"deactivate", "delete"}

\* The command belongs to the script.
InStep ==
  /\ script = "provision" => pc \in {"thing", "mint"} \union Minting \union Bundling
  /\ script = "deprovision" => pc \in {"list", "next"} \union Detaching \union Removing

\* How far the certificate in hand has been put together.
Assembled ==
  /\ pc \in Minting \union Bundling =>
       cur \in Certs /\ cur \notin revoked /\ thing /\ cert[cur].status = "active"
  /\ pc = "policy" => ~cert[cur].policy /\ ~cert[cur].attached
  /\ pc = "attach" => cert[cur].policy /\ ~cert[cur].attached
  /\ pc \in Bundling => cert[cur].policy /\ cert[cur].attached
  /\ pc = "mint" => thing

\* How far it has been taken apart.
TakenApart ==
  /\ pc \in Detaching \union Removing =>
       cur \in Certs /\ cur \in revoked /\ cur \notin todo /\ Exists(cur)
  /\ pc = "detachThing" => ~cert[cur].policy
  /\ pc \in Removing => ~cert[cur].policy /\ ~cert[cur].attached
  /\ pc = "delete" => cert[cur].status = "inactive"

\* What is attached is what the loop over the principals still comes to.
Listed ==
  /\ pc \in {"next"} \union Removing => Attached = todo
  /\ pc \in Detaching => Attached = todo \union {cur}

\* The registry only holds what was minted.
Minted ==
  /\ \A c \in Certs : cert[c].attached => Exists(c)
  /\ \A c \in Certs : cert[c].status = "none" => ~cert[c].policy
  /\ \A c \in revoked : cert[c].status # "none"

\* The output directory of the run that goes on.
Bundled ==
  /\ pc \in {"thing", "mint"} \union Minting \union {"mkdir"} => dir = NoDir
  /\ pc \in Bundling \ {"mkdir"} => dir.has # "record" /\ dir.cert = cur
  /\ dir.has = "record" => dir.cert \in Certs

\* A certificate that nothing attached is in hand, or was when a run was cut.
Accounted ==
  /\ \A c \in Certs : Exists(c) =>
       c \in cutOn \/ cert[c].attached \/ (pc \in Minting \union Removing /\ c = cur)
  /\ reported # "nothing" => pc = "end"

IInv == /\ TypeOK /\ InStep /\ Assembled /\ TakenApart /\ Listed /\ Minted /\ Bundled
        /\ Accounted /\ RecordedBundleWorks /\ LeftoversWereCut

-----------------------------------------------------------------------------

LEMMA InitInv == Init => IInv
  <1> SUFFICES ASSUME Init PROVE IInv
    OBVIOUS
  <1> USE DEF Init, Unminted, NoDir
  <1>1. TypeOK
    BY DEF TypeOK, Labels
  <1>2. InStep /\ Assembled /\ TakenApart /\ Listed /\ Bundled
    BY DEF InStep, Assembled, TakenApart, Listed, Bundled, Minting, Bundling, Detaching, Removing
  <1>3. Minted /\ Accounted /\ RecordedBundleWorks /\ LeftoversWereCut
    BY DEF Minted, Accounted, RecordedBundleWorks, LeftoversWereCut, Exists
  <1> QED BY <1>1, <1>2, <1>3 DEF IInv

LEMMA TypeStep == TypeOK /\ InStep /\ Assembled /\ TakenApart /\ [Next]_vars => TypeOK'
  <1> SUFFICES ASSUME TypeOK, InStep, Assembled, TakenApart, [Next]_vars PROVE TypeOK'
    OBVIOUS
  <1> USE DEF TypeOK, Labels, registry, run, Goes, Ends, NoDir
  <1>1. CASE Provision
    BY <1>1 DEF Provision
  <1>2. CASE CreateThing
    BY <1>2 DEF CreateThing
  <1>3. ASSUME NEW c \in Certs, Mint(c) PROVE TypeOK'
    BY <1>3 DEF Mint
  <1>4. CASE AttachPolicy
    BY <1>4, ZenonT(60) DEF AttachPolicy
  <1>5. CASE AttachThing
    BY <1>5, ZenonT(60) DEF AttachThing
  <1>6. CASE WriteBundle
    BY <1>6 DEF WriteBundle
  <1>7. CASE WriteRecord
    BY <1>7 DEF WriteRecord
  <1>8. ASSUME NEW keep \in BOOLEAN, Deprovision(keep) PROVE TypeOK'
    BY <1>8 DEF Deprovision
  <1>9. CASE ListPrincipals
    BY <1>9 DEF ListPrincipals, Principals, Attached
  <1>10. ASSUME NEW c \in Certs, NextPrincipal(c) PROVE TypeOK'
    BY <1>10 DEF NextPrincipal
  <1>11. CASE DetachPolicy
    BY <1>11, ZenonT(60) DEF DetachPolicy
  <1>12. CASE DetachThing
    BY <1>12, ZenonT(60) DEF DetachThing
  <1>13. CASE Deactivate
    BY <1>13, ZenonT(60) DEF Deactivate
  <1>14. CASE Delete
    BY <1>14, ZenonT(60) DEF Delete
  <1>15. CASE Finish
    BY <1>15 DEF Finish
  <1>16. CASE Cut
    BY <1>16, CertAssumption DEF Cut, TakenApart
  <1>17. CASE RemoveDir
    BY <1>17 DEF RemoveDir
  <1>18. CASE UNCHANGED vars
    BY <1>18 DEF vars
  <1> QED
    BY <1>1, <1>2, <1>3, <1>4, <1>5, <1>6, <1>7, <1>8, <1>9, <1>10, <1>11, <1>12, <1>13,
       <1>14, <1>15, <1>16, <1>17, <1>18
    DEF Next, Provisions, Deprovisions

\* One step of either script, of the technician or of the cut.
LEMMA InvStep == IInv /\ [Next]_vars => IInv'
  <1> SUFFICES ASSUME IInv, [Next]_vars PROVE IInv'
    OBVIOUS
  <1> USE
          DEF IInv, TypeOK, registry, run, Goes, Ends, Exists, Minting, Bundling, Detaching,
              Removing
  <1>0. TypeOK'
    BY TypeStep
  <1>1. CASE Provision
    <2>1. InStep' /\ Assembled' /\ TakenApart'
      BY <1>0, <1>1 DEF Provision, NoDir, InStep, Assembled, TakenApart
    <2>2. Listed' /\ Minted'
      BY <1>0, <1>1
        DEF Provision, NoDir, Listed, Minted, Attached, InStep, Assembled, TakenApart
    <2>3. Bundled' /\ Accounted'
      BY <1>0, <1>1 DEF Provision, NoDir, Bundled, Accounted, InStep, Assembled, TakenApart
    <2>4. RecordedBundleWorks' /\ LeftoversWereCut'
      BY <1>0, <1>1
        DEF Provision, NoDir, RecordedBundleWorks, LeftoversWereCut, Listed, Attached,
            Bundled, Assembled, TakenApart, Accounted
    <2> QED BY <1>0, <2>1, <2>2, <2>3, <2>4
  <1>2. CASE CreateThing
    <2>1. InStep' /\ Assembled' /\ TakenApart'
      BY <1>0, <1>2 DEF CreateThing, InStep, Assembled, TakenApart
    <2>2. Listed' /\ Minted'
      BY <1>0, <1>2 DEF CreateThing, Listed, Minted, Attached, InStep, Assembled, TakenApart
    <2>3. Bundled' /\ Accounted'
      BY <1>0, <1>2 DEF CreateThing, Bundled, Accounted, InStep, Assembled, TakenApart
    <2>4. RecordedBundleWorks' /\ LeftoversWereCut'
      BY <1>0, <1>2
        DEF CreateThing, RecordedBundleWorks, LeftoversWereCut, Listed, Attached, Bundled,
            Assembled, TakenApart, Accounted
    <2> QED BY <1>0, <2>1, <2>2, <2>3, <2>4
  <1>3. ASSUME NEW c \in Certs, Mint(c) PROVE IInv'
    <2>1. InStep' /\ Assembled' /\ TakenApart'
      BY <1>0, <1>3 DEF Mint, InStep, Assembled, TakenApart, Minted
    <2>2. Listed' /\ Minted'
      BY <1>0, <1>3 DEF Mint, Listed, Minted, Attached, InStep, Assembled, TakenApart
    <2>3. Bundled' /\ Accounted'
      BY <1>0, <1>3 DEF Mint, Bundled, Accounted, InStep, Assembled, TakenApart
    <2>4. RecordedBundleWorks' /\ LeftoversWereCut'
      BY <1>0, <1>3
        DEF Mint, RecordedBundleWorks, LeftoversWereCut, Listed, Attached, Bundled, Assembled,
            TakenApart, Accounted
    <2> QED BY <1>0, <2>1, <2>2, <2>3, <2>4
  <1>4. CASE AttachPolicy
    <2>1. InStep' /\ Assembled' /\ TakenApart'
      BY <1>0, <1>4 DEF AttachPolicy, InStep, Assembled, TakenApart
    <2>2. Listed' /\ Minted'
      BY <1>0, <1>4 DEF AttachPolicy, Listed, Minted, Attached, InStep, Assembled, TakenApart
    <2>3. Bundled' /\ Accounted'
      BY <1>0, <1>4 DEF AttachPolicy, Bundled, Accounted, InStep, Assembled, TakenApart
    <2>4. RecordedBundleWorks' /\ LeftoversWereCut'
      BY <1>0, <1>4
        DEF AttachPolicy, RecordedBundleWorks, LeftoversWereCut, Listed, Attached, Bundled,
            Assembled, TakenApart, Accounted
    <2> QED BY <1>0, <2>1, <2>2, <2>3, <2>4
  <1>5. CASE AttachThing
    <2>1. InStep' /\ Assembled' /\ TakenApart'
      BY <1>0, <1>5 DEF AttachThing, InStep, Assembled, TakenApart
    <2>2. Listed' /\ Minted'
      BY <1>0, <1>5 DEF AttachThing, Listed, Minted, Attached, InStep, Assembled, TakenApart
    <2>3. Bundled' /\ Accounted'
      BY <1>0, <1>5 DEF AttachThing, Bundled, Accounted, InStep, Assembled, TakenApart
    <2>4. RecordedBundleWorks' /\ LeftoversWereCut'
      BY <1>0, <1>5
        DEF AttachThing, RecordedBundleWorks, LeftoversWereCut, Listed, Attached, Bundled,
            Assembled, TakenApart, Accounted
    <2> QED BY <1>0, <2>1, <2>2, <2>3, <2>4
  <1>6. CASE WriteBundle
    <2>1. InStep' /\ Assembled' /\ TakenApart'
      BY <1>0, <1>6 DEF WriteBundle, InStep, Assembled, TakenApart
    <2>2. Listed' /\ Minted'
      BY <1>0, <1>6 DEF WriteBundle, Listed, Minted, Attached, InStep, Assembled, TakenApart
    <2>3. Bundled' /\ Accounted'
      BY <1>0, <1>6 DEF WriteBundle, Bundled, Accounted, InStep, Assembled, TakenApart
    <2>4. RecordedBundleWorks' /\ LeftoversWereCut'
      BY <1>0, <1>6
        DEF WriteBundle, RecordedBundleWorks, LeftoversWereCut, Listed, Attached, Bundled,
            Assembled, TakenApart, Accounted
    <2> QED BY <1>0, <2>1, <2>2, <2>3, <2>4
  <1>7. CASE WriteRecord
    <2>1. InStep' /\ Assembled' /\ TakenApart'
      BY <1>0, <1>7 DEF WriteRecord, InStep, Assembled, TakenApart
    <2>2. Listed' /\ Minted'
      BY <1>0, <1>7 DEF WriteRecord, Listed, Minted, Attached, InStep, Assembled, TakenApart
    <2>3. Bundled' /\ Accounted'
      BY <1>0, <1>7 DEF WriteRecord, Bundled, Accounted, InStep, Assembled, TakenApart
    <2>4. RecordedBundleWorks' /\ LeftoversWereCut'
      BY <1>0, <1>7
        DEF WriteRecord, RecordedBundleWorks, LeftoversWereCut, Listed, Attached, Bundled,
            Assembled, TakenApart, Accounted
    <2> QED BY <1>0, <2>1, <2>2, <2>3, <2>4
  <1>8. ASSUME NEW keep \in BOOLEAN, Deprovision(keep) PROVE IInv'
    <2>1. InStep' /\ Assembled' /\ TakenApart'
      BY <1>0, <1>8 DEF Deprovision, InStep, Assembled, TakenApart
    <2>2. Listed' /\ Minted'
      BY <1>0, <1>8 DEF Deprovision, Listed, Minted, Attached, InStep, Assembled, TakenApart
    <2>3. Bundled' /\ Accounted'
      BY <1>0, <1>8 DEF Deprovision, Bundled, Accounted, InStep, Assembled, TakenApart
    <2>4. RecordedBundleWorks' /\ LeftoversWereCut'
      BY <1>0, <1>8
        DEF Deprovision, RecordedBundleWorks, LeftoversWereCut, Listed, Attached, Bundled,
            Assembled, TakenApart, Accounted
    <2> QED BY <1>0, <2>1, <2>2, <2>3, <2>4
  <1>9. CASE ListPrincipals
    <2>1. InStep' /\ Assembled' /\ TakenApart'
      BY <1>0, <1>9 DEF ListPrincipals, Principals, InStep, Assembled, TakenApart
    <2>2. Listed' /\ Minted'
      BY <1>0, <1>9
        DEF ListPrincipals, Principals, Listed, Minted, Attached, InStep, Assembled, TakenApart
    <2>3. Bundled' /\ Accounted'
      BY <1>0, <1>9
        DEF ListPrincipals, Principals, Bundled, Accounted, InStep, Assembled, TakenApart
    <2>4. RecordedBundleWorks' /\ LeftoversWereCut'
      BY <1>0, <1>9
        DEF ListPrincipals, Principals, RecordedBundleWorks, LeftoversWereCut, Listed,
            Attached, Bundled, Assembled, TakenApart, Accounted
    <2> QED BY <1>0, <2>1, <2>2, <2>3, <2>4
  <1>10. ASSUME NEW c \in Certs, NextPrincipal(c) PROVE IInv'
    <2>1. InStep' /\ Assembled' /\ TakenApart'
      BY <1>0, <1>10 DEF NextPrincipal, InStep, Assembled, TakenApart, Listed, Minted, Attached
    <2>2. Listed' /\ Minted'
      BY <1>0, <1>10 DEF NextPrincipal, Listed, Minted, Attached, InStep, Assembled, TakenApart
    <2>3. Bundled' /\ Accounted'
      BY <1>0, <1>10 DEF NextPrincipal, Bundled, Accounted, InStep, Assembled, TakenApart
    <2>4. RecordedBundleWorks' /\ LeftoversWereCut'
      BY <1>0, <1>10
        DEF NextPrincipal, RecordedBundleWorks, LeftoversWereCut, Listed, Attached, Bundled,
            Assembled, TakenApart, Accounted
    <2> QED BY <1>0, <2>1, <2>2, <2>3, <2>4
  <1>11. CASE DetachPolicy
    <2>1. InStep' /\ Assembled' /\ TakenApart'
      BY <1>0, <1>11 DEF DetachPolicy, InStep, Assembled, TakenApart
    <2>2. Listed' /\ Minted'
      BY <1>0, <1>11 DEF DetachPolicy, Listed, Minted, Attached, InStep, Assembled, TakenApart
    <2>3. Bundled' /\ Accounted'
      BY <1>0, <1>11 DEF DetachPolicy, Bundled, Accounted, InStep, Assembled, TakenApart
    <2>4. RecordedBundleWorks' /\ LeftoversWereCut'
      BY <1>0, <1>11
        DEF DetachPolicy, RecordedBundleWorks, LeftoversWereCut, Listed, Attached, Bundled,
            Assembled, TakenApart, Accounted
    <2> QED BY <1>0, <2>1, <2>2, <2>3, <2>4
  <1>12. CASE DetachThing
    <2>1. InStep' /\ Assembled' /\ TakenApart'
      BY <1>0, <1>12 DEF DetachThing, InStep, Assembled, TakenApart
    <2>2. Listed' /\ Minted'
      BY <1>0, <1>12 DEF DetachThing, Listed, Minted, Attached, InStep, Assembled, TakenApart
    <2>3. Bundled' /\ Accounted'
      BY <1>0, <1>12 DEF DetachThing, Bundled, Accounted, InStep, Assembled, TakenApart
    <2>4. RecordedBundleWorks' /\ LeftoversWereCut'
      BY <1>0, <1>12
        DEF DetachThing, RecordedBundleWorks, LeftoversWereCut, Listed, Attached, Bundled,
            Assembled, TakenApart, Accounted
    <2> QED BY <1>0, <2>1, <2>2, <2>3, <2>4
  <1>13. CASE Deactivate
    <2>1. InStep' /\ Assembled' /\ TakenApart'
      BY <1>0, <1>13 DEF Deactivate, InStep, Assembled, TakenApart
    <2>2. Listed' /\ Minted'
      BY <1>0, <1>13 DEF Deactivate, Listed, Minted, Attached, InStep, Assembled, TakenApart
    <2>3. Bundled' /\ Accounted'
      BY <1>0, <1>13 DEF Deactivate, Bundled, Accounted, InStep, Assembled, TakenApart
    <2>4. RecordedBundleWorks' /\ LeftoversWereCut'
      BY <1>0, <1>13
        DEF Deactivate, RecordedBundleWorks, LeftoversWereCut, Listed, Attached, Bundled,
            Assembled, TakenApart, Accounted
    <2> QED BY <1>0, <2>1, <2>2, <2>3, <2>4
  <1>14. CASE Delete
    <2>1. InStep' /\ Assembled' /\ TakenApart'
      BY <1>0, <1>14 DEF Delete, Deletable, InStep, Assembled, TakenApart
    <2>2. Listed' /\ Minted'
      BY <1>0, <1>14
        DEF Delete, Deletable, Listed, Minted, Attached, InStep, Assembled, TakenApart
    <2>3. Bundled' /\ Accounted'
      BY <1>0, <1>14 DEF Delete, Deletable, Bundled, Accounted, InStep, Assembled, TakenApart
    <2>4. RecordedBundleWorks' /\ LeftoversWereCut'
      BY <1>0, <1>14
        DEF Delete, Deletable, RecordedBundleWorks, LeftoversWereCut, Listed, Attached,
            Bundled, Assembled, TakenApart, Accounted
    <2> QED BY <1>0, <2>1, <2>2, <2>3, <2>4
  <1>15. CASE Finish
    <2>1. InStep' /\ Assembled' /\ TakenApart'
      BY <1>0, <1>15 DEF Finish, InStep, Assembled, TakenApart
    <2>2. Listed' /\ Minted'
      BY <1>0, <1>15 DEF Finish, Listed, Minted, Attached, InStep, Assembled, TakenApart
    <2>3. Bundled' /\ Accounted'
      BY <1>0, <1>15 DEF Finish, Bundled, Accounted, InStep, Assembled, TakenApart
    <2>4. RecordedBundleWorks' /\ LeftoversWereCut'
      BY <1>0, <1>15
        DEF Finish, RecordedBundleWorks, LeftoversWereCut, Listed, Attached, Bundled,
            Assembled, TakenApart, Accounted
    <2> QED BY <1>0, <2>1, <2>2, <2>3, <2>4
  <1>16. CASE Cut
    <2>1. InStep' /\ Assembled' /\ TakenApart'
      BY <1>0, <1>16 DEF Cut, InStep, Assembled, TakenApart
    <2>2. Listed' /\ Minted'
      BY <1>0, <1>16 DEF Cut, Listed, Minted, Attached, InStep, Assembled, TakenApart
    <2>3. Bundled' /\ Accounted'
      BY <1>0, <1>16, CertAssumption DEF Cut, Bundled, Accounted, InStep, Assembled, TakenApart
    <2>4. RecordedBundleWorks' /\ LeftoversWereCut'
      BY <1>0, <1>16
        DEF Cut, RecordedBundleWorks, LeftoversWereCut, Listed, Attached, Bundled, Assembled,
            TakenApart, Accounted
    <2> QED BY <1>0, <2>1, <2>2, <2>3, <2>4
  <1>17. CASE RemoveDir
    <2>1. InStep' /\ Assembled' /\ TakenApart'
      BY <1>0, <1>17 DEF RemoveDir, NoDir, InStep, Assembled, TakenApart
    <2>2. Listed' /\ Minted'
      BY <1>0, <1>17
        DEF RemoveDir, NoDir, Listed, Minted, Attached, InStep, Assembled, TakenApart
    <2>3. Bundled' /\ Accounted'
      BY <1>0, <1>17 DEF RemoveDir, NoDir, Bundled, Accounted, InStep, Assembled, TakenApart
    <2>4. RecordedBundleWorks' /\ LeftoversWereCut'
      BY <1>0, <1>17
        DEF RemoveDir, NoDir, RecordedBundleWorks, LeftoversWereCut, Listed, Attached,
            Bundled, Assembled, TakenApart, Accounted
    <2> QED BY <1>0, <2>1, <2>2, <2>3, <2>4
  <1>18. CASE UNCHANGED vars
    <2>1. InStep' /\ Assembled' /\ TakenApart'
      BY <1>0, <1>18 DEF vars, InStep, Assembled, TakenApart
    <2>2. Listed' /\ Minted'
      BY <1>0, <1>18 DEF vars, Listed, Minted, Attached, InStep, Assembled, TakenApart
    <2>3. Bundled' /\ Accounted'
      BY <1>0, <1>18 DEF vars, Bundled, Accounted, InStep, Assembled, TakenApart
    <2>4. RecordedBundleWorks' /\ LeftoversWereCut'
      BY <1>0, <1>18
        DEF vars, RecordedBundleWorks, LeftoversWereCut, Listed, Attached, Bundled, Assembled,
            TakenApart, Accounted
    <2> QED BY <1>0, <2>1, <2>2, <2>3, <2>4
  <1> QED
    BY <1>1, <1>2, <1>3, <1>4, <1>5, <1>6, <1>7, <1>8, <1>9, <1>10, <1>11, <1>12, <1>13,
       <1>14, <1>15, <1>16, <1>17, <1>18
    DEF Next, Provisions, Deprovisions

LEMMA Invariance == Spec => []IInv
  BY InitInv, InvStep, PTL DEF Spec

\* The states of the scripts, the registry and the output directory are the
\* ones the scripts are written for.
THEOREM TypeCorrect == Spec => []TypeOK
  BY Invariance, PTL DEF IInv

\* However the runs before it were cut, no deprovisioning run asks AWS for a
\* deletion that AWS refuses.
THEOREM DeletionsAccepted == Spec => []DeletesAccepted
  <1>1. IInv => DeletesAccepted
    <2>1. ASSUME IInv, pc = "delete" PROVE Deletable(cur)
      BY <2>1 DEF IInv, TypeOK, TakenApart, Detaching, Removing, Deletable
    <2>2. ASSUME IInv, pc = "next", todo = {} PROVE Attached = {}
      BY <2>2 DEF IInv, Listed
    <2> QED BY <2>1, <2>2 DEF DeletesAccepted
  <1> QED BY <1>1, Invariance, PTL

\* A recorded bundle is one to connect with until it is deprovisioned.
THEOREM BundlesWork == Spec => []RecordedBundleWorks
  BY Invariance, PTL DEF IInv

\* What a completed deprovisioning run leaves behind was in hand when an
\* earlier run was cut.
THEOREM OnlyCutsLeave == Spec => []LeftoversWereCut
  BY Invariance, PTL DEF IInv

-----------------------------------------------------------------------------
(* The life of a certificate.                                              *)

\* Which states of a certificate are stages of its life.
Coherent(c, listed) ==
  IF listed THEN /\ c.status \in {"active", "inactive", "deleted"}
                 /\ c.policy => c.attached
                 /\ c.status # "active" => ~c.attached
  ELSE c.status \in {"none", "active"} /\ (c.attached => c.policy)

Staged == \A c \in Certs : Coherent(cert[c], c \in revoked)

\* A step of one certificate that leads from a stage to the next one.
Moves(c) ==
  /\ \A d \in Certs \ {c} : cert'[d] = cert[d] /\ (d \in revoked' <=> d \in revoked)
  /\ LET was == Stage(cert[c], c \in revoked)
         is == Stage(cert'[c], c \in revoked')
     IN \/ is = was
        \/ /\ was \in DOMAIN Certificate!After /\ is = Certificate!After[was]
           /\ was = "permitted" => thing

LEMMA MovesOn ==
  ASSUME NEW c \in Certs, Moves(c), UNCHANGED thing
  PROVE  Certificate!Advance(c) \/ UNCHANGED <<thing, Life>>
  <1> DEFINE L == Life
             M == Life'
             A == Certificate!After
  <1>1. L = [d \in Certs |-> Stage(cert[d], d \in revoked)]
    BY DEF Life
  <1>2. M = [d \in Certs |-> Stage(cert'[d], d \in revoked')]
    BY DEF Life
  <1>3. \A d \in Certs \ {c} : M[d] = L[d]
    <2> SUFFICES ASSUME NEW d \in Certs \ {c} PROVE M[d] = L[d]
      OBVIOUS
    <2>1. cert'[d] = cert[d] /\ ((d \in revoked') = (d \in revoked))
      BY DEF Moves
    <2> QED BY <1>1, <1>2, <2>1
  <1>4. M[c] = L[c] \/ (L[c] \in DOMAIN A /\ M[c] = A[L[c]] /\ (L[c] = "permitted" => thing))
    BY <1>1, <1>2 DEF Moves
  <1>5. DOMAIN L = Certs /\ DOMAIN M = Certs /\ L = [d \in Certs |-> L[d]] /\ M = [d \in Certs |-> M[d]]
    BY <1>1, <1>2
  <1> HIDE DEF L, M, A
  <1>6. CASE M[c] = L[c]
    <2>1. M = L
      BY <1>3, <1>5, <1>6
    <2> QED BY <2>1 DEF L, M
  <1>7. CASE L[c] \in DOMAIN A /\ M[c] = A[L[c]] /\ (L[c] = "permitted" => thing)
    <2>1. M = [L EXCEPT ![c] = A[L[c]]]
      BY <1>3, <1>5, <1>7
    <2> QED BY <1>7, <2>1 DEF L, M, A, Certificate!Advance
  <1> QED BY <1>4, <1>6, <1>7

\* A step that touches no certificate.
LEMMA LifeStays ==
  ASSUME UNCHANGED <<cert, revoked>>
  PROVE  UNCHANGED Life
  BY DEF Life

\* With nothing attached no certificate is in a stage that needs the thing.
LEMMA NoneBound ==
  ASSUME TypeOK, Staged, Attached = {}, NEW c \in Certs
  PROVE  Life[c] \notin Certificate!BoundStages
  <1>1. ~cert[c].attached /\ cert[c].status \in {"none", "active", "inactive", "deleted"}
        /\ Coherent(cert[c], c \in revoked)
    BY DEF TypeOK, Attached, Staged
  <1> DEFINE r == cert[c]
             listed == c \in revoked
  <1>2. Life[c] = Stage(r, listed)
    BY DEF Life
  <1> HIDE DEF r, listed
  <1>3. /\ ~r.attached /\ r.status \in {"none", "active", "inactive", "deleted"}
        /\ listed => ~r.policy
    BY <1>1 DEF r, listed, Coherent
  <1>4. Stage(r, listed) \notin {"bound", "listed", "unpermitted"}
    BY <1>3 DEF Stage
  <1> QED BY <1>2, <1>4 DEF Certificate!BoundStages

\* A command on one certificate leads from a stage to the same or the next.
LEMMA CommandMoves ==
  ASSUME IInv, Staged, NEW c \in Certs,
         \/ Mint(c) \/ NextPrincipal(c)
         \/ /\ c = cur
            /\ AttachPolicy \/ AttachThing \/ DetachPolicy \/ DetachThing \/ Deactivate \/ Delete
  PROVE  Staged' /\ Moves(c) /\ UNCHANGED thing
  <1> DEFINE r == cert[c]
             q == cert'[c]
             listed == c \in revoked
             lists == c \in revoked'
             was == Stage(r, listed)
             is == Stage(q, lists)
             Rest == \A d \in Certs \ {c} : cert'[d] = cert[d] /\ (d \in revoked' <=> d \in revoked)
             Follows == is = was \/ (/\ was \in DOMAIN Certificate!After
                                    /\ is = Certificate!After[was] /\ (was = "permitted" => thing))
             R == [status : {"none", "active", "inactive", "deleted"}, policy : BOOLEAN, attached : BOOLEAN]
  <1>0. cert \in [Certs -> R] /\ r \in R /\ revoked \subseteq Certs /\ Coherent(r, listed)
    BY DEF IInv, TypeOK, Staged
  <1>1. ASSUME Rest, Coherent(q, lists), Follows PROVE Staged' /\ Moves(c)
    <2>1. Moves(c)
      BY <1>1 DEF Moves
    <2>2. ASSUME NEW d \in Certs PROVE Coherent(cert'[d], d \in revoked')
      <3>1. CASE d = c
        BY <1>1, <3>1
      <3>2. CASE d # c
        <4>1. Coherent(cert[d], d \in revoked) /\ cert'[d] = cert[d]
              /\ ((d \in revoked') = (d \in revoked))
          BY <1>1, <3>2 DEF Staged
        <4> QED BY <4>1
      <3> QED BY <3>1, <3>2
    <2> QED BY <2>1, <2>2 DEF Staged
  <1>2. CASE Mint(c)
    <2>1. /\ Rest /\ UNCHANGED <<thing, revoked>> /\ r.status = "none" /\ lists = listed
          /\ q = [r EXCEPT !.status = "active"]
      BY <1>0, <1>2 DEF Mint
    <2>2. ~r.policy /\ ~r.attached /\ ~listed
      BY <2>1 DEF IInv, Minted, Exists
    <2> HIDE DEF r, q, listed, lists
    <2>3. q.status = "active" /\ ~q.policy /\ ~q.attached /\ ~lists
      BY <1>0, <2>1, <2>2
    <2>4. is = "minted" /\ was = "unminted"
      BY <2>1, <2>2, <2>3 DEF Stage
    <2>5. Coherent(q, lists)
      BY <2>3 DEF Coherent
    <2> HIDE DEF is, was
    <2>6. Follows
      BY <2>4 DEF Certificate!After
    <2> QED BY <1>1, <2>1, <2>5, <2>6 DEF r, q, listed, lists, is, was
  <1>3. CASE NextPrincipal(c)
    <2>1. UNCHANGED <<thing, cert>> /\ revoked' = revoked \union {c} /\ c \in todo /\ pc = "next"
      BY <1>3 DEF NextPrincipal, registry, Goes
    <2>2. r.attached
      BY <2>1 DEF IInv, Listed, Attached
    <2>3. lists /\ q = r /\ Rest
      BY <2>1
    <2> HIDE DEF r, q, listed, lists
    <2>4. r.status = "active"
      <3>1. r.status # "none"
        BY <2>1, <2>2 DEF IInv, Minted, Exists, r
      <3> QED BY <1>0, <2>2, <3>1 DEF Coherent
    <2>5. Coherent(q, lists)
      BY <2>2, <2>3, <2>4 DEF Coherent
    <2>6. is = was \/ (is = "listed" /\ was = "bound")
      BY <1>0, <2>2, <2>3, <2>4 DEF Stage, Coherent
    <2> HIDE DEF is, was
    <2>7. Follows
      BY <2>6 DEF Certificate!After
    <2> QED BY <1>1, <2>1, <2>3, <2>5, <2>7 DEF r, q, listed, lists, is, was
  <1>4. CASE c = cur /\ AttachPolicy
    <2>1. /\ Rest /\ UNCHANGED <<thing, revoked>> /\ lists = listed
          /\ q = [r EXCEPT !.policy = TRUE]
      BY <1>0, <1>4 DEF AttachPolicy
    <2>2. r.status = "active" /\ ~r.policy /\ ~r.attached /\ ~listed
      BY <1>4 DEF AttachPolicy, Goes, IInv, Assembled, Minting
    <2> HIDE DEF r, q, listed, lists
    <2>3. Coherent(q, lists)
      BY <1>0, <2>1, <2>2 DEF Coherent
    <2>4. is = "permitted" /\ was = "minted"
      BY <1>0, <2>1, <2>2 DEF Stage, Coherent
    <2> HIDE DEF is, was
    <2>5. Follows
      BY <2>2, <2>4 DEF Certificate!After
    <2> QED BY <1>1, <2>1, <2>3, <2>5 DEF r, q, listed, lists, is, was
  <1>5. CASE c = cur /\ AttachThing
    <2>1. /\ Rest /\ UNCHANGED <<thing, revoked>> /\ lists = listed
          /\ q = [r EXCEPT !.attached = TRUE]
      BY <1>0, <1>5 DEF AttachThing
    <2>2. r.status = "active" /\ r.policy /\ ~r.attached /\ ~listed /\ thing
      BY <1>5 DEF AttachThing, Goes, IInv, Assembled, Minting
    <2> HIDE DEF r, q, listed, lists
    <2>3. Coherent(q, lists)
      BY <1>0, <2>1, <2>2 DEF Coherent
    <2>4. is = "bound" /\ was = "permitted"
      BY <1>0, <2>1, <2>2 DEF Stage, Coherent
    <2> HIDE DEF is, was
    <2>5. Follows
      BY <2>2, <2>4 DEF Certificate!After
    <2> QED BY <1>1, <2>1, <2>3, <2>5 DEF r, q, listed, lists, is, was
  <1>6. CASE c = cur /\ DetachPolicy
    <2>1. /\ Rest /\ UNCHANGED <<thing, revoked>> /\ lists = listed
          /\ q = [r EXCEPT !.policy = FALSE]
      BY <1>0, <1>6 DEF DetachPolicy
    <2>2. r.status \in {"active", "inactive"} /\ listed
      BY <1>6 DEF DetachPolicy, Goes, IInv, TakenApart, Detaching, Exists
    <2> HIDE DEF r, q, listed, lists
    <2>3. Coherent(q, lists)
      BY <1>0, <2>1, <2>2 DEF Coherent
    <2>4. is = was \/ (is = "unpermitted" /\ was = "listed")
      BY <1>0, <2>1, <2>2 DEF Stage, Coherent
    <2> HIDE DEF is, was
    <2>5. Follows
      BY <2>2, <2>4 DEF Certificate!After
    <2> QED BY <1>1, <2>1, <2>3, <2>5 DEF r, q, listed, lists, is, was
  <1>7. CASE c = cur /\ DetachThing
    <2>1. /\ Rest /\ UNCHANGED <<thing, revoked>> /\ lists = listed
          /\ q = [r EXCEPT !.attached = FALSE]
      BY <1>0, <1>7 DEF DetachThing
    <2>2. r.status \in {"active", "inactive"} /\ ~r.policy /\ listed
      BY <1>7 DEF DetachThing, Goes, IInv, TakenApart, Detaching, Exists
    <2> HIDE DEF r, q, listed, lists
    <2>3. Coherent(q, lists)
      BY <1>0, <2>1, <2>2 DEF Coherent
    <2>4. is = was \/ (is = "unbound" /\ was = "unpermitted")
      BY <1>0, <2>1, <2>2 DEF Stage, Coherent
    <2> HIDE DEF is, was
    <2>5. Follows
      BY <2>2, <2>4 DEF Certificate!After
    <2> QED BY <1>1, <2>1, <2>3, <2>5 DEF r, q, listed, lists, is, was
  <1>8. CASE c = cur /\ Deactivate
    <2>1. /\ Rest /\ UNCHANGED <<thing, revoked>> /\ lists = listed
          /\ q = [r EXCEPT !.status = "inactive"]
      BY <1>0, <1>8 DEF Deactivate
    <2>2. r.status \in {"active", "inactive"} /\ ~r.policy /\ ~r.attached /\ listed
      BY <1>8 DEF Deactivate, Goes, IInv, TakenApart, Removing, Exists
    <2> HIDE DEF r, q, listed, lists
    <2>3. Coherent(q, lists)
      BY <1>0, <2>1, <2>2 DEF Coherent
    <2>4. is = was \/ (is = "inactive" /\ was = "unbound")
      BY <1>0, <2>1, <2>2 DEF Stage, Coherent
    <2> HIDE DEF is, was
    <2>5. Follows
      BY <2>2, <2>4 DEF Certificate!After
    <2> QED BY <1>1, <2>1, <2>3, <2>5 DEF r, q, listed, lists, is, was
  <1>9. CASE c = cur /\ Delete
    <2>1. /\ Rest /\ UNCHANGED <<thing, revoked>> /\ lists = listed
          /\ q = [r EXCEPT !.status = "deleted"]
      BY <1>0, <1>9 DEF Delete
    <2>2. r.status = "inactive" /\ ~r.policy /\ ~r.attached /\ listed
      BY <1>9 DEF Delete, Goes, IInv, TakenApart, Removing
    <2> HIDE DEF r, q, listed, lists
    <2>3. Coherent(q, lists)
      BY <1>0, <2>1, <2>2 DEF Coherent
    <2>4. is = "deleted" /\ was = "inactive"
      BY <1>0, <2>1, <2>2 DEF Stage, Coherent
    <2> HIDE DEF is, was
    <2>5. Follows
      BY <2>2, <2>4 DEF Certificate!After
    <2> QED BY <1>1, <2>1, <2>3, <2>5 DEF r, q, listed, lists, is, was
  <1> QED BY <1>2, <1>3, <1>4, <1>5, <1>6, <1>7, <1>8, <1>9

\* Every other step is one of the thing, or of nothing the life is made of.
LEMMA LifeStep ==
  ASSUME IInv, Staged, [Next]_vars
  PROVE  Staged' /\ (Certificate!Next \/ UNCHANGED <<thing, Life>>)
  <1>1. ASSUME NEW c \in Certs,
               \/ Mint(c) \/ NextPrincipal(c)
               \/ /\ c = cur
                  /\ AttachPolicy \/ AttachThing \/ DetachPolicy \/ DetachThing \/ Deactivate \/ Delete
        PROVE  Staged' /\ (Certificate!Next \/ UNCHANGED <<thing, Life>>)
    <2>1. Staged' /\ Moves(c) /\ UNCHANGED thing
      BY <1>1, CommandMoves
    <2> QED BY <2>1, MovesOn DEF Certificate!Next
  <1>2. ASSUME UNCHANGED <<cert, revoked>> PROVE Staged' /\ UNCHANGED Life
    BY <1>2, LifeStays DEF Staged
  <1>3. CASE \/ Provision \/ WriteBundle \/ WriteRecord \/ Cut \/ RemoveDir \/ UNCHANGED vars
             \/ (\E keep \in BOOLEAN : Deprovision(keep)) \/ ListPrincipals
    <2>1. UNCHANGED <<thing, cert, revoked>>
      BY <1>3
      DEF Provision, WriteBundle, WriteRecord, Cut, RemoveDir, vars, Deprovision,
          ListPrincipals, registry
    <2> QED BY <1>2, <2>1
  <1>4. CASE CreateThing
    BY <1>2, <1>4 DEF CreateThing, Certificate!Next, Certificate!Register
  <1>5. CASE Finish
    <2>1. UNCHANGED <<cert, revoked>> /\ (thing' = thing \/ (Attached = {} /\ thing' = FALSE))
      BY <1>5 DEF Finish
    <2>2. Attached = {} => \A c \in Certs : Life[c] \notin Certificate!BoundStages
      BY NoneBound DEF IInv
    <2> QED BY <1>2, <2>1, <2>2 DEF Certificate!Next, Certificate!Unregister
  <1>6. ASSUME AttachPolicy \/ AttachThing \/ DetachPolicy \/ DetachThing \/ Deactivate \/ Delete
        PROVE  cur \in Certs
    BY <1>6 DEF AttachPolicy, AttachThing, DetachPolicy, DetachThing, Deactivate, Delete, Goes,
                IInv, Assembled, TakenApart, Minting, Detaching, Removing
  <1> QED BY <1>1, <1>3, <1>4, <1>5, <1>6 DEF Next, Provisions, Deprovisions

\* However the runs of the two scripts are cut and repeated, every certificate
\* goes through its life once, in the order of CertLife, and what a device's
\* certificate is attached to is registered.
THEOREM OneLife == Spec => LivesOnce
  <1>1. Init => Staged /\ Certificate!Init
    <2> SUFFICES ASSUME Init PROVE Staged /\ Certificate!Init
      OBVIOUS
    <2>1. \A c \in Certs : /\ c \notin revoked /\ cert[c].status = "none"
                           /\ ~cert[c].policy /\ ~cert[c].attached
      BY DEF Init, Unminted
    <2>2. Staged
      BY <2>1 DEF Staged, Coherent
    <2>3. Life = [c \in Certs |-> "unminted"]
      BY <2>1 DEF Life, Stage
    <2> QED BY <2>2, <2>3 DEF Init, Certificate!Init
  <1>2. IInv /\ Staged /\ [Next]_vars => Staged' /\ [Certificate!Next]_<<thing, Life>>
    BY LifeStep
  <1> QED BY <1>1, <1>2, Invariance, PTL DEF Spec, LivesOnce, Certificate!Spec

=============================================================================
