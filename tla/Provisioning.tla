---------------------------- MODULE Provisioning ----------------------------
(***************************************************************************)
(* cloud/scripts: provision-device.sh and deprovision-device.sh, run one   *)
(* after the other, any number of times, by the technician of one thing    *)
(* name.  Under "set -e" a run ends at the first command that fails, and   *)
(* Ctrl-C ends it as well: each command is an action, and between any two  *)
(* of them the run may be over.  AWS IoT (external) is a registry of       *)
(* certificates; it refuses to delete a certificate that is active or has  *)
(* anything attached, and a thing that has a certificate.                  *)
(***************************************************************************)
EXTENDS FiniteSets

CONSTANTS
  Certs,   \* the certificates that can be minted
  NoCert

ASSUME CertAssumption == NoCert \notin Certs

VARIABLES
  thing,     \* is the thing registered
  cert,      \* the registry: status and attachments of every certificate
  script,    \* the script that runs, and
  pc,        \*   the command it comes to next
  cur,       \* CERT_ARN
  todo,      \* deprovision: PRINCIPAL_ARNS not yet processed
  keepThing, \* deprovision: --keep-thing
  dir,       \* OUTPUT_DIR: what has been written to it
  reported,  \* what the latest completed deprovision run said
  cutOn,     \* history: certificates in hand when a run was cut short
  revoked    \* history: certificates a deprovision run has laid hands on

registry == <<thing, cert>>
run == <<script, pc, cur, todo, keepThing>>
vars == <<registry, run, dir, reported, cutOn, revoked>>

Unminted == [status |-> "none", policy |-> FALSE, attached |-> FALSE]
NoDir == [has |-> "nothing", cert |-> NoCert]

Init ==
  /\ thing = FALSE /\ cert = [c \in Certs |-> Unminted]
  /\ script = "none" /\ pc = "end" /\ cur = NoCert /\ todo = {} /\ keepThing = FALSE
  /\ dir = NoDir /\ reported = "nothing" /\ cutOn = {} /\ revoked = {}

Attached == {c \in Certs : cert[c].attached}
Exists(c) == cert[c].status \in {"active", "inactive"}

\* The command at label from is done, and the script goes on at label to.
Goes(from, to) == pc = from /\ pc' = to /\ UNCHANGED script

Ends == script' = "none" /\ pc' = "end"

\* Mutant of Cut: without set -e, a run goes on after a failed attachment.
CutOrGoesOn ==
  /\ script # "none"
  /\ \/ Ends /\ cutOn' = cutOn \union ({cur} \ {NoCert})
     \/ pc = "policy" /\ pc' = "attach" /\ UNCHANGED <<script, cutOn>>
  /\ UNCHANGED <<registry, cur, todo, keepThing, dir, reported, revoked>>

\* A command failed, or Ctrl-C.
Cut ==
  /\ script # "none" /\ Ends
  /\ cutOn' = cutOn \union ({cur} \ {NoCert})
  /\ UNCHANGED <<registry, cur, todo, keepThing, dir, reported, revoked>>

-----------------------------------------------------------------------------
(* provision-device.sh                                                     *)

\* The preflight checks change nothing; an output directory that is already
\* there ends the run.
Provision ==
  /\ script = "none" /\ dir = NoDir
  /\ script' = "provision" /\ pc' = "thing" /\ cur' = NoCert
  /\ reported' = "nothing"
  /\ UNCHANGED <<registry, todo, keepThing, dir, cutOn, revoked>>

CreateThing ==
  /\ Goes("thing", "mint")
  /\ thing' = TRUE   \* create-thing is idempotent
  /\ UNCHANGED <<cert, cur, todo, keepThing, dir, reported, cutOn, revoked>>

Mint(c) ==
  /\ Goes("mint", "policy")
  /\ cert[c].status = "none"
  /\ cert' = [cert EXCEPT ![c].status = "active"] /\ cur' = c
  /\ UNCHANGED <<thing, todo, keepThing, dir, reported, cutOn, revoked>>

AttachPolicy ==
  /\ Goes("policy", "attach")
  /\ cert' = [cert EXCEPT ![cur].policy = TRUE]
  /\ UNCHANGED <<thing, cur, todo, keepThing, dir, reported, cutOn, revoked>>

AttachThing ==
  /\ Goes("attach", "mkdir")
  /\ cert' = [cert EXCEPT ![cur].attached = TRUE]
  /\ UNCHANGED <<thing, cur, todo, keepThing, dir, reported, cutOn, revoked>>

\* The endpoint is looked up and the directory made; ca.pem is downloaded;
\* the certificate and its key are written.
WriteBundle ==
  /\ \/ Goes("mkdir", "ca") /\ dir' = [has |-> "dir", cert |-> cur]
     \/ Goes("ca", "keys") /\ dir' = [dir EXCEPT !.has = "ca"]
     \/ Goes("keys", "record") /\ dir' = [dir EXCEPT !.has = "keys"]
  /\ UNCHANGED <<registry, cur, todo, keepThing, reported, cutOn, revoked>>

WriteRecord ==
  /\ pc = "record" /\ Ends
  /\ dir' = [dir EXCEPT !.has = "record"]
  /\ UNCHANGED <<registry, cur, todo, keepThing, reported, cutOn, revoked>>

-----------------------------------------------------------------------------
(* deprovision-device.sh                                                   *)

\* A thing that does not exist is a no-op.
Deprovision(keep) ==
  /\ script = "none" /\ thing
  /\ script' = "deprovision" /\ pc' = "list" /\ cur' = NoCert
  /\ keepThing' = keep /\ reported' = "nothing"
  /\ UNCHANGED <<registry, todo, dir, cutOn, revoked>>

\* Mutant of Principals: only the first of them is looked at.
PrincipalsFirst == {{c} : c \in Attached} \union {s \in {{}} : Attached = {}}

\* list-thing-principals names every certificate attached to the thing.
Principals == {Attached}

ListPrincipals ==
  /\ Goes("list", "next")
  /\ todo' \in Principals
  /\ UNCHANGED <<registry, cur, keepThing, dir, reported, cutOn, revoked>>

NextPrincipal(c) ==
  /\ Goes("next", "detachPolicy") /\ c \in todo
  /\ cur' = c /\ todo' = todo \ {c} /\ revoked' = revoked \union {c}
  /\ UNCHANGED <<registry, keepThing, dir, reported, cutOn>>

DetachPolicy ==
  /\ Goes("detachPolicy", "detachThing")
  /\ cert' = [cert EXCEPT ![cur].policy = FALSE]
  /\ UNCHANGED <<thing, cur, todo, keepThing, dir, reported, cutOn, revoked>>

DetachThing ==
  /\ Goes("detachThing", "deactivate")
  /\ cert' = [cert EXCEPT ![cur].attached = FALSE]
  /\ UNCHANGED <<thing, cur, todo, keepThing, dir, reported, cutOn, revoked>>

\* Mutant of Deactivate: the certificate is deleted while still active.
DeactivateNot ==
  /\ Goes("deactivate", "delete")
  /\ UNCHANGED <<registry, cur, todo, keepThing, dir, reported, cutOn, revoked>>

Deactivate ==
  /\ Goes("deactivate", "delete")
  /\ cert' = [cert EXCEPT ![cur].status = "inactive"]
  /\ UNCHANGED <<thing, cur, todo, keepThing, dir, reported, cutOn, revoked>>

Deletable(c) == cert[c] = [status |-> "inactive", policy |-> FALSE, attached |-> FALSE]

Delete ==
  /\ Goes("delete", "next") /\ Deletable(cur)
  /\ cert' = [cert EXCEPT ![cur].status = "deleted"] /\ cur' = NoCert
  /\ UNCHANGED <<thing, todo, keepThing, dir, reported, cutOn, revoked>>

\* "Thing and all of its certificates are gone", or with --keep-thing "all
\* certificates detached/deleted".
Finish ==
  /\ pc = "next" /\ todo = {} /\ Ends
  /\ IF keepThing THEN thing' = thing /\ reported' = "kept"
     ELSE Attached = {} /\ thing' = FALSE /\ reported' = "gone"
  /\ UNCHANGED <<cert, cur, todo, keepThing, dir, cutOn, revoked>>

-----------------------------------------------------------------------------
\* The technician makes room for another run.
RemoveDir ==
  /\ script = "none" /\ dir # NoDir /\ dir' = NoDir
  /\ UNCHANGED <<registry, run, reported, cutOn, revoked>>

Provisions == \/ Provision \/ CreateThing \/ (\E c \in Certs : Mint(c))
              \/ AttachPolicy \/ AttachThing \/ WriteBundle \/ WriteRecord
Deprovisions == \/ \E keep \in BOOLEAN : Deprovision(keep)
                \/ ListPrincipals \/ (\E c \in Certs : NextPrincipal(c))
                \/ DetachPolicy \/ DetachThing \/ Deactivate \/ Delete \/ Finish

Next == Provisions \/ Deprovisions \/ Cut \/ RemoveDir

Spec == Init /\ [][Next]_vars

-----------------------------------------------------------------------------
(* Properties.                                                             *)

Labels == {"end", "thing", "mint", "policy", "attach", "mkdir", "ca", "keys", "record",
           "list", "next", "detachPolicy", "detachThing", "deactivate", "delete"}

TypeOK ==
  /\ thing \in BOOLEAN
  /\ cert \in [Certs -> [status : {"none", "active", "inactive", "deleted"},
                         policy : BOOLEAN, attached : BOOLEAN]]
  /\ script \in {"none", "provision", "deprovision"} /\ pc \in Labels
  /\ script = "none" <=> pc = "end"
  /\ cur \in Certs \union {NoCert} /\ todo \subseteq Certs /\ keepThing \in BOOLEAN
  /\ dir \in [has : {"nothing", "dir", "ca", "keys", "record"}, cert : Certs \union {NoCert}]
  /\ reported \in {"nothing", "kept", "gone"}
  /\ cutOn \subseteq Certs /\ revoked \subseteq Certs

\* Deprovisioning takes a certificate apart in an order AWS accepts: neither
\* the certificate's nor the thing's deletion is ever refused, wherever the
\* runs before it were cut.
DeletesAccepted ==
  /\ pc = "delete" => Deletable(cur)
  /\ pc = "next" /\ todo = {} => Attached = {}

\* A bundle with its provisioning record is one a device can connect with:
\* certificate active, policy and thing attached, until it is deprovisioned.
RecordedBundleWorks ==
  dir.has = "record" /\ dir.cert \notin revoked =>
    thing /\ cert[dir.cert] = [status |-> "active", policy |-> TRUE, attached |-> TRUE]

\* When a deprovision run says that all certificates are gone, they are,
\* except those a run was cut short on: minted and not attached, or detached
\* and not deleted, no later run finds them.
LeftoversWereCut ==
  reported # "nothing" => \A c \in Certs : Exists(c) => c \in cutOn

\* The stage of a certificate; after its policy is detached only whether a run
\* has listed it tells which way it goes.
Stage(c, listed) ==
  CASE c.status = "none" -> "unminted"
    [] c.status = "active" /\ ~listed ->
         IF c.attached THEN "bound" ELSE IF c.policy THEN "permitted" ELSE "minted"
    [] c.status = "active" /\ listed ->
         IF c.policy THEN "listed" ELSE IF c.attached THEN "unpermitted" ELSE "unbound"
    [] c.status \in {"inactive", "deleted"} -> c.status

Life == [c \in Certs |-> Stage(cert[c], c \in revoked)]

Certificate == INSTANCE CertLife WITH registered <- thing, life <- Life

\* However runs of the two scripts are cut and repeated, a certificate lives
\* once: no later run attaches or activates what an earlier one was taking
\* apart, skips a stage of it, or has a certificate attached to no thing.
LivesOnce == Certificate!Spec

=============================================================================
