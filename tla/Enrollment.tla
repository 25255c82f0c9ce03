------------------------------ MODULE Enrollment ------------------------------
(***************************************************************************)
(* Administrators that register, enroll, renew and revoke identities:      *)
(* FabricIdentityService and FabricEnrollmentService, clients of a         *)
(* certificate authority (CA) that is external.                            *)
(*                                                                         *)
(* Every operation is a sequence of requests to the CA, and nothing is     *)
(* rolled back.  A request is carried out and answered, refused, or - if   *)
(* the connection fails - not answered, carried out or not.                *)
(*                                                                         *)
(* A certificate is its number; one of each kind of failure is enough, as  *)
(* no operation is retried by the code.                                    *)
(***************************************************************************)
EXTENDS Integers, Sequences, FiniteSets

CONSTANTS
    Admins, Users, Attributes,
    MaxCertificates, MaxOperations,     \* bounds
    NoCertificate, Absent

\* Certificates are numbered, and the marker for none is no number.
ASSUME EnrollmentAssumption == NoCertificate \notin Nat

VARIABLES
    registry,   \* per user: the set of attributes, or Absent
    issued,     \* the certificates: a sequence of [user, attrs]
    revoked,    \* the numbers of the revoked ones
    deleted,    \* the users revoked as a whole
    wallet,     \* per user: the certificates the callers were given for him
    withdrawn,  \* those that an administrator revoked by their number, and
    lost,       \* those replaced in an update that was not told so: for properties
    operation,  \* per administrator: [step, kind, user, old, new, request, names, error]
    operations  \* operations begun so far

enrollVars == <<registry, issued, revoked, deleted, wallet, withdrawn, lost, operation,
                operations>>

-----------------------------------------------------------------------------
\* The CA.

Registered(user) == registry[user] # Absent
Valid(number) == number \notin revoked /\ issued[number].user \notin deleted

Issue(user, attrs) == issued' = Append(issued, [user |-> user, attrs |-> attrs])

-----------------------------------------------------------------------------
\* The operations.

NoOperation ==
    [step |-> "idle", kind |-> "none", user |-> Absent, old |-> NoCertificate,
     new |-> NoCertificate, request |-> {}, names |-> {}, error |-> "none"]

BeginOperation(a, kind, user, old, request, step) ==
    /\ operation[a].step = "idle"
    /\ operations < MaxOperations
    /\ operations' = operations + 1
    /\ operation' = [operation EXCEPT ![a] =
            [NoOperation EXCEPT !.step = step, !.kind = kind, !.user = user,
                                !.old = old, !.request = request]]
    /\ UNCHANGED <<registry, issued, revoked, deleted, wallet, withdrawn, lost>>

RegisterAndEnroll(a, user, attrs) ==
    BeginOperation(a, "registerAndEnroll", user, NoCertificate, attrs, "register")

\* The password is the caller's, so that whoever registered can enroll later.
EnrollOnly(a, user) ==
    BeginOperation(a, "enroll", user, NoCertificate, {}, "enroll")

UpdateIdentity(a, user, old, attrs) ==
    BeginOperation(a, "update", user, old, attrs, "getOne")

RevokeIdentity(a, user) ==
    BeginOperation(a, "revoke", user, NoCertificate, {}, "read")

\* A certificate by its number, of the list of all that the CA gives administrators.
RevokeCertificate(a, n) ==
    BeginOperation(a, "revoke", issued[n].user, n, {}, "read")

\* The class of error the caller is given: Conflict for a registered user.
ParseError(refusal) ==
    CASE refusal = "exists" -> "ConflictError"
      [] refusal = "unauthorized" -> "AuthorizationError"
      [] refusal = "other" -> "RegistrationError"

Goes(a, step) == operation' = [operation EXCEPT ![a].step = step]

Fails(a, error) ==
    operation' = [operation EXCEPT ![a].step = "idle", ![a].error = error]

\* The certificate is handed to the caller, who replaces the old one, if any.
Hand(user, old, new) ==
    wallet' = [wallet EXCEPT ![user] = (@ \ {old}) \cup {new}]

Register(a) ==
    LET o == operation[a]
    IN  /\ o.step = "register"
        /\ IF Registered(o.user)
           THEN Fails(a, ParseError("exists")) /\ UNCHANGED registry
           ELSE /\ registry' = [registry EXCEPT ![o.user] = o.request]
                /\ \/ Goes(a, "enroll")
                   \/ Fails(a, ParseError("other"))
        /\ UNCHANGED <<issued, revoked, deleted, wallet, withdrawn, lost, operations>>

Enroll(a) ==
    LET o == operation[a]
    IN  /\ o.step = "enroll"
        /\ Len(issued) < MaxCertificates
        /\ IF ~Registered(o.user) \/ o.user \in deleted
           THEN Fails(a, ParseError("unauthorized")) /\ UNCHANGED <<issued, wallet>>
           ELSE /\ Issue(o.user, registry[o.user])
                /\ \/ Goes(a, "idle") /\ Hand(o.user, NoCertificate, Len(issued'))
                   \/ Fails(a, ParseError("other")) /\ UNCHANGED wallet
        /\ UNCHANGED <<registry, revoked, deleted, withdrawn, lost, operations>>

\* The attributes are read before they are changed.
GetOne(a) ==
    LET o == operation[a]
    IN  /\ o.step = "getOne"
        /\ operation' = [operation EXCEPT ![a].step = "modify", ![a].names = registry[o.user]]
        /\ UNCHANGED <<registry, issued, revoked, deleted, wallet, withdrawn, lost,
                       operations>>

Modify(a) ==
    LET o == operation[a]
    IN  /\ o.step = "modify"
        /\ registry' = [registry EXCEPT ![o.user] = o.request]
        /\ Goes(a, "reenroll") \/ Fails(a, ParseError("other"))
        /\ UNCHANGED <<issued, revoked, deleted, wallet, withdrawn, lost, operations>>

\* The request is signed with the old certificate and asks for the attributes
\* that were read; one that is not there any more is an error.
Reenroll(a) ==
    LET o == operation[a]
    IN  /\ o.step = "reenroll"
        /\ Len(issued) < MaxCertificates
        /\ IF ~Valid(o.old) \/ ~(o.names \subseteq registry[o.user])
           THEN Fails(a, ParseError("unauthorized")) /\ UNCHANGED issued
           ELSE /\ Issue(o.user, o.names)
                /\ \/ operation' = [operation EXCEPT ![a].step = "read",
                                                     ![a].new = Len(issued')]
                   \/ Fails(a, ParseError("other"))
        /\ UNCHANGED <<registry, revoked, deleted, wallet, withdrawn, lost, operations>>

\* The identity is read before it, or a certificate of it, is revoked.
Read(a) ==
    LET o == operation[a]
    IN  /\ o.step = "read"
        /\ IF Registered(o.user) THEN Goes(a, "revoke") ELSE Fails(a, "NotFoundError")
        /\ UNCHANGED <<registry, issued, revoked, deleted, wallet, withdrawn, lost,
                       operations>>

\* Mutant of Target: the serial number is that of the renewed certificate.
TargetNew(o) == o.new

\* Without a serial number the user is revoked as a whole.
Target(o) == o.old

\* The error of a revocation that is part of an update is that of the update.
RevocationError(kind) ==
    IF kind = "update" THEN ParseError("other") ELSE "InternalError"

Revoke(a) ==
    LET o == operation[a]
        whole == Target(o) = NoCertificate
        update == o.kind = "update"
    IN  /\ o.step = "revoke"
        /\ \/ /\ ~whole /\ Target(o) \in revoked
              /\ Fails(a, RevocationError(o.kind))
              /\ UNCHANGED <<revoked, deleted, wallet, withdrawn, lost>>
           \/ /\ whole \/ Target(o) \notin revoked
              /\ revoked' = IF whole THEN revoked ELSE revoked \cup {Target(o)}
              /\ deleted' = IF whole THEN deleted \cup {o.user} ELSE deleted
              /\ withdrawn' = IF update \/ whole THEN withdrawn ELSE withdrawn \cup {o.old}
              /\ \/ /\ Goes(a, "idle")
                    /\ IF update THEN Hand(o.user, o.old, o.new) ELSE UNCHANGED wallet
                    /\ UNCHANGED lost
                 \/ /\ Fails(a, RevocationError(o.kind))
                    /\ lost' = IF update THEN lost \cup {o.old} ELSE lost
                    /\ UNCHANGED wallet
        /\ UNCHANGED <<registry, issued, operations>>

\* A request does not reach the CA.
Unreachable(a) ==
    LET o == operation[a]
    IN  /\ o.step # "idle"
        /\ Fails(a, CASE o.kind = "revoke" /\ o.step = "read" -> "NotFoundError"
                      [] o.kind = "revoke" /\ o.step = "revoke" -> "InternalError"
                      [] o.kind # "revoke" -> ParseError("other"))
        /\ UNCHANGED <<registry, issued, revoked, deleted, wallet, withdrawn, lost,
                       operations>>

-----------------------------------------------------------------------------
EnrollInit ==
    /\ registry = [user \in Users |-> Absent]
    /\ issued = <<>>
    /\ revoked = {}
    /\ deleted = {}
    /\ wallet = [user \in Users |-> {}]
    /\ withdrawn = {}
    /\ lost = {}
    /\ operation = [a \in Admins |-> NoOperation]
    /\ operations = 0

EnrollNext ==
    \E a \in Admins :
        \/ \E user \in Users :
              \/ \E attrs \in SUBSET Attributes :
                    \/ RegisterAndEnroll(a, user, attrs)
                    \/ \E old \in wallet[user] : UpdateIdentity(a, user, old, attrs)
              \/ EnrollOnly(a, user)
              \/ RevokeIdentity(a, user)
        \/ \E n \in DOMAIN issued : RevokeCertificate(a, n)
        \/ Register(a) \/ Enroll(a)
        \/ GetOne(a) \/ Modify(a) \/ Reenroll(a)
        \/ Read(a) \/ Revoke(a)
        \/ Unreachable(a)

EnrollSpec == EnrollInit /\ [][EnrollNext]_enrollVars

-----------------------------------------------------------------------------
\* Properties.

EnrollTypeOK ==
    /\ registry \in [Users -> {Absent} \cup SUBSET Attributes]
    /\ revoked \subseteq DOMAIN issued
    /\ withdrawn \cup lost \subseteq revoked
    /\ wallet \in [Users -> SUBSET DOMAIN issued]
    /\ \A user \in Users : \A n \in wallet[user] : issued[n].user = user

\* Whatever becomes of updates, and of any number at the same time, what a user was
\* given he can use, until it is replaced.  A request that fails costs him nothing,
\* but for one: if the old certificate is revoked and the answer is lost, the new one
\* is lost with it, and the user is locked out if the old one was his only one.  He
\* loses that one and no other.  Other than that only an administrator who revokes
\* the certificate, or the user, takes it from him.
NeverLockedOut ==
    \A user \in Users \ deleted :
        \A n \in wallet[user] \ (withdrawn \cup lost) : Valid(n)

\* A certificate that is replaced in an update is revoked by then.
ReplacedIsRevoked ==
    [][\A user \in Users : wallet[user] \ wallet'[user] \subseteq revoked']_enrollVars
=============================================================================
