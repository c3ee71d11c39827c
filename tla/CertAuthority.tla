--------------------------- MODULE CertAuthority ---------------------------
(***************************************************************************)
(* What the OpenVPN scripts promise of the certificates of one authority,  *)
(* without files, commands or servers.  A certificate is <<name, serial>>. *)
(*                                                                         *)
(* issued     every certificate the authority has signed;                  *)
(* revoked    those taken back;                                            *)
(* published  those its revocation list names;                             *)
(* enforced   those a server that reads the list turns away.               *)
(*                                                                         *)
(* VpnPki implements this module; see Authority there.                     *)
(***************************************************************************)
CONSTANTS Name, Serial

VARIABLES issued, revoked, published, enforced

vars == <<issued, revoked, published, enforced>>

Cert == Name \X Serial

Init == issued = {} /\ revoked = {} /\ published = {} /\ enforced = {}

(* A name has one certificate at a time.                                   *)
Issue(c) ==
    /\ c \notin issued
    /\ \A d \in issued : d[1] = c[1] => d \in revoked
    /\ issued' = issued \cup {c}
    /\ UNCHANGED <<revoked, published, enforced>>

Revoke(c) ==
    /\ c \in issued \ revoked
    /\ revoked' = revoked \cup {c}
    /\ UNCHANGED <<issued, published, enforced>>

Publish == published' = revoked /\ UNCHANGED <<issued, revoked, enforced>>
Enforce == enforced' = published /\ UNCHANGED <<issued, revoked, published>>

(* A new authority takes the place of this one.                            *)
Replace == issued' = {} /\ revoked' = {} /\ published' = {} /\ enforced' = {}

Next ==
    \/ \E c \in Cert : Issue(c) \/ Revoke(c)
    \/ Publish
    \/ Enforce
    \/ Replace

Spec == Init /\ [][Next]_vars

(* Of the certificates of a name, all but one are revoked.                 *)
OneCertificate ==
    \A c, d \in issued \ revoked : c[1] = d[1] => c = d

(* Nothing is turned away but what was revoked.                            *)
Ordered ==
    enforced \subseteq published /\ published \subseteq revoked
        /\ revoked \subseteq issued
=============================================================================
