------------------------------ MODULE Identity ------------------------------
(***************************************************************************)
(* The identity of an authenticated context, pkg/models/auth_context.go:   *)
(* NewAuthContext hashes the label of the principal and the reference of   *)
(* its session, each preceded by its length.  An identity is the bytes     *)
(* that are hashed; text is a sequence of bytes.                           *)
(***************************************************************************)
EXTENDS Integers, Sequences

CONSTANTS
  Bytes,
  Colon,
  Decimal   \* Decimal[n]: the digits of n

(* A number is not empty, has no colon, and differs from other numbers. *)
ASSUME IdentityAssumption ==
  /\ Colon \in Bytes
  /\ \A n \in DOMAIN Decimal : Decimal[n] \in Seq(Bytes \ {Colon})
  /\ \A m, n \in DOMAIN Decimal : Decimal[m] = Decimal[n] => m = n

-----------------------------------------------------------------------------
canonicalField(s) == Decimal[Len(s)] \o <<Colon>> \o s

(* Slip: the two fields are joined by a separator. *)
identityJoined(label, session) == label \o <<Colon>> \o session

identity(label, session) == canonicalField(label) \o canonicalField(session)
=============================================================================
