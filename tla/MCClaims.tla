----------------------------- MODULE MCClaims -----------------------------
(***************************************************************************)
(* The devices on which the claims of LfsckClaims fail.                    *)
(***************************************************************************)
EXTENDS LfsckClaims, MCLfsck

\* LovEdgesAreObjects: a file whose first object is lost, while another server has one of its id.
ElsewhereImages == {IdElsewhere}

\* LovParentCreated: two files beside their objects.
MCInodes == m :> 3 @@ o1 :> 3
PlainImages == {m :> Plain @@ o1 :> Objects}

=============================================================================
