----------------------------- MODULE MCSaml2Login -----------------------------
(***************************************************************************)
(* Instances of Saml2Login for TLC.                                        *)
(***************************************************************************)
EXTENDS Saml2Login, TLC

CONSTANTS sp1, sp2, sp3, aff, pw

MCNameIds == {"persistent", "transient"} \X LoginIds
MCIds == LoginIds

\* sp1 and sp2 belong to one affiliation.
MCQualifier == [sp \in Sps |-> IF sp \in {sp1, sp2} THEN aff ELSE sp]

MCDefaultBinding == [sp \in Sps |-> IF sp = sp3 THEN "post" ELSE "artifact"]
MCDefaultFormat == [sp \in Sps |-> IF sp = sp3 THEN "transient" ELSE "persistent"]

Wish(sp, binding, format, passive, consentOpen) ==
  [sp |-> sp, binding |-> binding, format |-> format, allowCreate |-> TRUE, force |-> FALSE,
   passive |-> passive, consentOpen |-> consentOpen, method |-> NoMethod, sig |-> "valid"]

\* Persistent names by POST, by PAOS and by artifact, one that still needs the
\* consent, one whose request is not signed and one with an empty
\* RequestedAuthnContext, a passive request for a transient name, and an
\* encrypted name, which never creates a federation, for a client of the ECP
\* profile.
MCWishes ==
  { Wish(sp1, "post", "persistent", FALSE, FALSE),
    [Wish(sp1, "post", "persistent", FALSE, FALSE) EXCEPT !.sig = "not_found"],
    Wish(sp2, "default", "persistent", FALSE, TRUE),
    Wish(sp1, "paos", "persistent", FALSE, FALSE),
    Wish(sp2, "paos", "encrypted", FALSE, FALSE),
    [Wish(sp3, "post", "persistent", FALSE, FALSE) EXCEPT !.method = AnyMethod],
    Wish(sp3, "artifact", "transient", TRUE, FALSE) }
=============================================================================
