----------------------------- MODULE MCIdffLogin -----------------------------
(***************************************************************************)
(* Instances of IdffLogin for TLC.                                         *)
(***************************************************************************)
EXTENDS IdffLogin

CONSTANTS sp1, sp2, pw

MCNameIds == {"federated", "onetime"} \X LoginIds
MCIds == LoginIds

Wish(sp, profile, policy, consented, passive) ==
  [sp |-> sp, profile |-> profile, policy |-> policy, consented |-> consented,
   force |-> FALSE, passive |-> passive, method |-> NoMethod, signed |-> TRUE]

\* Every policy, both profiles, a request that forces the authentication by a
\* method, one whose RequestAuthnContext names none, and a passive one that is
\* not signed.
MCWishes ==
  { Wish(sp1, "post", "federated", FALSE, FALSE),
    Wish(sp1, "artifact", "any", FALSE, FALSE),
    [Wish(sp1, "artifact", "none", FALSE, FALSE) EXCEPT !.force = TRUE, !.method = pw],
    [Wish(sp2, "artifact", "federated", TRUE, FALSE) EXCEPT !.method = AnyMethod],
    [Wish(sp2, "post", "onetime", FALSE, TRUE) EXCEPT !.signed = FALSE] }

\* One service provider and the POST profile.
MCPostWishes == { Wish(sp1, "post", "federated", TRUE, FALSE) }
=============================================================================
