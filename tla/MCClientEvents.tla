---------------------------- MODULE MCClientEvents ----------------------------
(***************************************************************************)
(* The configurations ClientEvents is checked with: one that listens to    *)
(* the chaincode, and the default one with synthetic events, a mirrored    *)
(* class and the gateway override, which makes every call read its records *)
(* again and submits through the legacy gateway.                           *)
(***************************************************************************)
EXTENDS ClientEvents

Listening ==
    [synthetic |-> FALSE, override |-> FALSE, observed |-> TRUE,
     mirror |-> "none", submission |-> "none", migrates |-> FALSE]

Override(mirror) ==
    [synthetic |-> TRUE, override |-> TRUE, observed |-> FALSE,
     mirror |-> mirror, submission |-> "none", migrates |-> mirror = "mapped"]

MCSetups ==
    {<<"public", Listening>>, <<"mixed", Listening>>, 
     <<"segregated", [Listening EXCEPT !.submission = "legacy"]>>,
     <<"public", Override("mapped")>>, <<"mixed", Override("unmapped")>>}

MCBulks == {Ids}
=============================================================================
