-------------------------- MODULE MCSubscriptions --------------------------
(***************************************************************************)
(* Model values for Subscriptions: two threads of the user, and calls some *)
(* of which share a type of a code and some of which do not.               *)
(***************************************************************************)
EXTENDS Subscriptions

CONSTANTS a, b, k1, k2, o, plain, detail, u1, u2

MCCodes    == {a, b}
MCKTypes   == {k1, k2}
MCOTypes   == {o}
MCFlavours == {plain, detail}
MCUsers    == {u1, u2}

MCCall(op, codes, types, flavour, push) ==
    [op |-> op, codes |-> codes, types |-> types, flavour |-> flavour, push |-> push]

MCCalls ==
    {MCCall("sub", {a, b}, {k1, k2}, plain, TRUE),
     MCCall("sub", {a}, {k1, o}, detail, FALSE),
     MCCall("unsub", {b}, {k1}, plain, FALSE),
     MCCall("unsub_all", MCCodes, MCKTypes \union MCOTypes, plain, FALSE)}

\* The threads of the user are alike.
MCSymmetry == Permutations(MCUsers)
=============================================================================
