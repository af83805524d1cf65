-------------------------- MODULE MCMessageRouter --------------------------
(***************************************************************************)
(* A small instance of MessageRouter: a message, its edited version under  *)
(* the same id, and a repost of the message; two rules of one priority and *)
(* one of a higher priority.                                               *)
(***************************************************************************)
EXTENDS MessageRouter

CONSTANTS k1, k2, news, edit, eitaa, archive

MCKeys == {k1, k2}
MCTexts == {news, edit}
MCTransports == {eitaa, archive}

Text(t) == [text |-> t, media |-> FALSE]
Original == [key |-> k1, content |-> Text(news)]
Edited == [key |-> k1, content |-> Text(edit)]
Repost == [key |-> k2, content |-> Text(news)]
MCMessages == {Original, Edited, Repost}

Rule(p, t, ms) == [priority |-> p, target |-> t, matches |-> ms]
MCRules == {Rule(0, eitaa, {Original, Repost}), Rule(0, archive, {Original, Edited}),
            Rule(1, eitaa, {Repost})}
=============================================================================
