--------------------------- MODULE MCCredentials ---------------------------
(* Small instances of Credentials for TLC. *)
EXTENDS Credentials, TLC

CONSTANTS a1, a2, b1, b2, c1, c2, c3

Hop == [Plain EXCEPT !.kind = "exec-hop", !.jump = a2]
Jumped == [Plain EXCEPT !.jump = a2]
Looped == [Plain EXCEPT !.jump = a1]
Proxied == [Plain EXCEPT !.kind = "bastion", !.bastion = b1]
Elsewhere == [Proxied EXCEPT !.bastion = b2]

Nothing == a1 :> None @@ a2 :> None
BehindEntry == a1 :> Hop @@ a2 :> Plain
BehindBastion == a1 :> Proxied @@ a2 :> None

BehindJump == a1 :> Jumped @@ a2 :> Plain

BehindEachOther == a1 :> Jumped @@ a2 :> Looped

AllSaved == {Nothing, BehindEntry, BehindBastion, BehindJump, BehindEachOther}

Command(op, name, given) ==
    [op |-> op, name |-> name, entry |-> Plain, force |-> FALSE, extra |-> None,
     goOn |-> FALSE, given |-> given]

Add(name, entry, force) ==
    [Command("add", name, None) EXCEPT !.entry = entry, !.force = force]

Wizard(name, entry, extra) ==
    [Command("wizard", name, "good") EXCEPT !.entry = entry, !.extra = extra, !.goOn = TRUE]

Three(x, y, z) == c1 :> x @@ c2 :> y @@ c3 :> z

Look == Command("status", a1, None)

\* Commands on the configuration and on credentials, three at a time.
AllPlans ==
    {Three(Wizard(a1, Hop, a2), Command("remove", a1, None), Command("remove", a2, None)),
     Three(Wizard(a1, Hop, a2), Command("setup", a2, "good"), Look),
     Three(Wizard(a1, Hop, a2), Add(a2, Plain, FALSE), Add(a1, Looped, FALSE)),
     Three(Wizard(a1, Jumped, a2), Add(a1, Proxied, TRUE), Look),
     Three(Command("setup", a1, "good"), Command("use", a1, "good"), Add(a1, Elsewhere, TRUE))}
    \cup
    \* Another alias behind the bastion of a1.
    {Three(Command("setup", a1, "good"), Add(a2, Proxied, FALSE), x) :
        x \in {Command("unset", a2, None), Command("setup", a2, "good")}}
    \cup
    {Three(Command("setup", a1, "good"), x, y) :
        x \in {Command("unset", a1, None), Command("setup", a1, "bad"),
               Command("setup", a2, "good"), Command("use", a1, "bad")},
        y \in {Command("setup", a1, "good"), Command("unset", a2, None), Look,
               Add(a1, Plain, TRUE)}}
=============================================================================
