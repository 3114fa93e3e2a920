---------------------------- MODULE MCKeyDiscovery ----------------------------
(***************************************************************************)
(* Networks for KeyDiscovery.                                              *)
(***************************************************************************)
EXTENDS KeyDiscovery

CONSTANTS a, b, c, d, e

Both(links) == links \cup {<<l[2], l[1]>> : l \in links}

Path     == Both({<<a, b>>, <<b, c>>})
Line     == Path \cup Both({<<c, d>>})
Star     == Path \cup Both({<<b, d>>})
Triangle == Path \cup Both({<<a, c>>})
Ring     == Line \cup Both({<<d, a>>})
Lollipop == Line \cup Both({<<b, d>>})

(* Those who have each other's address, those who have met e, who is away,  *)
(* and the messages users are going to send.                                *)
Calm(links, holders, sends) ==
    [met |-> links \cup {<<q, e>> : q \in holders}, near |-> links, walls |-> {},
     lossy |-> FALSE, sends |-> {<<s[1], s[2], 1>> : s \in sends}, meets |-> {}]

(* The key as far away as the limit allows; two who ask at once; rings with *)
(* and without the key, a storm among them; two messages and the            *)
(* recipient's own announcement; firewalls; losses; nobody to ask at first. *)
Networks == {
    Calm(Line, {d}, {<<a, e>>, <<c, e>>}),
    Calm(Line, {}, {<<a, d>>}),
    Calm(Star, {c, d}, {<<a, e>>}),
    Calm(Ring, {c}, {<<a, e>>, <<d, e>>}),
    Calm(Triangle, {}, {<<a, e>>, <<b, e>>}),
    Calm(Lollipop, {}, {<<a, e>>}),
    Calm(Lollipop, {d}, {<<a, e>>}),
    Calm(Lollipop, {c, d}, {<<a, e>>}),
    [Calm(Path, {}, {}) EXCEPT !.sends = {<<a, c, 1>>, <<a, c, 2>>}, !.meets = {<<a, c>>}],
    [Calm(Line, {}, {<<a, c>>, <<b, d>>}) EXCEPT !.walls = {<<b, a>>, <<c, b>>}],
    [Calm(Line, {d}, {<<a, e>>, <<d, a>>}) EXCEPT !.walls = {<<a, b>>}],
    [Calm(Line, {d}, {<<a, e>>, <<d, a>>}) EXCEPT !.lossy = TRUE, !.meets = {<<b, e>>}],
    [Calm({}, {}, {<<a, d>>}) EXCEPT !.meets = {<<a, b>>, <<a, d>>}]}

Village == {Calm(Lollipop, {d}, {<<a, e>>})}
=============================================================================
