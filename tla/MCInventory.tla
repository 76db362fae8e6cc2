---------------------------- MODULE MCInventory ----------------------------
(* Two or three nodes and one or two items, with one kind of trouble each.  *)
EXTENDS Inventory

CONSTANTS A, B, C, t, b

Between(ns) == {l \in Links : {l[1], l[2]} \subseteq ns}
Calm(links, items) ==
  [links |-> links, fragile |-> {}, items |-> items, throttled |-> {}, refused |-> {},
   outdated |-> {}, other_blocks |-> 0, expiries |-> 0, queue_limit |-> 2]

MCSituations == {
  [Calm(Links, {t}) EXCEPT !.throttled = {<<B, t>>}],
  [Calm(Links, {t}) EXCEPT !.fragile = Between({A, B})],
  [Calm(Links, {t}) EXCEPT !.refused = {<<C, t>>}, !.expiries = 1],
  [Calm(Links, {b}) EXCEPT !.outdated = {<<C, b>>}],
  [Calm(Between({A, B}), {t, b}) EXCEPT !.other_blocks = 2],
  [Calm(Between({A, B}), {t, b}) EXCEPT !.queue_limit = 1],
  Calm(Between({A, B}) \cup Between({B, C}), {t, b})}
=============================================================================
