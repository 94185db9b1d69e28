---- MODULE MCBackSlots ----
EXTENDS BackSlots, TLC
CONSTANTS a, b, c, h1, h2
MCHost1 == [l \in Links |-> h1]
MCHost2 == [l \in Links |-> IF l = c THEN h2 ELSE h1]
====
