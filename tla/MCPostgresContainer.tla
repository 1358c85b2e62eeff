------------------------- MODULE MCPostgresContainer -------------------------
\* Three tasks and a cleaner. Two of the tasks share a label and an image; the
\* third asks for a newer image. The process id of a task that has ended may be
\* given to the next, of either image.
EXTENDS PostgresContainer

CONSTANTS atlas, drizzle, drizzle2, clean, b1, b2, b3, old, new, person

MCLegacy == [image |-> old, port |-> 1]
MCMixed == [g \in Gates |-> [image |-> IF g = atlas THEN new ELSE old, port |-> 1]]
MCLabel == [g \in Gates |-> IF g = atlas THEN "atlas" ELSE "drizzle"]
MCPids == [t \in Tasks |-> CASE t = atlas -> {drizzle}
                               [] t = drizzle2 -> {drizzle, drizzle2}
                               [] OTHER -> {t}]
==============================================================================
