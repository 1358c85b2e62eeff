-------------------------------- MODULE Template --------------------------------
(***************************************************************************)
(* The template of create-app (packages/create-app/src/template.ts): files *)
(* with conditions on the parts a project chose, and tokens for its names. *)
(* The build writes it (module TemplateBuild), the command line copies     *)
(* from it (module CreateApp).                                             *)
(***************************************************************************)
EXTENDS Naturals

Parts == [web : BOOLEAN, service : BOOLEAN, database : BOOLEAN]

\* The combinations a project can choose. A service always has a database.
CHOICES == {p \in Parts : (p.web \/ p.service) /\ (p.service => p.database)}

TOKENS == {"project", "web", "webPort", "organizationPolicy", "service", "servicePort"}

\* The tokens a project has values for.
values(parts) ==
  {"project"} \union (IF parts.web THEN {"web", "webPort", "organizationPolicy"} ELSE {})
              \union (IF parts.service THEN {"service", "servicePort"} ELSE {})

\* Each key of a condition must equal the project's choice.
matches(when, parts) == \A part \in DOMAIN when : when[part] = parts[part]

Selected(files, parts) == {f \in files : matches(f.when, parts)}

\* checkTemplate: no choice writes a path twice.
OncePerPath(files) ==
  \A parts \in CHOICES : \A f, g \in Selected(files, parts) : f.path = g.path => f = g
=============================================================================
