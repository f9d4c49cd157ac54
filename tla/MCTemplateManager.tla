------------------------- MODULE MCTemplateManager -------------------------
(* TemplateManager for TLC: a database, an application that waits for it   *)
(* and a secret, which is of a trivial kind (see                           *)
(* test/fixtures/depends-on.yaml).                                         *)
EXTENDS TemplateManager

TheIds == {"db", "app", "secret", "copy"}
TheDeps == [i \in TheIds |-> IF i = "app" THEN <<"db">> ELSE <<>>]
TheTrivial == {"secret", "copy"}
TheCopies == <<"copy">>
NoCopies == <<>>

\* The second revision leaves the application out (`when'); the objects come
\* from a map (`forEach'), in any order.
Rollouts == << {<<"db", "app", "secret">>}, {<<"db", "secret">>, <<"secret", "db">>} >>

\* The objects of the first revision come from a map, what depends on another
\* in front or not; the second leaves the application out.
Changing == << {<<"db", "app">>, <<"app", "db">>}, {<<"db">>} >>

\* The application is listed before what it depends on.
Reversed == << {<<"app", "db", "secret">>} >>

=============================================================================
