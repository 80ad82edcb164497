---------------------------- MODULE MCMigrations ----------------------------
(* Instances of Migrations for TLC. *)
EXTENDS Migrations

\* Versions 1 and 3 have a script.  One release has no versions at all, one
\* ships a script above its own target.
ThreeReleases == {[target |-> 0, scripts |-> {}], [target |-> 1, scripts |-> {1, 3}],
                  [target |-> 3, scripts |-> {1, 3}]}

OneRelease  == {[target |-> 1, scripts |-> {1}]}
TwoReleases == {[target |-> 1, scripts |-> {1}], [target |-> 2, scripts |-> {1, 2}]}
=============================================================================
