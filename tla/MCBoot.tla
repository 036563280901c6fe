------------------------------- MODULE MCBoot -------------------------------
(* Two modules with three migration files, two seeded skills. *)
EXTENDS Boot

File(n, text) == [name |-> n, sum |-> text]

TwoModules == {<<<<File(1, 1)>>, <<File(2, 1), File(3, 1)>>>>}

TwoSeeds == <<"weekly-report", "follow-up-cadence">>
=============================================================================
