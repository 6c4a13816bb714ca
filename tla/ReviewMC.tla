------------------------------ MODULE ReviewMC ------------------------------
(* Values for TLC's run of Review. *)
EXTENDS Review, TLC

\* Core before the plugin, as in the inventory.
TwoComponents == <<"core", "plugin">>
OnePackage == <<"package">>
Versions == [k \in {"core", "plugin", "package", "php"} |-> <<1, 2>>]

Between(introduced, fixed) == [introduced |-> introduced, fixed |-> fixed]

\* One range without a beginning, as most of WPScan's are; and two branches with a
\* fix each, and one that ended before the installed version.
TwoFlaws ==
  {{Between(<<>>, <<1, 10>>)},
   {Between(<<1>>, <<1, 10>>), Between(<<2>>, <<2, 1>>), Between(<<0, 9>>, <<0, 9, 1>>)}}

\* These advisories are some of those that theorem FlawsTold is about.
ASSUME TwoFlawsAreConsistent == Consistent
=============================================================================
