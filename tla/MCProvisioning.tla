--------------------------- MODULE MCProvisioning ---------------------------
(* Model checking of Provisioning: two scenarios with an account each. *)
EXTENDS Provisioning

TwoPairs == {<<"s1", "t">>, <<"s2", "t">>}
OneQuota == {<<"s1", "t">>}

\* No options, and --exclude s2, which lets untagged accounts pass.
SomeFilters == {{"s1", "s2", Untagged}, {"s1", Untagged}}
=============================================================================
