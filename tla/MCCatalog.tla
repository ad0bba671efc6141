----------------------------- MODULE MCCatalog -----------------------------
(* Instances of Catalog for TLC. *)
EXTENDS Catalog

CONSTANTS backend, old, new, l1, l2, l3

Serving(url, ttl) == [url |-> url, ttl |-> ttl]

(* The base_url changes, and with it the lifetime. *)
OneConfig == backend :> Serving(old, 2)
Moved     == backend :> Serving(new, 1)
OneConfigs == {OneConfig, Moved, <<>>}

=============================================================================
