--------------------------- MODULE MCLoTERegistry ---------------------------
(* Two configured lists of lists, one of which also points to the other,   *)
(* a cycle, and a list reached through each of them and by itself.         *)
EXTENDS LoTERegistry, TLC

CONSTANTS national, federal, issuers, partners, eaa, alice, bob, k, c

MCSources     == <<issuers>>
MCLoTLSources == <<federal, national>>
MCPointers    == (federal :> <<national, partners>>) @@ (national :> <<eaa, federal>>)
MCTypeOf      == (issuers :> "pid") @@ (partners :> "custom") @@ (eaa :> "eaa")
MCRoleTypes   == [wallet |-> {"pid", "custom"}]

MCServices ==
    (issuers  :> {[subject |-> alice, key |-> k, status |-> "absent"]}) @@
    (partners :> {[subject |-> alice, key |-> c, status |-> "absent"],
                  [subject |-> bob,   key |-> k, status |-> "other"]}) @@
    (eaa      :> {[subject |-> bob, key |-> c, status |-> "notified"],
                  [subject |-> bob, key |-> k, status |-> "withdrawn"]})
=============================================================================
