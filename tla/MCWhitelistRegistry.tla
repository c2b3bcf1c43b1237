------------------------ MODULE MCWhitelistRegistry ------------------------
(* One entity under two spellings, and one that only a wildcard matches.   *)
EXTENDS WhitelistRegistry, TLC

CONSTANTS host, other, k0, k1, hostEntry, hostTwin, any

MCCovers == (hostEntry :> {host}) @@ (hostTwin :> {host}) @@ (any :> {host, other})
MCEndpoints == (hostEntry :> {"inline", "url"}) @@ (hostTwin :> {"inline"}) @@ (any :> {})

MCKeysOf == (0 :> {k0}) @@ (1 :> {k1})

NoLists == [l \in {} |-> {}]

(* Legacy lists; an explicit mapping that overrides a default, beside a    *)
(* wildcard for everything else.                                           *)
Plain == [lists |-> NoLists, actions |-> NoLists, issuers |-> {hostEntry},
          verifiers |-> {}, trusted |-> {}, systemCA |-> FALSE]
Mapped == [lists |-> [partners |-> {hostTwin, hostEntry}], actions |-> [issuer |-> "partners"],
           issuers |-> {}, verifiers |-> {}, trusted |-> {any}, systemCA |-> TRUE]

MCFileConfigs == {Plain, Mapped}
MCOneConfig   == {Plain}
=============================================================================
