-------------------------- MODULE MCPolicyPipeline --------------------------
(* Two policies: "issue" names one registry, sets a control and the shared *)
(* key credential_types; "present" demands a bound x5c key.  Two request   *)
(* objects carry every mix of well-formed and forged members below.        *)
EXTENDS PolicyPipeline, TLC

CONSTANTS q1, q2, web, lote, forged

MCPolicyOf ==
    [issue   |-> [registries |-> {web}, allowedKeyTypes |-> {}, requireKeyBinding |-> FALSE,
                  sets |-> {"allowed_domains", "credential_types"}],
     present |-> [registries |-> {}, allowedKeyTypes |-> {"x5c"}, requireKeyBinding |-> TRUE,
                  sets |-> {"allowed_attributes"}]]

MCSupportedTypes == (web :> {"jwk"}) @@ (lote :> {"jwk", "x5c"})

(* A context or parameters: empty, or with a value under every key.        *)
Empty  == [k \in Keys |-> None]
Forged == [k \in Keys |-> forged]

Dns == <<"x509_san_dns", "h">>
Uri == <<"x509_san_uri", "https", "h">>

MCClientRequests ==
    [subjectType : {"key"}, subject : {Dns, <<"https", "h">>}, resourceId : {Dns, <<>>},
     type : {"jwk", ""}, hasKey : {TRUE}, context : {Empty, Forged}, parameters : {Forged},
     action : {"", "issue", "present", "other", "more"}]
    \cup
    [subjectType : {"key", "other"}, subject : {Uri}, resourceId : {Uri},
     type : {"x5c"}, hasKey : BOOLEAN, context : {Forged}, parameters : {Empty},
     action : {"present", "more"}]

(* The two request objects are interchangeable.                            *)
RequestSymmetry == Permutations(Requests)
=============================================================================
