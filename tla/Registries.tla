----------------------------- MODULE Registries -----------------------------
(***************************************************************************)
(* The registries of this file run side by side in one process: the DID    *)
(* registries and OpenID Federation, which resolve an identifier when they *)
(* are asked, and FIDO MDS3, eMRTD and the lists of mdoc certificates,     *)
(* which keep trust data.  They share no state, so a behaviour is about    *)
(* one of them: the method an initial state picks.                         *)
(***************************************************************************)
EXTENDS DIDRegistries, OIDFedRegistry, EMRTDRegistry, MDS3Registry, CertificateLists

Init == DIDInit /\ FedInit /\ EmrtdInit /\ MDS3Init /\ ListsInit

Stores == {"oidfed", "emrtd", "mds3", "lists"}

Next ==
    \/ /\ method \notin Stores /\ DIDNext
       /\ UNCHANGED <<fedVars, emrtdVars, mds3Vars, listVars>>
    \/ /\ method = "oidfed" /\ FedNext
       /\ UNCHANGED <<didVars, emrtdVars, mds3Vars, listVars>>
    \/ /\ method = "emrtd" /\ EmrtdNext
       /\ UNCHANGED <<didVars, fedVars, mds3Vars, listVars>>
    \/ /\ method = "mds3" /\ MDS3Next
       /\ UNCHANGED <<didVars, fedVars, emrtdVars, listVars>>
    \/ /\ method = "lists" /\ ListsNext
       /\ UNCHANGED <<didVars, fedVars, emrtdVars, mds3Vars>>

Spec == Init /\ [][Next]_<<didVars, fedVars, emrtdVars, mds3Vars, listVars>>

(* Fairness is asked of the one registry with a goroutine of its own that  *)
(* must get somewhere.                                                     *)
FairSpec == Spec /\ EmrtdFairness
=============================================================================
