------------------------------- MODULE Fleet --------------------------------
(* The parties of a deployment, shared by the gateway's components. *)
CONSTANTS
    Pods,       \* agent pods; a pod stands for its pod_name and its row's UUID
    Convs,      \* conversations
    None        \* the empty string / nil

ASSUME NoneAssumption == None \notin Pods /\ None \notin Convs
=============================================================================
