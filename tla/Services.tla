------------------------------- MODULE Services -------------------------------
(***************************************************************************)
(* VM provisioning, port mappings and notifications side by side in one     *)
(* service (src/main.py).  They share neither a table nor a part of the     *)
(* router's configuration, so a state of the service is a state of each: a  *)
(* behaviour is followed in one of them, in `focus', while the others rest. *)
(* Each property holds of the whole as it holds of its part.  The names of  *)
(* VmProvisioning are taken as they are; the other two are instantiated.    *)
(***************************************************************************)
EXTENDS VmProvisioning

CONSTANTS
  Subnets, Ips, Ports, MaxMapping,                               \* port mappings
  Events, Kinds, AnyKind, MaxNotificationRule, MaxTask, Removers \* notifications

ASSUME ServiceAssumption ==
  /\ Answers \subseteq {"ok", "refused", "lost"}
  /\ {"create", "failure"} \subseteq Events
  /\ MaxNotificationRule \in Nat

VARIABLES
  focus,
  mappings, op,
  notificationRules, history, tasks, removal, stray

Forwarding == INSTANCE PortMappings
Notifying == INSTANCE Notifications
  WITH rules <- notificationRules, MaxRule <- MaxNotificationRule, Requests <- Removers

forwardingVars == <<mappings, op>>
notifyingVars  == <<notificationRules, history, tasks, removal, stray>>
serviceVars    == <<focus, vars, forwardingVars, notifyingVars>>

ServiceInit ==
  /\ focus \in {"provisioning", "forwarding", "notifying"}
  /\ Init /\ Forwarding!Init /\ Notifying!Init

ProvisioningStep ==
  /\ focus = "provisioning" /\ Next
  /\ UNCHANGED <<focus, forwardingVars, notifyingVars>>

ForwardingStep ==
  /\ focus = "forwarding" /\ Forwarding!Next
  /\ UNCHANGED <<focus, vars, notifyingVars>>

NotifyingStep ==
  /\ focus = "notifying" /\ Notifying!Next
  /\ UNCHANGED <<focus, vars, forwardingVars>>

ServiceNext == ProvisioningStep \/ ForwardingStep \/ NotifyingStep

ServiceSpec == ServiceInit /\ [][ServiceNext]_serviceVars

-----------------------------------------------------------------------------
(* The type invariants of the three components.                             *)
TypesOK == TypeOK /\ Forwarding!TypeOK /\ Notifying!TypeOK

(* A mapping stays with its subnet, whatever update commits on an id that   *)
(* was given out again.                                                     *)
SubnetKept == Forwarding!SubnetKept

(* A delivery task that ended served the first matching rule, and all of    *)
(* them only if the request closed its session in time.                     *)
FirstOrAllServed == Notifying!FirstOrAllServed

(* A row of the notification history shows only under the rule it was       *)
(* recorded for, unless a removal overlapped the delivery.                  *)
HistoryOfItsRule == Notifying!HistoryOfItsRule

(* create_vpn reports success exactly when the router acknowledged and no   *)
(* more than one rule waits for `create'.                                   *)
VpnReply == Notifying!VpnReply
=============================================================================
