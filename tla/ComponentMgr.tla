---------------------------- MODULE ComponentMgr ----------------------------
(***************************************************************************)
(* The table of the mapped ports (adapter/ComponentMgr.java): for every     *)
(* component (by id) its ports (by name), each with the TSI port id of the  *)
(* map request and the port object.  A map request makes one of both, so    *)
(* one number stands for the pair; 0 is no port.                            *)
(*                                                                         *)
(* The two LinkedHashMaps are not synchronized although several threads use *)
(* them: an action here is one operation on them.                           *)
(***************************************************************************)
EXTENDS Naturals

CONSTANTS Component, PortName

VARIABLES
  comps,      \* keys of mapCompNameToTriComp
  lists,      \* keys of mapTriPortToTuple
  portAt,     \* the port of each component and name
  observed    \* port objects the test adapter observes

mgrVars == <<comps, lists, portAt, observed>>

Key == [comp : Component, name : PortName]

MgrInit ==
  /\ comps = {} /\ lists = {}
  /\ portAt = [k \in Key |-> 0]
  /\ observed = {}

AddComponent(c) ==
  /\ comps' = comps \cup {c}
  /\ lists' = IF c \in comps THEN lists ELSE lists \cup {c}
  /\ UNCHANGED <<portAt, observed>>

\* A port of an unknown component, or whose name is taken, is dropped.
AddPort(k, i) ==
  /\ lists' = IF k.comp \in comps THEN lists \cup {k.comp} ELSE lists
  /\ IF k.comp \in comps /\ portAt[k] = 0
     THEN /\ portAt' = [portAt EXCEPT ![k] = i]
          /\ observed' = observed \cup {i}
     ELSE UNCHANGED <<portAt, observed>>
  /\ UNCHANGED comps

\* getPortId and getPort find the port.
Known(k) == k.comp \in comps /\ k.comp \in lists /\ portAt[k] # 0

\* The names under which component c has a port.
NamesOf(c) == {n \in PortName : portAt[[comp |-> c, name |-> n]] # 0}

\* Mutated: the whole entry of the component is removed with its first port.
DropPortAll(k) ==
  /\ portAt' = [j \in Key |-> IF j.comp = k.comp THEN 0 ELSE portAt[j]]
  /\ lists' = lists \ {k.comp}
  /\ comps' = comps \ {k.comp}
  /\ UNCHANGED observed

\* The last step of removePort; a component goes with its last port.
DropPort(k) ==
  /\ portAt' = [portAt EXCEPT ![k] = 0]
  /\ IF NamesOf(k.comp) \subseteq {k.name}
     THEN lists' = lists \ {k.comp} /\ comps' = comps \ {k.comp}
     ELSE UNCHANGED <<lists, comps>>
  /\ UNCHANGED observed

StopObserving(i) == observed' = observed \ {i} /\ UNCHANGED <<comps, lists, portAt>>

\* The end of removeAllPorts.
ClearComponents == comps' = {} /\ UNCHANGED <<lists, portAt, observed>>

MgrTypeOK ==
  /\ comps \subseteq Component /\ lists \subseteq Component
  /\ portAt \in [Key -> Nat]
  /\ observed \subseteq Nat
=============================================================================
