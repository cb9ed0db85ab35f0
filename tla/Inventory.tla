----------------------------- MODULE Inventory -----------------------------
(***************************************************************************)
(* SimNOS.__init__ (core/simnos.py, core/host.py, core/pydantic_models.py, *)
(* plugins/nos/__init__.py): the inventory is validated, its entries are   *)
(* merged with the defaults one after the other, each gets its ports, and  *)
(* a Host is made for each replica.  Any of it may raise, which leaves the *)
(* caller without a SimNOS object.                                         *)
(*                                                                         *)
(* A value that may be missing or null is a record: "is" says what it is,  *)
(* "of" holds it.                                                          *)
(***************************************************************************)
EXTENDS Naturals, Sequences, FiniteSets

CONSTANTS Inventories,  \* the inventories to choose from: subset of Inventory
          Word,         \* what the names of the entries are made of
          Platforms,    \* what may be named as a platform
          Known,        \* available_platforms
          MaxPort       \* the highest TCP port

(* A replica's name is the entry's name and a number, of one digit here.   *)
Name == Seq(Word \cup Nat)
MaxReplicas == 10   \* bound

PortValue    == [is : {"absent", "null"}, of : {<<>>}]
                \cup [is : {"int"}, of : [1 .. 1 -> Nat]] \cup [is : {"list"}, of : Seq(Nat)]
ReplicaValue == [is : {"absent", "null"}, of : {0}] \cup [is : {"int"}, of : 0 .. MaxReplicas]

(* platform may be "absent" or "null", and so may the shell section.  A    *)
(* shell section has a configuration, a configuration that names the base  *)
(* prompt, or none ("bare").                                               *)
Section == [port : PortValue, platform : Platforms \cup {"absent", "null"},
            shell : {"absent", "null", "plain", "named", "bare"}]
Entry   == [name : Name, port : PortValue, replicas : ReplicaValue,
            platform : Platforms \cup {"absent", "null"},
            shell : {"absent", "null", "plain", "named", "bare"}]
Inventory == [default : Section, hosts : Seq(Entry)]

ASSUME InventoriesAssumption == Inventories \subseteq Inventory
ASSUME KnownAssumption == Known \subseteq Platforms \ {"absent", "null"}
ASSUME MaxPortAssumption == MaxPort \in Nat

VARIABLES
  inventory,        \* the chosen inventory, default section merged, fixed
  at,               \* where the constructor is
  entry,            \* the entry of hosts whose turn it is
  made,             \* hosts made for this entry
  hosts,            \* by name: port and the entry whose params it shares
  allocated_ports,
  base_prompt       \* base_prompt in each entry's shell configuration

inventoryVars == <<inventory, at, entry, made, hosts, allocated_ports, base_prompt>>

Unset      == "unset"       \* no base_prompt in the configuration yet
Configured == "configured"  \* the one the inventory names

Entries == inventory.hosts
Default == inventory.default

HostRecord == [port : 1 .. MaxPort, entry : Nat]

ConstructorTypeOK ==
  /\ inventory \in Inventory
  /\ at \in {"load", "entry", "allocate", "host", "done", "failed"}
  /\ entry \in Nat /\ made \in Nat
  /\ DOMAIN hosts \subseteq Name
  /\ \A name \in DOMAIN hosts : hosts[name] \in HostRecord
  /\ allocated_ports \subseteq 1 .. MaxPort
  /\ DOMAIN base_prompt = DOMAIN Entries
  /\ \A i \in DOMAIN base_prompt :
       base_prompt[i] \in [is : {Unset, Configured}, of : {<<>>}] \cup [is : {"name"}, of : Name]

ConstructorInit ==
  /\ inventory \in Inventories
  /\ at = "load" /\ entry = 1 /\ made = 0
  /\ hosts = [name \in {} |-> 0]
  /\ allocated_ports = {}
  /\ base_prompt = [i \in DOMAIN Entries |-> [is |-> Unset, of |-> <<>>]]

-----------------------------------------------------------------------------
(* The schema.                                                             *)

(* Python's truth: a missing or null port is not there, nor is an empty    *)
(* list of them.  (Nor is zero, which the range excludes anyway.)          *)
Given(value) == value.is = "int" \/ (value.is = "list" /\ value.of # <<>>)

InRange(value) == \A i \in DOMAIN value.of : value.of[i] \in 1 .. MaxPort

(* HostConfig.check_port_value, before the defaults are merged.            *)
CheckPortValue(e) ==
  Given(e.port) => IF e.replicas.is = "absent" THEN e.port.is = "int"
                                               ELSE e.port.is = "list"

ValidSection(s) == InRange(s.port)

ModelSimnosInventory ==
  /\ ValidSection(Default)
  /\ \A i \in DOMAIN Entries : ValidSection(Entries[i]) /\ CheckPortValue(Entries[i])

-----------------------------------------------------------------------------
(* {**default, **host_config}: a key of the host replaces that of the      *)
(* default section, a null too, and a section as a whole.                  *)

Merged(own, default) == IF own = "absent" THEN default ELSE own

Port(e)     == IF e.port.is = "absent" THEN Default.port ELSE e.port
Platform(e) == Merged(e.platform, Default.platform)
Shell(e)    == Merged(e.shell, Default.shell)

(* Mutant: a range is as long as the difference of its ends.               *)
CheckPortsFencepost(e) ==
  IF e.replicas.is # "int"
  THEN Port(e).is # "list"
  ELSE /\ e.replicas.of >= 1
       /\ Port(e).is = "list" /\ Len(Port(e).of) = 2
       /\ Port(e).of[1] < Port(e).of[2]
       /\ Port(e).of[2] - Port(e).of[1] = e.replicas.of

(* _check_ports_and_replicas raises for all others.                        *)
CheckPortsAndReplicas(e) ==
  IF e.replicas.is # "int"
  THEN Port(e).is # "list"
  ELSE /\ e.replicas.of >= 1
       /\ Port(e).is = "list" /\ Len(Port(e).of) = 2
       /\ Port(e).of[1] < Port(e).of[2]
       /\ Port(e).of[2] - Port(e).of[1] + 1 = e.replicas.of

Replicas(e) == IF e.replicas.is = "int" THEN e.replicas.of ELSE 1

(* _get_hosts_and_ports: the name and port of an entry's k-th host.        *)
HostName(e, k) == IF e.replicas.is = "int" THEN Append(e.name, k - 1) ELSE e.name
HostPort(e, k) == Port(e).of[1] + k - 1

-----------------------------------------------------------------------------
LoadInventory ==
  /\ at = "load"
  /\ at' = IF ModelSimnosInventory THEN "entry" ELSE "failed"
  /\ UNCHANGED <<inventory, entry, made, hosts, allocated_ports, base_prompt>>

(* An entry is merged and checked.  A null port passes the check and fails *)
(* the assertion that it is an integer.                                    *)
CheckEntry ==
  /\ at = "entry" /\ entry \in DOMAIN Entries
  /\ at' = IF CheckPortsAndReplicas(Entries[entry]) /\ Given(Port(Entries[entry]))
           THEN "allocate" ELSE "failed"
  /\ made' = 0
  /\ UNCHANGED <<inventory, entry, hosts, allocated_ports, base_prompt>>

(* Mutant: whether a port is taken is looked at for an entry's first host. *)
AllocateAfterFirst ==
  /\ at = "allocate" /\ made < Replicas(Entries[entry])
  /\ LET port == HostPort(Entries[entry], made + 1)
     IN IF port \in 1 .. MaxPort /\ (made = 0 => port \notin allocated_ports)
        THEN at' = "host" /\ allocated_ports' = allocated_ports \cup {port}
        ELSE at' = "failed" /\ UNCHANGED allocated_ports
  /\ UNCHANGED <<inventory, entry, made, hosts, base_prompt>>

AllocatePort ==
  /\ at = "allocate" /\ made < Replicas(Entries[entry])
  /\ LET port == HostPort(Entries[entry], made + 1)
     IN IF port \in 1 .. MaxPort /\ port \notin allocated_ports
        THEN at' = "host" /\ allocated_ports' = allocated_ports \cup {port}
        ELSE at' = "failed" /\ UNCHANGED allocated_ports
  /\ UNCHANGED <<inventory, entry, made, hosts, base_prompt>>

(* Host.__init__ puts the host's name as base prompt where there is none   *)
(* yet: into the params that all replicas of the entry share.  It needs a  *)
(* shell configuration and a platform that is supported.                   *)
SetDefault(e, name) ==
  CASE Shell(e) = "named"                             -> [is |-> Configured, of |-> <<>>]
    [] Shell(e) = "plain" /\ base_prompt[entry].is = Unset -> [is |-> "name", of |-> name]
    [] OTHER                                          -> base_prompt[entry]

CreateHost ==
  /\ at = "host"
  /\ LET e    == Entries[entry]
         name == HostName(e, made + 1)
         port == HostPort(e, made + 1)
         new  == [port |-> port, entry |-> entry]
     IN IF Shell(e) \in {"plain", "named"} /\ Platform(e) \in Known \cup {"absent", "null"}
        THEN /\ at' = "allocate" /\ made' = made + 1
             /\ hosts' = [n \in DOMAIN hosts \cup {name} |-> IF n = name THEN new ELSE hosts[n]]
             /\ base_prompt' = [base_prompt EXCEPT ![entry] = SetDefault(e, name)]
        ELSE /\ at' = "failed"
             /\ UNCHANGED <<made, hosts, base_prompt>>
  /\ UNCHANGED <<inventory, entry, allocated_ports>>

NextEntry ==
  /\ at = "allocate" /\ made = Replicas(Entries[entry])
  /\ at' = "entry" /\ entry' = entry + 1
  /\ UNCHANGED <<inventory, made, hosts, allocated_ports, base_prompt>>

Finish ==
  /\ at = "entry" /\ entry \notin DOMAIN Entries
  /\ at' = "done"
  /\ UNCHANGED <<inventory, entry, made, hosts, allocated_ports, base_prompt>>

Construct == \/ LoadInventory \/ CheckEntry \/ AllocatePort \/ CreateHost
             \/ NextEntry \/ Finish

ConstructorSpec == ConstructorInit /\ [][Construct]_inventoryVars

-----------------------------------------------------------------------------
(* No two hosts listen on the same port, and every port is allocated that  *)
(* a host has.                                                             *)
PortsOwned ==
  \A m, n \in DOMAIN hosts :
    /\ hosts[n].port \in allocated_ports
    /\ hosts[m].port = hosts[n].port => m = n

(* What an inventory must be for a fleet to come out of it, as a whole and *)
(* not step by step.  One host per entry, on a port, or as many as         *)
(* the range of ports has, which are two at least; a null for replicas     *)
(* excludes a port of the entry's own; ports are distinct; a platform is   *)
(* supported and a shell has a configuration.                              *)
Ports(e) == IF Port(e).is = "list" THEN Port(e).of[1] .. Port(e).of[2]
                                   ELSE {Port(e).of[1]}

Fits(e) ==
  \/ e.replicas.is = "absent" /\ Port(e).is = "int"
  \/ e.replicas.is = "null" /\ e.port.is = "absent" /\ Port(e).is = "int"
  \/ /\ e.replicas.is = "int" /\ e.replicas.of >= 2
     /\ Port(e).is = "list" /\ Len(Port(e).of) = 2
     /\ Cardinality(Ports(e)) = e.replicas.of

Sensible ==
  /\ InRange(Default.port)
  /\ \A i \in DOMAIN Entries :
       /\ InRange(Entries[i].port) /\ Fits(Entries[i])
       /\ Platform(Entries[i]) \in Known \cup {"absent", "null"}
       /\ Shell(Entries[i]) \in {"plain", "named"}
  /\ \A i, j \in DOMAIN Entries :
       i # j => Ports(Entries[i]) \cap Ports(Entries[j]) = {}

Declared == {d \in (DOMAIN Entries) \X (1 .. MaxPort) : d[2] <= Replicas(Entries[d[1]])}

(* The constructor returns for a sensible inventory and raises for any     *)
(* other.  Then the hosts are those the inventory declares, each with the  *)
(* next port of its entry; of two with the same name, the last.            *)
InventoryDecides ==
  /\ at = "failed" => ~Sensible
  /\ at = "done" =>
       /\ Sensible
       /\ DOMAIN hosts = {HostName(Entries[d[1]], d[2]) : d \in Declared}
       /\ \A d \in Declared :
            LET name == HostName(Entries[d[1]], d[2])
            IN hosts[name].port = HostPort(Entries[d[1]], d[2])
               \/ \E later \in Declared : /\ HostName(Entries[later[1]], later[2]) = name
                                          /\ later[1] > d[1]
       /\ allocated_ports = UNION {Ports(Entries[i]) : i \in DOMAIN Entries}
=============================================================================
