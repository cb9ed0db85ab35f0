--------------------------- MODULE Hosting_proofs ---------------------------
(***************************************************************************)
(* Theorems about module Hosting.                                          *)
(***************************************************************************)
EXTENDS Hosting, FiniteSetTheorems, TLAPS

-----------------------------------------------------------------------------
(* The constructor.                                                        *)

(* Between its allocation and its host a port belongs to nobody else.      *)
Pending ==
  /\ at \in {"allocate", "host"} => entry \in DOMAIN Entries
  /\ at = "host" =>
       /\ HostPort(Entries[entry], made + 1) \in allocated_ports
       /\ \A name \in DOMAIN hosts : hosts[name].port # HostPort(Entries[entry], made + 1)

ConstructorInv == ConstructorTypeOK /\ Pending /\ PortsOwned

BasePromptValue == [is : {Unset, Configured}, of : {<<>>}] \cup [is : {"name"}, of : Name]

LEMMA ConstructorStarts == ConstructorInit => ConstructorInv
  <1> SUFFICES ASSUME ConstructorInit PROVE ConstructorInv
    OBVIOUS
  <1> USE DEF ConstructorInit
  <1>1. inventory \in Inventory
    BY InventoriesAssumption
  <1>2. DOMAIN hosts = {}
    OBVIOUS
  <1>3. \A i \in DOMAIN base_prompt : base_prompt[i] \in BasePromptValue
    BY DEF BasePromptValue
  <1>4. ConstructorTypeOK
    BY <1>1, <1>2, <1>3 DEF ConstructorTypeOK, BasePromptValue
  <1>5. Pending
    BY DEF Pending
  <1>6. PortsOwned
    BY <1>2 DEF PortsOwned
  <1> QED BY <1>4, <1>5, <1>6 DEF ConstructorInv

(* The steps that make neither a port nor a host.                          *)
LEMMA ConstructorMovesOn ==
  ASSUME ConstructorInv, LoadInventory \/ CheckEntry \/ NextEntry \/ Finish
  PROVE  ConstructorInv'
  <1> USE DEF ConstructorInv, LoadInventory, CheckEntry, NextEntry, Finish
  <1>1. UNCHANGED <<inventory, hosts, allocated_ports, base_prompt>>
    OBVIOUS
  <1>2. /\ at' \in {"entry", "allocate", "done", "failed"}
        /\ at' = "allocate" => entry' \in DOMAIN Entries
        /\ entry' \in Nat /\ made' \in Nat
    BY DEF ConstructorTypeOK
  <1>3. ConstructorTypeOK'
    BY <1>1, <1>2 DEF ConstructorTypeOK, Entries
  <1>4. Pending'
    BY <1>1, <1>2 DEF Pending, Entries
  <1>5. PortsOwned'
    BY <1>1 DEF PortsOwned
  <1> QED BY <1>3, <1>4, <1>5

LEMMA AllocationOwned ==
  ASSUME ConstructorInv, AllocatePort
  PROVE  ConstructorInv'
  <1> USE DEF ConstructorInv
  <1> DEFINE port == HostPort(Entries[entry], made + 1)
  <1>1. UNCHANGED <<inventory, entry, made, hosts, base_prompt>>
    BY DEF AllocatePort
  <1>2. HostPort(Entries[entry], made + 1)' = port
    BY <1>1 DEF HostPort, Port, Entries, Default
  <1>3. \/ at' = "failed" /\ allocated_ports' = allocated_ports
        \/ /\ at' = "host" /\ port \in 1 .. MaxPort /\ port \notin allocated_ports
           /\ allocated_ports' = allocated_ports \cup {port}
    BY DEF AllocatePort
  <1>4. ConstructorTypeOK'
    BY <1>1, <1>3 DEF ConstructorTypeOK, Entries
  <1>5. entry \in DOMAIN Entries
    BY DEF AllocatePort, Pending
  <1>6. Pending'
    <2>1. CASE at' = "failed"
      BY <2>1 DEF Pending
    <2>2. CASE at' = "host"
      <3>1. \A name \in DOMAIN hosts : hosts[name].port # port
        BY <1>3, <2>2 DEF PortsOwned
      <3> QED BY <1>1, <1>2, <1>3, <1>5, <2>2, <3>1 DEF Pending, Entries
    <2> QED BY <1>3, <2>1, <2>2
  <1>7. PortsOwned'
    BY <1>1, <1>3 DEF PortsOwned
  <1> QED BY <1>4, <1>6, <1>7

LEMMA HostOwnsPort ==
  ASSUME ConstructorInv, CreateHost
  PROVE  ConstructorInv'
  <1> USE DEF ConstructorInv
  <1> DEFINE own  == Entries[entry]
             name == HostName(own, made + 1)
             port == HostPort(own, made + 1)
             new  == [port |-> port, entry |-> entry]
  <1>1. UNCHANGED <<inventory, entry, allocated_ports>>
    BY DEF CreateHost
  <1>2. entry \in DOMAIN Entries /\ port \in allocated_ports
        /\ \A n \in DOMAIN hosts : hosts[n].port # port
    BY DEF CreateHost, Pending
  <1>3. CASE at' = "failed" /\ UNCHANGED <<made, hosts, base_prompt>>
    <2>1. ConstructorTypeOK'
      BY <1>1, <1>3 DEF ConstructorTypeOK, Entries
    <2>2. Pending'
      BY <1>3 DEF Pending
    <2>3. PortsOwned'
      BY <1>1, <1>3 DEF PortsOwned
    <2> QED BY <2>1, <2>2, <2>3
  <1>4. CASE /\ at' = "allocate" /\ made' = made + 1
             /\ hosts' = [n \in DOMAIN hosts \cup {name} |-> IF n = name THEN new ELSE hosts[n]]
             /\ base_prompt' = [base_prompt EXCEPT ![entry] = SetDefault(own, name)]
    <2>1. own \in Entry
      <3>1. Entries \in Seq(Entry)
        BY DEF ConstructorTypeOK, Inventory, Entries
      <3> QED BY <1>2, <3>1
    <2>2. made \in Nat /\ made + 1 - 1 = made
      BY DEF ConstructorTypeOK
    <2>3. name \in Name
      <3>1. own.name \in Seq(Word \cup Nat)
        BY <2>1 DEF Entry, Name
      <3>2. Append(own.name, made + 1 - 1) \in Seq(Word \cup Nat)
        BY <2>2, <3>1
      <3>3. name = Append(own.name, made + 1 - 1) \/ name = own.name
        BY <2>2 DEF HostName
      <3> HIDE DEF name, own
      <3> QED BY <3>1, <3>2, <3>3 DEF Name
    <2>4. new \in HostRecord
      BY <1>2 DEF HostRecord, ConstructorTypeOK
    <2>5. SetDefault(own, name) \in BasePromptValue
      <3>1. base_prompt[entry] \in BasePromptValue
        BY <1>2 DEF ConstructorTypeOK, BasePromptValue
      <3>2. [is |-> Configured, of |-> <<>>] \in BasePromptValue
        BY DEF BasePromptValue
      <3>3. [is |-> "name", of |-> name] \in BasePromptValue
        BY <2>3 DEF BasePromptValue
      <3> QED BY <3>1, <3>2, <3>3 DEF SetDefault
    <2>6. DOMAIN hosts' = DOMAIN hosts \cup {name}
          /\ \A n \in DOMAIN hosts' : hosts'[n] = IF n = name THEN new ELSE hosts[n]
      BY <1>4
    <2>7. ConstructorTypeOK'
      <3>1. inventory' \in Inventory /\ at' \in {"allocate"} /\ entry' \in Nat /\ made' \in Nat
        BY <1>1, <1>4, <2>2 DEF ConstructorTypeOK
      <3>2. DOMAIN hosts' \subseteq Name /\ \A n \in DOMAIN hosts' : hosts'[n] \in HostRecord
        BY <2>3, <2>4, <2>6 DEF ConstructorTypeOK
      <3>3. DOMAIN base_prompt' = DOMAIN Entries'
            /\ \A i \in DOMAIN base_prompt' : base_prompt'[i] \in BasePromptValue
        BY <1>1, <1>2, <1>4, <2>5 DEF ConstructorTypeOK, Entries, BasePromptValue
      <3> QED BY <1>1, <3>1, <3>2, <3>3 DEF ConstructorTypeOK, BasePromptValue
    <2>8. Pending'
      BY <1>1, <1>2, <1>4 DEF Pending, Entries
    <2>9. PortsOwned'
      <3>1. new.port = port
        OBVIOUS
      <3> QED BY <1>1, <1>2, <2>6, <3>1 DEF PortsOwned
    <2> QED BY <2>7, <2>8, <2>9
  <1> QED BY <1>3, <1>4 DEF CreateHost

LEMMA ConstructorKeeps ==
  ASSUME ConstructorInv, Construct
  PROVE  ConstructorInv'
  BY ConstructorMovesOn, AllocationOwned, HostOwnsPort DEF Construct

-----------------------------------------------------------------------------
(* What the constructor has got done.                                      *)

(* The hosts made, as entry and number, and the ports allocated for them   *)
(* and for the host about to be made.                                      *)
Settled == {d \in (DOMAIN Entries) \X (1 .. MaxPort) :
              \/ d[1] < entry /\ d[2] <= Replicas(Entries[d[1]])
              \/ d[1] = entry /\ at \in {"allocate", "host"} /\ d[2] <= made}
Reached == IF at = "host" THEN Settled \cup {<<entry, made + 1>>} ELSE Settled

NameOf(d) == HostName(Entries[d[1]], d[2])
PortOf(d) == HostPort(Entries[d[1]], d[2])

GoodHost(e) == /\ Platform(e) \in Known \cup {"absent", "null"}
               /\ Shell(e) \in {"plain", "named"}

(* The entries passed have been checked, and those that have hosts can     *)
(* have them.                                                              *)
EntriesPassed ==
  /\ ModelSimnosInventory
  /\ entry \in 1 .. Len(Entries) + 1
  /\ \A i \in DOMAIN Entries : i < entry => Fits(Entries[i]) /\ GoodHost(Entries[i])
  /\ at \in {"allocate", "host"} =>
       /\ entry <= Len(Entries) /\ Fits(Entries[entry])
       /\ made > 0 => GoodHost(Entries[entry])
       /\ made <= Replicas(Entries[entry])
  /\ at = "host" => made < Replicas(Entries[entry])
  /\ at = "done" => entry = Len(Entries) + 1

(* Each of them has its port for itself, and its name unless a later entry *)
(* took it.                                                                *)
PortsTaken ==
  /\ allocated_ports = {PortOf(d) : d \in Reached}
  /\ \A c, d \in Reached : PortOf(c) = PortOf(d) => c = d

NamesTaken ==
  /\ DOMAIN hosts = {NameOf(d) : d \in Settled}
  /\ \A d \in Settled :
       \/ hosts[NameOf(d)].port = PortOf(d)
       \/ \E later \in Settled : NameOf(later) = NameOf(d) /\ later[1] > d[1]

Progress ==
  /\ at = "load" => entry = 1 /\ DOMAIN hosts = {} /\ allocated_ports = {}
  /\ at \notin {"load", "failed"} => EntriesPassed /\ PortsTaken /\ NamesTaken
  /\ at = "failed" => ~Sensible

LEMMA EntryFields ==
  ASSUME inventory \in Inventory
  PROVE  /\ Default \in Section /\ Entries \in Seq(Entry)
         /\ DOMAIN Entries = 1 .. Len(Entries) /\ Len(Entries) \in Nat
         /\ \A i \in DOMAIN Entries : Entries[i] \in Entry
  BY DEF Inventory, Entries, Default

LEMMA PortFields ==
  ASSUME inventory \in Inventory, NEW e \in Entry
  PROVE  /\ e.port \in PortValue /\ Port(e) \in PortValue /\ e.replicas \in ReplicaValue
         /\ Port(e).is = "int" => 1 \in DOMAIN Port(e).of /\ Port(e).of[1] \in Nat
         /\ Port(e).is = "list" => Port(e).of \in Seq(Nat)
         /\ Replicas(e) \in Nat
  <1>1. Default.port \in PortValue
    BY EntryFields DEF Section
  <1>2. e.port \in PortValue /\ e.replicas \in ReplicaValue
    BY DEF Entry
  <1>3. Port(e) \in PortValue
    BY <1>1, <1>2 DEF Port
  <1>4. Replicas(e) \in Nat
    BY <1>2 DEF Replicas, ReplicaValue, MaxReplicas
  <1>5. Port(e).is = "int" => Port(e).of \in [1 .. 1 -> Nat]
    BY <1>3 DEF PortValue
  <1>6. Port(e).is = "list" => Port(e).of \in Seq(Nat)
    BY <1>3 DEF PortValue
  <1> QED BY <1>2, <1>3, <1>4, <1>5, <1>6

(* A range has as many ports as its ends say.                              *)
LEMMA RangeSize ==
  ASSUME NEW first \in Nat, NEW last \in Nat
  PROVE  Cardinality(first .. last) = IF first > last THEN 0 ELSE last - first + 1
  <1>1. first \in Int /\ last \in Int
    OBVIOUS
  <1> QED BY ONLY <1>1, FS_Interval

(* The steps that refuse an entry refuse those that do not fit.            *)
LEMMA FitsExactly ==
  ASSUME inventory \in Inventory, NEW e \in Entry
  PROVE  /\ Fits(e) => CheckPortValue(e)
         /\ CheckPortValue(e) => (Fits(e) <=> CheckPortsAndReplicas(e) /\ Given(Port(e)))
  <1>1. e.replicas.is \in {"absent", "null", "int"} /\ e.replicas.of \in Nat
    BY PortFields DEF ReplicaValue, MaxReplicas
  <1>2. /\ e.port.is \in {"absent", "null", "int", "list"}
        /\ Port(e).is \in {"absent", "null", "int", "list"}
    BY PortFields DEF PortValue
  <1>3. e.port.is # "absent" => Port(e) = e.port
    BY DEF Port
  <1>4. CASE e.replicas.is # "int"
    BY <1>1, <1>2, <1>3, <1>4 DEF Fits, CheckPortValue, CheckPortsAndReplicas, Given
  <1>5. CASE e.replicas.is = "int"
    <2> DEFINE first == Port(e).of[1]
               last  == Port(e).of[2]
    <2>1. Fits(e) <=> /\ e.replicas.of >= 2
                      /\ Port(e).is = "list" /\ Len(Port(e).of) = 2
                      /\ Cardinality(Ports(e)) = e.replicas.of
      BY <1>5 DEF Fits
    <2>2. CheckPortsAndReplicas(e) <=>
            /\ e.replicas.of >= 1
            /\ Port(e).is = "list" /\ Len(Port(e).of) = 2
            /\ first < last /\ last - first + 1 = e.replicas.of
      BY <1>5 DEF CheckPortsAndReplicas
    <2>3. ASSUME Port(e).is = "list", Len(Port(e).of) = 2
          PROVE  /\ first \in Nat /\ last \in Nat /\ Given(Port(e))
                 /\ Cardinality(Ports(e)) = IF first > last THEN 0 ELSE last - first + 1
      <3>1. Port(e).of \in Seq(Nat)
        BY <2>3, PortFields
      <3>2. first \in Nat /\ last \in Nat /\ Port(e).of # <<>>
        BY <2>3, <3>1
      <3>3. Ports(e) = first .. last
        BY <2>3 DEF Ports
      <3> HIDE DEF first, last
      <3>4. Cardinality(first .. last) = IF first > last THEN 0 ELSE last - first + 1
        BY <3>2, RangeSize
      <3> QED BY <2>3, <3>2, <3>3, <3>4 DEF Given
    <2>4. Fits(e) <=> CheckPortsAndReplicas(e) /\ Given(Port(e))
      <3> HIDE DEF first, last
      <3> QED BY <1>1, <2>1, <2>2, <2>3
    <2>5. Fits(e) => CheckPortValue(e)
      BY <1>2, <1>3, <1>5, <2>1 DEF CheckPortValue, Given
    <2> QED BY <2>4, <2>5
  <1> QED BY <1>4, <1>5

(* An entry that fits has ports in range, one for each of its hosts.       *)
LEMMA FitFacts ==
  ASSUME inventory \in Inventory, NEW e \in Entry,
         Fits(e), InRange(e.port), InRange(Default.port)
  PROVE  /\ Replicas(e) \in 1 .. MaxPort
         /\ \A k \in 1 .. Replicas(e) : HostPort(e, k) \in 1 .. MaxPort
         /\ Ports(e) = {HostPort(e, k) : k \in 1 .. Replicas(e)}
         /\ \A j, k \in 1 .. Replicas(e) : HostPort(e, j) = HostPort(e, k) => j = k
         /\ Replicas(e) # 1 => e.replicas.is = "int"
  <1> DEFINE first == Port(e).of[1]
             last  == Port(e).of[2]
  <1>1. InRange(Port(e))
    BY DEF Port
  <1>2. MaxPort \in Nat
    BY MaxPortAssumption
  <1>3. CASE e.replicas.is # "int"
    <2>1. Port(e).is = "int" /\ Replicas(e) = 1
      BY <1>3 DEF Fits, Replicas
    <2>2. first \in 1 .. MaxPort /\ first \in Nat
      BY <1>1, <2>1, PortFields DEF InRange
    <2>3. Ports(e) = {first}
      BY <2>1 DEF Ports
    <2>4. \A k \in 1 .. 1 : k = 1 /\ HostPort(e, k) = first
      <3> HIDE DEF first
      <3>1. \A k : HostPort(e, k) = first + k - 1
        BY DEF HostPort, first
      <3> QED BY <2>2, <3>1
    <2> HIDE DEF first
    <2>5. \A j, k \in 1 .. 1 : j = k
      OBVIOUS
    <2> QED BY <1>2, <2>1, <2>2, <2>3, <2>4, <2>5
  <1>4. CASE e.replicas.is = "int"
    <2>1. /\ e.replicas.of >= 2 /\ Port(e).is = "list" /\ Len(Port(e).of) = 2
          /\ Cardinality(Ports(e)) = e.replicas.of /\ Replicas(e) = e.replicas.of
      BY <1>4 DEF Fits, Replicas
    <2>2. Port(e).of \in Seq(Nat) /\ Replicas(e) \in Nat
      BY <2>1, PortFields
    <2>3. 1 \in DOMAIN Port(e).of /\ 2 \in DOMAIN Port(e).of
      BY <2>1, <2>2
    <2>4. first \in 1 .. MaxPort /\ last \in 1 .. MaxPort
      BY <1>1, <2>3 DEF InRange
    <2>5. Ports(e) = first .. last
      BY <2>1 DEF Ports
    <2>6. \A k : HostPort(e, k) = first + k - 1
      BY DEF HostPort
    <2> HIDE DEF first, last
    <2>7. Cardinality(Ports(e)) = IF first > last THEN 0 ELSE last - first + 1
      <3>1. first \in Nat /\ last \in Nat
        BY <1>2, <2>4
      <3>2. Cardinality(first .. last) = IF first > last THEN 0 ELSE last - first + 1
        BY <3>1, RangeSize
      <3> QED BY <2>5, <3>2
    <2>8. first < last /\ Replicas(e) = last - first + 1
      BY <1>2, <2>1, <2>2, <2>4, <2>7
    <2>9. \A k \in 1 .. Replicas(e) : HostPort(e, k) \in first .. last
      BY <1>2, <2>4, <2>6, <2>8
    <2>10. \A p \in first .. last : p - first + 1 \in 1 .. Replicas(e)
                                    /\ p = HostPort(e, p - first + 1)
      BY <1>2, <2>4, <2>6, <2>8
    <2>11. Ports(e) = {HostPort(e, k) : k \in 1 .. Replicas(e)}
      BY <2>5, <2>9, <2>10
    <2>12. \A j, k \in 1 .. Replicas(e) : HostPort(e, j) = HostPort(e, k) => j = k
      BY <1>2, <2>4, <2>6, <2>8
    <2> QED BY <1>2, <1>4, <2>4, <2>8, <2>9, <2>11, <2>12
  <1> QED BY <1>3, <1>4

(* What the constructor never changes.                                     *)
LEMMA Fixed ==
  ASSUME inventory' = inventory
  PROVE  /\ Entries' = Entries /\ Default' = Default
         /\ ModelSimnosInventory' <=> ModelSimnosInventory
         /\ Sensible' <=> Sensible
         /\ \A e : /\ Fits(e)' <=> Fits(e)
                   /\ GoodHost(e)' <=> GoodHost(e)
                   /\ Replicas(e)' = Replicas(e)
         /\ \A d : NameOf(d)' = NameOf(d) /\ PortOf(d)' = PortOf(d)
  <1>1. Entries' = Entries /\ Default' = Default
    BY DEF Entries, Default
  <1>2. \A e : Port(e)' = Port(e) /\ Platform(e)' = Platform(e) /\ Shell(e)' = Shell(e)
    BY <1>1 DEF Port, Platform, Shell
  <1>3. \A e : Ports(e)' = Ports(e)
    BY <1>2 DEF Ports
  <1>4. \A e : Fits(e)' <=> Fits(e)
    BY <1>2, <1>3 DEF Fits
  <1>5. \A e : GoodHost(e)' <=> GoodHost(e)
    BY <1>2 DEF GoodHost
  <1>6. Sensible' <=> Sensible
    BY <1>1, <1>2, <1>3, <1>4 DEF Sensible
  <1>7. ModelSimnosInventory' <=> ModelSimnosInventory
    BY <1>1 DEF ModelSimnosInventory
  <1>8. \A e, k : HostPort(e, k)' = HostPort(e, k) /\ HostName(e, k)' = HostName(e, k)
    BY <1>2 DEF HostPort, HostName
  <1>9. \A d : NameOf(d)' = NameOf(d) /\ PortOf(d)' = PortOf(d)
    BY <1>1, <1>8 DEF NameOf, PortOf
  <1>10. \A e : Replicas(e)' = Replicas(e)
    BY DEF Replicas
  <1> QED BY <1>1, <1>4, <1>5, <1>6, <1>7, <1>9, <1>10

LEMMA SettledPairs ==
  ASSUME NEW d
  PROVE  /\ d \in Settled <=>
              \E i \in DOMAIN Entries, k \in 1 .. MaxPort :
                /\ d = <<i, k>>
                /\ \/ i < entry /\ k <= Replicas(Entries[i])
                   \/ i = entry /\ at \in {"allocate", "host"} /\ k <= made
  BY DEF Settled

(* The passed entries' ports and replicas are known.                       *)
LEMMA PassedFacts ==
  ASSUME inventory \in Inventory, ModelSimnosInventory,
         NEW i \in DOMAIN Entries, Fits(Entries[i])
  PROVE  /\ Entries[i] \in Entry
         /\ Replicas(Entries[i]) \in 1 .. MaxPort
         /\ \A k \in 1 .. Replicas(Entries[i]) : HostPort(Entries[i], k) \in 1 .. MaxPort
         /\ Ports(Entries[i]) = {HostPort(Entries[i], k) : k \in 1 .. Replicas(Entries[i])}
         /\ \A j, k \in 1 .. Replicas(Entries[i]) :
              HostPort(Entries[i], j) = HostPort(Entries[i], k) => j = k
         /\ Replicas(Entries[i]) # 1 => Entries[i].replicas.is = "int"
  <1>1. Entries[i] \in Entry
    BY EntryFields
  <1>2. InRange(Entries[i].port) /\ InRange(Default.port)
    BY DEF ModelSimnosInventory, ValidSection
  <1> QED BY <1>1, <1>2, FitFacts

(* A step that moves on keeps what is settled.                             *)
LEMMA SettledStays ==
  ASSUME inventory' = inventory, UNCHANGED <<hosts, allocated_ports>>,
         PortsTaken, NamesTaken, Settled' = Settled, Reached' = Reached
  PROVE  PortsTaken' /\ NamesTaken'
  <1>1. \A d : NameOf(d)' = NameOf(d) /\ PortOf(d)' = PortOf(d)
    BY Fixed
  <1>2. PortsTaken'
    BY <1>1 DEF PortsTaken
  <1>3. NamesTaken'
    BY <1>1 DEF NamesTaken
  <1> QED BY <1>2, <1>3

LEMMA ProgressStarts == ConstructorInit => Progress
  BY DEF ConstructorInit, Progress

LEMMA LoadProgress ==
  ASSUME ConstructorTypeOK, Progress, LoadInventory
  PROVE  Progress'
  <1>1. /\ at = "load" /\ entry = 1 /\ DOMAIN hosts = {} /\ allocated_ports = {}
        /\ UNCHANGED <<inventory, entry, made, hosts, allocated_ports>>
        /\ at' = IF ModelSimnosInventory THEN "entry" ELSE "failed"
    BY DEF LoadInventory, Progress
  <1>2. DOMAIN Entries = 1 .. Len(Entries) /\ Len(Entries) \in Nat
        /\ \A i \in DOMAIN Entries : Entries[i] \in Entry
    BY EntryFields DEF ConstructorTypeOK
  <1>3. CASE ModelSimnosInventory
    <2>1. at' = "entry" /\ entry' = 1 /\ Entries' = Entries /\ ModelSimnosInventory'
      BY <1>1, <1>3, Fixed
    <2>2. EntriesPassed'
      BY <1>2, <2>1 DEF EntriesPassed
    <2>3. Settled' = {} /\ Reached' = {}
      BY <1>2, <2>1 DEF Settled, Reached
    <2>4. DOMAIN hosts' = {} /\ allocated_ports' = {}
      BY <1>1
    <2>5. PortsTaken' /\ NamesTaken'
      BY <2>3, <2>4 DEF PortsTaken, NamesTaken
    <2> QED BY <2>1, <2>2, <2>5 DEF Progress
  <1>4. CASE ~ModelSimnosInventory
    <2>1. ~Sensible
      <3>1. \/ ~InRange(Default.port)
            \/ \E i \in DOMAIN Entries :
                 ~InRange(Entries[i].port) \/ ~CheckPortValue(Entries[i])
        BY <1>4 DEF ModelSimnosInventory, ValidSection
      <3> QED BY <1>2, <3>1, FitsExactly DEF Sensible, ConstructorTypeOK
    <2> QED BY <1>1, <1>4, <2>1, Fixed DEF Progress
  <1> QED BY <1>3, <1>4

LEMMA CheckProgress ==
  ASSUME ConstructorTypeOK, Progress, CheckEntry
  PROVE  Progress'
  <1>1. /\ at = "entry" /\ entry \in DOMAIN Entries /\ made' = 0
        /\ UNCHANGED <<inventory, entry, hosts, allocated_ports>>
        /\ at' = IF CheckPortsAndReplicas(Entries[entry]) /\ Given(Port(Entries[entry]))
                 THEN "allocate" ELSE "failed"
    BY DEF CheckEntry
  <1>2. EntriesPassed /\ PortsTaken /\ NamesTaken
    BY <1>1 DEF Progress
  <1>3. /\ DOMAIN Entries = 1 .. Len(Entries) /\ Len(Entries) \in Nat
        /\ Entries[entry] \in Entry /\ inventory \in Inventory
    BY <1>1, EntryFields DEF ConstructorTypeOK
  <1>4. at' = IF Fits(Entries[entry]) THEN "allocate" ELSE "failed"
    <2>1. CheckPortValue(Entries[entry])
      BY <1>1, <1>2 DEF EntriesPassed, ModelSimnosInventory
    <2> QED BY <1>1, <1>3, <2>1, FitsExactly
  <1>5. CASE Fits(Entries[entry])
    <2>1. at' = "allocate" /\ Entries' = Entries
      BY <1>1, <1>4, <1>5, Fixed
    <2>2. EntriesPassed'
      <3>1. Replicas(Entries[entry]) \in Nat
        BY <1>3, PortFields
      <3> QED BY <1>1, <1>2, <1>3, <1>5, <2>1, <3>1, Fixed DEF EntriesPassed
    <2>3. Settled' = Settled
      <3>1. \A e : Replicas(e)' = Replicas(e)
        BY <1>1, Fixed
      <3>2. \A k \in 1 .. MaxPort : ~(k <= 0)
        OBVIOUS
      <3> QED BY <1>1, <2>1, <3>1, <3>2 DEF Settled
    <2>4. Reached' = Reached
      BY <1>1, <2>1, <2>3 DEF Reached
    <2> QED BY <1>1, <1>2, <2>1, <2>2, <2>3, <2>4, SettledStays DEF Progress
  <1>6. CASE ~Fits(Entries[entry])
    BY <1>1, <1>4, <1>6, Fixed DEF Progress, Sensible
  <1> QED BY <1>5, <1>6

LEMMA NextProgress ==
  ASSUME ConstructorTypeOK, Progress, NextEntry
  PROVE  Progress'
  <1>1. /\ at = "allocate" /\ at' = "entry" /\ entry' = entry + 1
        /\ made = Replicas(Entries[entry])
        /\ UNCHANGED <<inventory, made, hosts, allocated_ports>>
    BY DEF NextEntry
  <1>2. EntriesPassed /\ PortsTaken /\ NamesTaken
    BY <1>1 DEF Progress
  <1>3. DOMAIN Entries = 1 .. Len(Entries) /\ Len(Entries) \in Nat /\ inventory \in Inventory
    BY EntryFields DEF ConstructorTypeOK
  <1>4. entry \in DOMAIN Entries /\ entry \in Nat /\ Fits(Entries[entry])
    BY <1>1, <1>2, <1>3 DEF EntriesPassed
  <1>5. Replicas(Entries[entry]) \in 1 .. MaxPort
    BY <1>2, <1>3, <1>4, PassedFacts DEF EntriesPassed
  <1>6. made > 0
    BY <1>1, <1>5
  <1>7. GoodHost(Entries[entry])
    BY <1>1, <1>2, <1>6 DEF EntriesPassed
  <1>8. Entries' = Entries /\ \A e : Replicas(e)' = Replicas(e)
    BY <1>1, Fixed
  <1>9. EntriesPassed'
    <2>1. \A i \in DOMAIN Entries : i < entry + 1 => i < entry \/ i = entry
      BY <1>3, <1>4
    <2>2. \A i \in DOMAIN Entries : i < entry + 1 => Fits(Entries[i]) /\ GoodHost(Entries[i])
      BY <1>2, <1>4, <1>7, <2>1 DEF EntriesPassed
    <2>3. entry + 1 \in 1 .. Len(Entries) + 1
      BY <1>3, <1>4
    <2> QED BY <1>1, <1>2, <1>8, <2>2, <2>3, Fixed DEF EntriesPassed
  <1>10. Settled' = Settled
    <2>1. \A i \in DOMAIN Entries : i < entry + 1 <=> i < entry \/ i = entry
      BY <1>3, <1>4
    <2> QED BY <1>1, <1>8, <2>1 DEF Settled
  <1>11. Reached' = Reached
    BY <1>1, <1>10 DEF Reached
  <1> QED BY <1>1, <1>2, <1>9, <1>10, <1>11, SettledStays DEF Progress

LEMMA FinishProgress ==
  ASSUME ConstructorTypeOK, Progress, Finish
  PROVE  Progress'
  <1>1. /\ at = "entry" /\ entry \notin DOMAIN Entries /\ at' = "done"
        /\ UNCHANGED <<inventory, entry, made, hosts, allocated_ports>>
    BY DEF Finish
  <1>2. EntriesPassed /\ PortsTaken /\ NamesTaken
    BY <1>1 DEF Progress
  <1>3. DOMAIN Entries = 1 .. Len(Entries) /\ Len(Entries) \in Nat
    BY EntryFields DEF ConstructorTypeOK
  <1>4. entry = Len(Entries) + 1
    BY <1>1, <1>2, <1>3 DEF EntriesPassed
  <1>5. Entries' = Entries /\ \A e : Replicas(e)' = Replicas(e)
    BY <1>1, Fixed
  <1>6. EntriesPassed'
    BY <1>1, <1>2, <1>4, <1>5, Fixed DEF EntriesPassed
  <1>7. Settled' = Settled
    BY <1>1, <1>5 DEF Settled
  <1>8. Reached' = Reached
    BY <1>1, <1>7 DEF Reached
  <1> QED BY <1>1, <1>2, <1>6, <1>7, <1>8, SettledStays DEF Progress

LEMMA AllocateProgress ==
  ASSUME ConstructorTypeOK, Progress, AllocatePort
  PROVE  Progress'
  <1> DEFINE own  == Entries[entry]
             port == HostPort(own, made + 1)
             next == <<entry, made + 1>>
  <1>1. /\ at = "allocate" /\ made < Replicas(own)
        /\ UNCHANGED <<inventory, entry, made, hosts>>
        /\ \/ /\ port \in 1 .. MaxPort /\ port \notin allocated_ports
              /\ at' = "host" /\ allocated_ports' = allocated_ports \cup {port}
           \/ /\ ~(port \in 1 .. MaxPort /\ port \notin allocated_ports)
              /\ at' = "failed"
    BY DEF AllocatePort
  <1>2. EntriesPassed /\ PortsTaken /\ NamesTaken
    BY <1>1 DEF Progress
  <1>3. /\ DOMAIN Entries = 1 .. Len(Entries) /\ Len(Entries) \in Nat
        /\ inventory \in Inventory /\ made \in Nat
    BY EntryFields DEF ConstructorTypeOK
  <1>4. ModelSimnosInventory /\ entry \in DOMAIN Entries /\ entry \in Nat /\ Fits(own)
    BY <1>1, <1>2, <1>3 DEF EntriesPassed
  <1>5. Replicas(own) \in 1 .. MaxPort /\ MaxPort \in Nat
    BY <1>3, <1>4, PassedFacts, MaxPortAssumption
  <1>6. made + 1 \in 1 .. Replicas(own) /\ made + 1 \in 1 .. MaxPort
    BY <1>1, <1>3, <1>5
  <1>7. port \in 1 .. MaxPort
    BY <1>3, <1>4, <1>6, PassedFacts
  <1>8. Reached = Settled
    BY <1>1 DEF Reached
  <1>9. CASE port \notin allocated_ports
    <2>1. at' = "host" /\ allocated_ports' = allocated_ports \cup {port}
      BY <1>1, <1>7, <1>9
    <2>2. Entries' = Entries
          /\ \A e : /\ Replicas(e)' = Replicas(e)
                    /\ Fits(e)' <=> Fits(e)
                    /\ GoodHost(e)' <=> GoodHost(e)
          /\ ModelSimnosInventory'
          /\ \A d : NameOf(d)' = NameOf(d) /\ PortOf(d)' = PortOf(d)
      BY <1>1, <1>4, Fixed
    <2>3. Settled' = Settled
      BY <1>1, <2>1, <2>2 DEF Settled
    <2>4. Reached' = Reached \cup {next}
      BY <1>1, <1>8, <2>1, <2>3 DEF Reached
    <2>5. PortOf(next) = port
      BY DEF PortOf
    <2>6. EntriesPassed'
      BY <1>1, <1>2, <2>1, <2>2 DEF EntriesPassed
    <2>7. PortsTaken'
      <3>1. \A d \in Reached : PortOf(d) # PortOf(next)
        BY <1>2, <1>9, <2>5 DEF PortsTaken
      <3>2. \A c, d \in Reached' : PortOf(c) = PortOf(d) => c = d
        BY <1>2, <2>4, <3>1 DEF PortsTaken
      <3>3. allocated_ports' = {PortOf(d) : d \in Reached'}
        BY <1>2, <2>1, <2>4, <2>5 DEF PortsTaken
      <3> QED BY <2>2, <3>2, <3>3 DEF PortsTaken
    <2>8. NamesTaken'
      BY <1>1, <1>2, <2>2, <2>3 DEF NamesTaken
    <2> QED BY <2>1, <2>6, <2>7, <2>8 DEF Progress
  <1>10. CASE port \in allocated_ports
    <2>1. PICK d \in Settled : PortOf(d) = port
      BY <1>2, <1>8, <1>10 DEF PortsTaken
    <2>2. PICK i \in DOMAIN Entries, k \in 1 .. MaxPort :
            /\ d = <<i, k>>
            /\ (i < entry /\ k <= Replicas(Entries[i])) \/ (i = entry /\ k <= made)
      BY <2>1, SettledPairs
    <2>3. HostPort(Entries[i], k) = port
      BY <2>1, <2>2 DEF PortOf
    <2>4. i < entry /\ k \in 1 .. Replicas(Entries[i])
      <3>1. CASE i = entry /\ k <= made
        <4>1. k \in 1 .. Replicas(own) /\ k # made + 1
          BY <1>1, <1>3, <1>5, <3>1
        <4>2. k = made + 1
          BY <1>3, <1>4, <1>6, <2>3, <3>1, <4>1, PassedFacts
        <4> QED BY <4>1, <4>2
      <3> QED BY <2>2, <3>1
    <2>5. Fits(Entries[i]) /\ i # entry
      BY <1>2, <1>4, <2>4 DEF EntriesPassed
    <2>6. port \in Ports(Entries[i])
      BY <1>3, <1>4, <2>3, <2>4, <2>5, PassedFacts
    <2>7. port \in Ports(own)
      BY <1>3, <1>4, <1>6, PassedFacts
    <2>8. ~Sensible
      BY <1>4, <2>5, <2>6, <2>7 DEF Sensible
    <2> QED BY <1>1, <1>10, <2>8, Fixed DEF Progress
  <1> QED BY <1>9, <1>10

(* Of one entry no two hosts have the same name.                           *)
LEMMA NamesOfEntry ==
  ASSUME inventory \in Inventory, ModelSimnosInventory,
         NEW i \in DOMAIN Entries, Fits(Entries[i]),
         NEW j \in 1 .. Replicas(Entries[i]), NEW k \in 1 .. Replicas(Entries[i]),
         HostName(Entries[i], j) = HostName(Entries[i], k)
  PROVE  j = k
  <1>1. Entries[i] \in Entry /\ Replicas(Entries[i]) \in Nat
        /\ (Replicas(Entries[i]) # 1 => Entries[i].replicas.is = "int")
    BY PassedFacts, PortFields
  <1>2. CASE Replicas(Entries[i]) = 1
    <2>1. j \in 1 .. 1 /\ k \in 1 .. 1
      BY <1>2
    <2> QED BY <2>1
  <1>3. CASE Replicas(Entries[i]) # 1
    <2> DEFINE name == Entries[i].name
    <2>1. HostName(Entries[i], j) = Append(name, j - 1)
          /\ HostName(Entries[i], k) = Append(name, k - 1)
      BY <1>1, <1>3 DEF HostName
    <2>2. name \in Seq(Word \cup Nat) /\ j - 1 \in Nat /\ k - 1 \in Nat
      BY <1>1 DEF Entry, Name
    <2> HIDE DEF name
    <2>3. Append(name, j - 1)[Len(name) + 1] = j - 1
          /\ Append(name, k - 1)[Len(name) + 1] = k - 1
      BY <2>2
    <2>4. Append(name, j - 1) = Append(name, k - 1)
      BY <2>1
    <2>5. j - 1 = k - 1
      BY <2>3, <2>4
    <2>6. j \in Nat /\ k \in Nat
      BY <1>1
    <2> QED BY <2>5, <2>6
  <1> QED BY <1>2, <1>3

LEMMA CreateProgress ==
  ASSUME ConstructorTypeOK, Progress, CreateHost
  PROVE  Progress'
  <1> DEFINE own  == Entries[entry]
             name == HostName(own, made + 1)
             port == HostPort(own, made + 1)
             new  == [port |-> port, entry |-> entry]
             next == <<entry, made + 1>>
  <1>1. /\ at = "host"
        /\ UNCHANGED <<inventory, entry, allocated_ports>>
        /\ \/ /\ GoodHost(own) /\ at' = "allocate" /\ made' = made + 1
              /\ hosts' = [n \in DOMAIN hosts \cup {name} |-> IF n = name THEN new ELSE hosts[n]]
           \/ ~GoodHost(own) /\ at' = "failed"
    BY DEF CreateHost, GoodHost
  <1>2. EntriesPassed /\ PortsTaken /\ NamesTaken
    BY <1>1 DEF Progress
  <1>3. /\ DOMAIN Entries = 1 .. Len(Entries) /\ Len(Entries) \in Nat
        /\ inventory \in Inventory /\ made \in Nat
    BY EntryFields DEF ConstructorTypeOK
  <1>4. /\ ModelSimnosInventory /\ entry \in DOMAIN Entries /\ entry \in Nat
        /\ Fits(own) /\ made < Replicas(own)
    BY <1>1, <1>2, <1>3 DEF EntriesPassed
  <1>5. Replicas(own) \in 1 .. MaxPort /\ MaxPort \in Nat
    BY <1>3, <1>4, PassedFacts, MaxPortAssumption
  <1>6. made + 1 \in 1 .. Replicas(own) /\ made + 1 \in 1 .. MaxPort
    BY <1>3, <1>4, <1>5
  <1>7. CASE ~GoodHost(own)
    <2>1. ~Sensible
      BY <1>4, <1>7 DEF Sensible, GoodHost
    <2> QED BY <1>1, <1>7, <2>1, Fixed DEF Progress
  <1>8. CASE GoodHost(own)
    <2>1. /\ at' = "allocate" /\ made' = made + 1
          /\ hosts' = [n \in DOMAIN hosts \cup {name} |-> IF n = name THEN new ELSE hosts[n]]
      BY <1>1, <1>8
    <2>2. Entries' = Entries
          /\ \A e : /\ Replicas(e)' = Replicas(e)
                    /\ Fits(e)' <=> Fits(e)
                    /\ GoodHost(e)' <=> GoodHost(e)
          /\ ModelSimnosInventory'
          /\ \A d : NameOf(d)' = NameOf(d) /\ PortOf(d)' = PortOf(d)
      BY <1>1, <1>4, Fixed
    <2>3. Settled' = Settled \cup {next}
      <3>1. \A k \in 1 .. MaxPort : k <= made + 1 <=> k <= made \/ k = made + 1
        BY <1>3
      <3>2. \A d \in (DOMAIN Entries) \X (1 .. MaxPort) :
              d \in Settled' <=> d \in Settled \/ d = next
        BY <1>1, <2>1, <2>2, <3>1 DEF Settled
      <3>3. next \in (DOMAIN Entries) \X (1 .. MaxPort)
        BY <1>4, <1>6
      <3>4. Settled \subseteq (DOMAIN Entries) \X (1 .. MaxPort)
            /\ Settled' \subseteq (DOMAIN Entries) \X (1 .. MaxPort)
        BY <2>2 DEF Settled
      <3> QED BY <3>2, <3>3, <3>4
    <2>4. Reached' = Reached
      BY <1>1, <2>1, <2>3 DEF Reached
    <2>5. NameOf(next) = name /\ PortOf(next) = port
      BY DEF NameOf, PortOf
    <2>6. EntriesPassed'
      BY <1>1, <1>2, <1>3, <1>5, <1>6, <1>8, <2>1, <2>2 DEF EntriesPassed
    <2>7. PortsTaken'
      BY <1>1, <1>2, <2>2, <2>4 DEF PortsTaken
    <2>8. NamesTaken'
      <3>1. DOMAIN hosts' = DOMAIN hosts \cup {name}
            /\ hosts'[name].port = port
            /\ \A n \in DOMAIN hosts : n # name => hosts'[n] = hosts[n]
        BY <2>1
      <3>2. DOMAIN hosts' = {NameOf(d) : d \in Settled'}
        BY <1>2, <2>3, <2>5, <3>1 DEF NamesTaken
      <3>3. ASSUME NEW d \in Settled'
            PROVE  \/ hosts'[NameOf(d)].port = PortOf(d)
                   \/ \E later \in Settled' : NameOf(later) = NameOf(d) /\ later[1] > d[1]
        <4>1. CASE d = next
          BY <2>5, <3>1, <4>1
        <4>2. CASE d \in Settled /\ NameOf(d) # name
          <5>1. NameOf(d) \in DOMAIN hosts
            BY <1>2, <4>2 DEF NamesTaken
          <5>2. hosts'[NameOf(d)] = hosts[NameOf(d)]
            BY <3>1, <4>2, <5>1
          <5> QED BY <1>2, <2>3, <4>2, <5>2 DEF NamesTaken
        <4>3. CASE d \in Settled /\ NameOf(d) = name
          <5>1. PICK i \in DOMAIN Entries, k \in 1 .. MaxPort :
                  /\ d = <<i, k>>
                  /\ (i < entry /\ k <= Replicas(Entries[i])) \/ (i = entry /\ k <= made)
            BY <4>3, SettledPairs
          <5>2. CASE i < entry
            <6>1. next[1] > d[1]
              BY <1>3, <1>4, <5>1, <5>2
            <6> QED BY <2>3, <2>5, <4>3, <6>1
          <5>3. CASE i = entry /\ k <= made
            <6>1. HostName(own, k) = name
              BY <4>3, <5>1, <5>3 DEF NameOf
            <6>2. k \in 1 .. Replicas(own) /\ k # made + 1
              BY <1>3, <1>4, <1>5, <5>3
            <6>3. k = made + 1
              BY <1>3, <1>4, <1>6, <6>1, <6>2, NamesOfEntry
            <6> QED BY <6>2, <6>3
          <5> QED BY <5>1, <5>2, <5>3
        <4> QED BY <2>3, <4>1, <4>2, <4>3
      <3> QED BY <2>2, <3>2, <3>3 DEF NamesTaken
    <2> QED BY <2>1, <2>6, <2>7, <2>8 DEF Progress
  <1> QED BY <1>7, <1>8

LEMMA ConstructorProgress ==
  ASSUME ConstructorTypeOK, Progress, Construct
  PROVE  Progress'
  BY LoadProgress, CheckProgress, AllocateProgress, CreateProgress, NextProgress,
     FinishProgress DEF Construct

LEMMA ProgressDecides ==
  ASSUME ConstructorTypeOK, Progress
  PROVE  InventoryDecides
  <1> SUFFICES ASSUME at = "done"
               PROVE  /\ Sensible
                      /\ DOMAIN hosts = {NameOf(d) : d \in Declared}
                      /\ \A d \in Declared :
                           \/ hosts[NameOf(d)].port = PortOf(d)
                           \/ \E later \in Declared :
                                NameOf(later) = NameOf(d) /\ later[1] > d[1]
                      /\ allocated_ports = UNION {Ports(Entries[i]) : i \in DOMAIN Entries}
    BY DEF InventoryDecides, Progress, NameOf, PortOf
  <1>1. EntriesPassed /\ PortsTaken /\ NamesTaken
    BY DEF Progress
  <1>2. /\ DOMAIN Entries = 1 .. Len(Entries) /\ Len(Entries) \in Nat
        /\ inventory \in Inventory
    BY EntryFields DEF ConstructorTypeOK
  <1>3. ModelSimnosInventory /\ \A i \in DOMAIN Entries : i < entry
    BY <1>1, <1>2 DEF EntriesPassed
  <1>4. \A i \in DOMAIN Entries : Fits(Entries[i]) /\ GoodHost(Entries[i])
    BY <1>1, <1>3 DEF EntriesPassed
  <1>5. Settled = Declared /\ Reached = Declared
    <2>1. \A i \in DOMAIN Entries : i # entry
      BY <1>1, <1>2 DEF EntriesPassed
    <2> QED BY <1>3, <2>1 DEF Settled, Reached, Declared
  <1>6. ASSUME NEW i \in DOMAIN Entries, NEW port
        PROVE  port \in Ports(Entries[i]) <=>
                 \E k \in 1 .. MaxPort : <<i, k>> \in Declared /\ PortOf(<<i, k>>) = port
    <2>1. Ports(Entries[i]) = {HostPort(Entries[i], k) : k \in 1 .. Replicas(Entries[i])}
          /\ Replicas(Entries[i]) \in 1 .. MaxPort /\ MaxPort \in Nat
      BY <1>2, <1>3, <1>4, PassedFacts, MaxPortAssumption
    <2>2. \A k : k \in 1 .. Replicas(Entries[i]) <=>
                   k \in 1 .. MaxPort /\ <<i, k>> \in Declared
      BY <2>1 DEF Declared
    <2> QED BY <2>1, <2>2 DEF PortOf
  <1>7. Sensible
    <2>1. InRange(Default.port) /\ \A i \in DOMAIN Entries : InRange(Entries[i].port)
      BY <1>3 DEF ModelSimnosInventory, ValidSection
    <2>2. ASSUME NEW i \in DOMAIN Entries, NEW j \in DOMAIN Entries, i # j,
                 NEW port \in Ports(Entries[i]) \cap Ports(Entries[j])
          PROVE  FALSE
      <3>1. PICK k, l \in 1 .. MaxPort :
              /\ <<i, k>> \in Declared /\ PortOf(<<i, k>>) = port
              /\ <<j, l>> \in Declared /\ PortOf(<<j, l>>) = port
        BY <1>6
      <3>2. <<i, k>> = <<j, l>>
        BY <1>1, <1>5, <3>1 DEF PortsTaken
      <3> QED BY <2>2, <3>2
    <2> QED BY <1>4, <2>1, <2>2 DEF Sensible, GoodHost
  <1>8. DOMAIN hosts = {NameOf(d) : d \in Declared}
        /\ \A d \in Declared :
             \/ hosts[NameOf(d)].port = PortOf(d)
             \/ \E later \in Declared : NameOf(later) = NameOf(d) /\ later[1] > d[1]
    BY <1>1, <1>5 DEF NamesTaken
  <1>9. allocated_ports = UNION {Ports(Entries[i]) : i \in DOMAIN Entries}
    <2>1. allocated_ports = {PortOf(d) : d \in Declared}
      BY <1>1, <1>5 DEF PortsTaken
    <2>2. \A d \in Declared : \E i \in DOMAIN Entries, k \in 1 .. MaxPort : d = <<i, k>>
      BY DEF Declared
    <2>3. \A port : port \in allocated_ports <=>
                      \E i \in DOMAIN Entries : port \in Ports(Entries[i])
      <3>1. ASSUME NEW port \in allocated_ports
            PROVE  \E i \in DOMAIN Entries : port \in Ports(Entries[i])
        <4>1. PICK d \in Declared : PortOf(d) = port
          BY <2>1
        <4>2. PICK i \in DOMAIN Entries, k \in 1 .. MaxPort : d = <<i, k>>
          BY <2>2
        <4> QED BY <1>6, <4>1, <4>2
      <3>2. ASSUME NEW i \in DOMAIN Entries, NEW port \in Ports(Entries[i])
            PROVE  port \in allocated_ports
        <4>1. PICK k \in 1 .. MaxPort : <<i, k>> \in Declared /\ PortOf(<<i, k>>) = port
          BY <1>6
        <4> QED BY <2>1, <4>1
      <3> QED BY <3>1, <3>2
    <2> QED BY <2>3
  <1> QED BY <1>7, <1>8, <1>9

-----------------------------------------------------------------------------
(* The table of commands.                                                  *)

(* A resolved command has the attributes that Has and Of speak of.         *)
LEMMA Resolution ==
  ASSUME NEW name, Resolves(name)
  PROVE  /\ \A attribute : attribute \in DOMAIN ResolveCommand(name) <=> Has(name, attribute)
         /\ \A attribute : Has(name, attribute) =>
              ResolveCommand(name)[attribute] = Of(name, attribute)
  <1>1. CASE "alias" \in DOMAIN commands[name]
    <2> DEFINE own == commands[name]  target == commands[own.alias]
    <2>1. ResolveCommand(name) = Updated(target, own)
      BY <1>1 DEF ResolveCommand
    <2>2. /\ DOMAIN Updated(target, own) = DOMAIN target \cup DOMAIN own
          /\ \A key \in DOMAIN target \cup DOMAIN own :
               Updated(target, own)[key] = IF key \in DOMAIN own THEN own[key] ELSE target[key]
      BY DEF Updated
    <2>3. \A attribute : Has(name, attribute) <=> attribute \in DOMAIN target \cup DOMAIN own
      BY <1>1 DEF Has
    <2>4. \A attribute : Of(name, attribute) = IF attribute \in DOMAIN own THEN own[attribute]
                                                                      ELSE target[attribute]
      BY DEF Of
    <2> HIDE DEF target, own
    <2> QED BY <2>1, <2>2, <2>3, <2>4
  <1>2. CASE "alias" \notin DOMAIN commands[name]
    BY <1>2 DEF ResolveCommand, Has, Of
  <1> QED BY <1>1, <1>2

LEMMA MatchesWhenAvailable ==
  ASSUME prompt = from
  PROVE  \A name : Available(name) <=> Resolves(name) /\ CheckPrompt(ResolveCommand(name))
  <1> SUFFICES ASSUME NEW name, Resolves(name)
               PROVE  Available(name) <=> CheckPrompt(ResolveCommand(name))
    BY DEF Available, Resolves
  <1>1. "prompt" \in DOMAIN ResolveCommand(name) <=> Has(name, "prompt")
    BY Resolution
  <1>2. Has(name, "prompt") => ResolveCommand(name).prompt = Of(name, "prompt")
    BY Resolution
  <1> QED BY <1>1, <1>2 DEF Available, Resolves, CheckPrompt, FormatFails

LEMMA ResolvedIsCommand ==
  ASSUME IsTable(commands), NEW name, Resolves(name)
  PROVE  IsCommand(ResolveCommand(name))
  <1>1. CASE "alias" \in DOMAIN commands[name]
    <2> DEFINE target == commands[commands[name].alias]
    <2>1. IsCommand(commands[name]) /\ IsCommand(target)
      BY <1>1 DEF IsTable, Resolves
    <2>2. ResolveCommand(name) = Updated(target, commands[name])
      BY <1>1 DEF ResolveCommand
    <2>3. /\ DOMAIN Updated(target, commands[name]) = DOMAIN target \cup DOMAIN commands[name]
          /\ \A key \in DOMAIN target \cup DOMAIN commands[name] :
               Updated(target, commands[name])[key]
                 = IF key \in DOMAIN commands[name] THEN commands[name][key] ELSE target[key]
      BY DEF Updated
    <2> HIDE DEF target
    <2> QED BY <2>1, <2>2, <2>3 DEF IsCommand
  <1>2. CASE "alias" \notin DOMAIN commands[name]
    BY <1>2 DEF ResolveCommand, IsTable, Resolves
  <1> QED BY <1>1, <1>2

LEMMA TablesUpdated ==
  ASSUME NEW old, NEW new, IsTable(old), IsTable(new)
  PROVE  IsTable(Updated(old, new))
  <1>1. /\ DOMAIN Updated(old, new) = DOMAIN old \cup DOMAIN new
        /\ \A key \in DOMAIN old \cup DOMAIN new :
             Updated(old, new)[key] = IF key \in DOMAIN new THEN new[key] ELSE old[key]
    BY DEF Updated
  <1> QED BY <1>1 DEF IsTable

LEMMA SomeTables == IsTable(NoCommand) /\ IsTable(BASIC_COMMANDS) /\ IsCommand(NoCommand)
  <1>1. IsTable(NoCommand) /\ IsCommand(NoCommand)
    BY DEF IsTable, IsCommand, NoCommand
  <1>2. [text |-> "unknown", how |-> "fixed"] \in Template
    BY TextAssumption DEF Template
  <1>3. IsCommand(BASIC_COMMANDS["_default_"])
    BY <1>2 DEF BASIC_COMMANDS, IsCommand, Attribute, Output
  <1>4. IsCommand(BASIC_COMMANDS["exit"])
    BY DEF BASIC_COMMANDS, IsCommand, Attribute
  <1>5. DOMAIN BASIC_COMMANDS = {"exit", "_default_"}
    BY DEF BASIC_COMMANDS
  <1> QED BY <1>1, <1>3, <1>4, <1>5 DEF IsTable

-----------------------------------------------------------------------------
(* The shell.                                                              *)

(* What the answer to the line comes from.                                 *)
Source ==
  IF Available(line) THEN IF Has(line, "output") THEN Of(line, "output") ELSE NoOutput
                     ELSE commands["_default_"].output

(* What the shell has decided by the time it is where it is.               *)
Decided ==
  /\ shell = "none" => line = "blank" /\ answer = NoAnswer /\ ~crashed
  /\ shell = "onecmd" => prompt = from /\ answer = NoAnswer /\ ~crashed
  /\ shell \in {"invoke", "finish"} =>
       /\ line \notin {"help", "blank", "EOF"} /\ answer = NoAnswer
       /\ Available(line) => cmd_data = ResolveCommand(line) /\ ~Exits(line)
       /\ ~Available(line) => cmd_data = NoCommand /\ Refusal # "raises"
  /\ shell = "invoke" => prompt = from /\ ~crashed /\ Source.is = "handler"
  /\ shell = "finish" =>
       IF Source.is = "handler"
       THEN ret.is \in {"verbatim", "none", "error"} /\ (crashed <=> ret.is = "error")
       ELSE prompt = from /\ ret = Source /\ ~crashed

ShellInv == ShellTypeOK /\ Decided /\ AnswersByMode

(* What the table says does not change.                                    *)
Stands ==
  /\ \A name : Available(name)' <=> Available(name)
  /\ \A name, attribute : Has(name, attribute)' <=> Has(name, attribute)
  /\ \A name, attribute : Of(name, attribute)' = Of(name, attribute)
  /\ \A name : Exits(name)' <=> Exits(name)
  /\ \A name : Handled(name)' <=> Handled(name)
  /\ \A name : ResolveCommand(name)' = ResolveCommand(name)
  /\ \A template : Rendered(template)' = Rendered(template)
  /\ Refusal' = Refusal

LEMMA TableStands ==
  ASSUME UNCHANGED <<base, commands, from>>
  PROVE  Stands
  <1>1. \A name, attribute : Has(name, attribute)' <=> Has(name, attribute)
    BY DEF Has
  <1>2. \A name, attribute : Of(name, attribute)' = Of(name, attribute)
    BY DEF Of
  <1>3. \A template : Rendered(template)' = Rendered(template)
    BY DEF Rendered
  <1>4. \A name : Available(name)' <=> Available(name)
    <2> SUFFICES ASSUME NEW name PROVE Available(name)' <=> Available(name)
      OBVIOUS
    <2>1. {Rendered(t) : t \in {u \in Of(name, "prompt") : u.how # "broken"}}'
            = {Rendered(t) : t \in {u \in Of(name, "prompt") : u.how # "broken"}}
      BY <1>2, <1>3
    <2>2. Has(name, "prompt")' <=> Has(name, "prompt")
      BY <1>1
    <2>3. Of(name, "prompt")' = Of(name, "prompt")
      BY <1>2
    <2>4. Has(name, "prompt") /\ Of(name, "prompt") # AnyMode
            <=> (Has(name, "prompt") /\ Of(name, "prompt") # AnyMode)'
      BY <2>2, <2>3 DEF AnyMode
    <2> QED BY <2>1, <2>4 DEF Available
  <1>5. \A name : Exits(name)' <=> Exits(name)
    BY <1>1, <1>2 DEF Exits
  <1>6. \A name : Handled(name)' <=> Handled(name)
    BY <1>1, <1>2 DEF Handled
  <1>7. \A name : ResolveCommand(name)' = ResolveCommand(name)
    BY DEF ResolveCommand, Updated
  <1>8. Refusal' = Refusal
    BY DEF Refusal
  <1> QED BY <1>1, <1>2, <1>3, <1>4, <1>5, <1>6, <1>7, <1>8 DEF Stands

(* Nothing is claimed of an answer where there is none yet.                *)
LEMMA NoAnswerYet ==
  ASSUME answer' = NoAnswer, ~crashed', ~Answered'
  PROVE  AnswersByMode'
  <1>1. answer'.is = "nothing"
    BY DEF NoAnswer
  <1>2. RefusedLeavesMode' /\ CommandHasItsEffect'
    BY DEF RefusedLeavesMode, CommandHasItsEffect
  <1>3. CrashIsAnswered'
    BY <1>1 DEF CrashIsAnswered
  <1>4. HelpIsTrue'
    BY <1>1 DEF HelpIsTrue
  <1> QED BY <1>2, <1>3, <1>4 DEF AnswersByMode

LEMMA NewShellKeeps ==
  ASSUME ShellInv, shell = "none",
         NEW b, NEW nos \in NosTables, NEW own \in InventoryTables,
         NEW initial \in InitialPrompts, NewShell(b, nos, own, initial)
  PROVE  ShellInv'
  <1> USE DEF ShellInv
  <1>1. /\ base' = b /\ shell' = "read"
        /\ commands' = Updated(Updated(BASIC_COMMANDS, nos), own)
        /\ UNCHANGED <<is_running, line, cmd_data, ret, from, crashed, answer>>
    BY DEF NewShell, dispatchVars
  <1>2. line' = "blank" /\ answer' = NoAnswer /\ ~crashed'
    BY <1>1 DEF Decided
  <1>3. IsTable(commands') /\ "_default_" \in DOMAIN commands'
    <2>1. IsTable(nos) /\ IsTable(own)
      BY TablesAssumption
    <2>2. IsTable(Updated(BASIC_COMMANDS, nos))
      BY <2>1, SomeTables, TablesUpdated
    <2>3. "_default_" \in DOMAIN commands'
      BY <1>1 DEF Updated, BASIC_COMMANDS
    <2> QED BY <1>1, <2>1, <2>2, <2>3, TablesUpdated
  <1>4. prompt'.text \in Text /\ prompt'.base \in {<<>>, b}
    <2>1. initial.text \in Text
      BY PromptsAssumption DEF Template
    <2> QED BY <2>1 DEF NewShell, Plain
  <1>5. ShellTypeOK'
    <2>1. answer'.is = "nothing" /\ answer'.help = {}
      BY <1>2 DEF NoAnswer
    <2>2. /\ is_running' \in BOOLEAN /\ crashed' \in BOOLEAN
          /\ DOMAIN cmd_data' \subseteq Attribute
          /\ ret'.is \in {"none", "text", "handler", "verbatim", "error"}
      BY <1>1 DEF ShellTypeOK
    <2> QED BY <1>1, <1>2, <1>3, <1>4, <2>1, <2>2 DEF ShellTypeOK
  <1>6. Decided'
    BY <1>1, <1>2 DEF Decided
  <1>7. AnswersByMode'
    <2>1. ~Answered'
      BY <1>2 DEF Answered
    <2> QED BY <1>2, <2>1, NoAnswerYet
  <1> QED BY <1>5, <1>6, <1>7

LEMMA ReadLineKeeps ==
  ASSUME ShellInv, ReadLine
  PROVE  ShellInv'
  <1> USE DEF ShellInv
  <1>1. /\ shell' = "onecmd" /\ from' = prompt /\ answer' = NoAnswer /\ crashed' = FALSE
        /\ line' \in Typed \cup {"help", "blank", "EOF"}
        /\ UNCHANGED <<base, prompt, is_running, cmd_data, ret>>
    BY DEF ReadLine
  <1>2. PICK changed \in ReloadTables \cup {NoCommand} : commands' = Updated(commands, changed)
    BY DEF ReadLine
  <1>3. IsTable(commands') /\ "_default_" \in DOMAIN commands'
    <2>1. IsTable(commands) /\ "_default_" \in DOMAIN commands
      BY DEF ShellTypeOK
    <2>2. IsTable(changed)
      BY TablesAssumption, SomeTables
    <2>3. "_default_" \in DOMAIN Updated(commands, changed)
      BY <2>1 DEF Updated
    <2> QED BY <1>2, <2>1, <2>2, <2>3, TablesUpdated
  <1>4. ShellTypeOK'
    <2>1. answer'.is = "nothing" /\ answer'.help = {}
      BY <1>1 DEF NoAnswer
    <2> QED BY <1>1, <1>3, <2>1 DEF ShellTypeOK
  <1>5. Decided'
    BY <1>1 DEF Decided
  <1>6. AnswersByMode'
    <2>1. ~Answered'
      BY <1>1 DEF Answered
    <2> QED BY <1>1, <2>1, NoAnswerYet
  <1> QED BY <1>4, <1>5, <1>6

LEMMA StopKeeps ==
  ASSUME ShellInv, ServerStop
  PROVE  ShellInv'
  <1> USE DEF ShellInv
  <1>1. /\ is_running' = FALSE
        /\ UNCHANGED <<base, commands, prompt, shell, line, cmd_data, ret, from, crashed, answer>>
    BY DEF ServerStop, dispatchVars
  <1>2. Stands
    BY <1>1, TableStands
  <1>3. ShellTypeOK'
    BY <1>1 DEF ShellTypeOK
  <1>4. Decided'
    BY <1>1, <1>2 DEF Stands, Decided, Source
  <1>5. RefusedLeavesMode'
    BY <1>1, <1>2 DEF Stands, RefusedLeavesMode, Answered, AnswersByMode
  <1>6. CommandHasItsEffect'
    BY <1>1, <1>2 DEF Stands, CommandHasItsEffect, Answered, AnswersByMode, Plain
  <1>7. CrashIsAnswered'
    BY <1>1, <1>2 DEF Stands, CrashIsAnswered, Answered, AnswersByMode
  <1>8. HelpIsTrue'
    BY <1>1, <1>2 DEF Stands, HelpIsTrue, AnswersByMode
  <1> QED BY <1>3, <1>4, <1>5, <1>6, <1>7, <1>8 DEF AnswersByMode

(* A blank line and the end of the input.                                  *)
LEMMA NoCommandKeeps ==
  ASSUME ShellInv, EmptyLine \/ DoEOF
  PROVE  ShellInv'
  <1> USE DEF ShellInv
  <1>1. /\ shell = "onecmd" /\ shell' \in {"read", "over"} /\ line' \in {"blank", "EOF"}
        /\ UNCHANGED <<base, commands, prompt, is_running, line, cmd_data, ret, from, crashed,
                       answer>>
    BY DEF EmptyLine, DoEOF, dispatchVars
  <1>2. ShellTypeOK'
    BY <1>1 DEF ShellTypeOK
  <1>3. Decided'
    BY <1>1 DEF Decided
  <1>4. AnswersByMode'
    <2>1. ~Answered' /\ answer' = NoAnswer /\ ~crashed'
      BY <1>1 DEF Answered, Decided
    <2> QED BY <2>1, NoAnswerYet
  <1> QED BY <1>2, <1>3, <1>4

(* A help that is listed by mode is right where an alias says its own.     *)
LEMMA ListedByMode ==
  ASSUME prompt = from, NEW name \in DOMAIN commands,
         "alias" \in DOMAIN commands[name] =>
           "prompt" \in DOMAIN commands[name] /\ commands[name].alias \in DOMAIN commands
  PROVE  CheckPrompt(commands[name]) <=> Available(name)
  <1>1. Has(name, "prompt") <=> "prompt" \in DOMAIN commands[name]
    BY DEF Has
  <1>2. "prompt" \in DOMAIN commands[name] => Of(name, "prompt") = commands[name].prompt
    BY DEF Of
  <1> QED BY <1>1, <1>2 DEF Available, CheckPrompt, FormatFails

LEMMA HelpKeeps ==
  ASSUME ShellInv, DoHelp
  PROVE  ShellInv'
  <1> USE DEF ShellInv
  <1> DEFINE listed == {name \in DOMAIN commands \ {"_default_"} : CheckPrompt(commands[name])}
  <1>1. /\ shell = "onecmd" /\ shell' = "read" /\ line' = "help" /\ prompt = from
        /\ answer'.is = "help" /\ answer'.help = listed /\ crashed' = FALSE
        /\ UNCHANGED <<base, commands, prompt, is_running, line, cmd_data, ret, from>>
    BY DEF DoHelp, NoAnswer, Decided, ShellTypeOK
  <1>2. ShellTypeOK'
    BY <1>1 DEF ShellTypeOK
  <1>3. Decided'
    BY <1>1 DEF Decided
  <1>4. HelpIsTrue'
    <2>1. \A name : Available(name)' <=> Available(name)
      BY <1>1, TableStands DEF Stands
    <2>2. \A name \in DOMAIN commands :
            ("alias" \in DOMAIN commands[name] =>
               "prompt" \in DOMAIN commands[name] /\ commands[name].alias \in DOMAIN commands)
            => (CheckPrompt(commands[name]) <=> Available(name))
      BY <1>1, ListedByMode
    <2> QED BY <1>1, <2>1, <2>2 DEF HelpIsTrue
  <1>5. RefusedLeavesMode' /\ CommandHasItsEffect' /\ CrashIsAnswered'
    BY <1>1 DEF RefusedLeavesMode, CommandHasItsEffect, CrashIsAnswered, Answered
  <1> QED BY <1>2, <1>3, <1>4, <1>5 DEF AnswersByMode

(* A command of the mode: what is decided when default() has found it.     *)
LEMMA MatchesKeeps ==
  ASSUME ShellInv, DefaultMatches
  PROVE  ShellInv'
  <1> USE DEF ShellInv
  <1> DEFINE command == ResolveCommand(line)
             output  == IF "output" \in DOMAIN command THEN command.output ELSE NoOutput
             exits   == "exit" \in DOMAIN command /\ command.exit
  <1>1. /\ shell = "onecmd" /\ line \notin {"help", "blank", "EOF"} /\ Matches
        /\ UNCHANGED <<base, commands, prompt, is_running, line, from, crashed, answer>>
    BY DEF DefaultMatches, Dispatching
  <1>2. prompt = from /\ answer = NoAnswer /\ ~crashed
    BY <1>1 DEF Decided
  <1>3. Stands
    BY <1>1, TableStands
  <1>4. Resolves(line) /\ Available(line)
    BY <1>1, <1>2, MatchesWhenAvailable DEF Matches
  <1>5. IsCommand(command)
    BY <1>4, ResolvedIsCommand DEF ShellTypeOK
  <1>6. (exits <=> Exits(line)) /\ output = Source
    BY <1>4, Resolution DEF Exits, Source
  <1>7. output.is \in {"none", "text", "handler"}
    BY <1>5 DEF IsCommand, Output, NoOutput
  <1> HIDE DEF command, output, exits
  <1>8. CASE exits
    <2>1. shell' = "over" /\ UNCHANGED <<cmd_data, ret>>
      BY <1>8 DEF DefaultMatches, exits, command
    <2>2. ShellTypeOK'
      BY <1>1, <2>1 DEF ShellTypeOK
    <2>3. Decided'
      BY <2>1 DEF Decided
    <2>4. RefusedLeavesMode'
      BY <1>1, <1>3, <1>4 DEF RefusedLeavesMode, Stands
    <2>5. CommandHasItsEffect'
      BY <1>1, <1>2, <1>3, <1>6, <1>8, <2>1 DEF CommandHasItsEffect, Stands
    <2>6. CrashIsAnswered' /\ HelpIsTrue'
      BY <1>1, <1>2, <2>1 DEF CrashIsAnswered, HelpIsTrue, NoAnswer
    <2> QED BY <2>2, <2>3, <2>4, <2>5, <2>6 DEF AnswersByMode
  <1>9. CASE ~exits
    <2>1. /\ cmd_data' = command /\ ret' = output
          /\ shell' = IF output.is = "handler" THEN "invoke" ELSE "finish"
      BY <1>9 DEF DefaultMatches, Runs, exits, command, output
    <2>2. ShellTypeOK'
      BY <1>1, <1>5, <1>7, <2>1 DEF ShellTypeOK, IsCommand
    <2>3. Source' = Source
      BY <1>1, <1>3 DEF Source, Stands
    <2>4. Decided'
      <3>1. Available(line)' /\ ~Exits(line)' /\ cmd_data' = ResolveCommand(line)'
        BY <1>1, <1>3, <1>4, <1>6, <1>9, <2>1 DEF Stands, command
      <3> QED BY <1>1, <1>2, <1>6, <1>7, <2>1, <2>3, <3>1 DEF Decided
    <2>5. AnswersByMode'
      <3>1. ~Answered' /\ answer' = NoAnswer /\ ~crashed'
        BY <1>1, <1>2, <2>1 DEF Answered
      <3> QED BY <3>1, NoAnswerYet
    <2> QED BY <2>2, <2>4, <2>5
  <1> QED BY <1>8, <1>9

(* Any other line.                                                         *)
LEMMA RefusesKeeps ==
  ASSUME ShellInv, DefaultRefuses
  PROVE  ShellInv'
  <1> USE DEF ShellInv
  <1>1. /\ shell = "onecmd" /\ line \notin {"help", "blank", "EOF"} /\ ~Matches
        /\ UNCHANGED <<base, commands, prompt, is_running, line, from, crashed, answer>>
    BY DEF DefaultRefuses, Dispatching
  <1>2. prompt = from /\ answer = NoAnswer /\ ~crashed
    BY <1>1 DEF Decided
  <1>3. Stands
    BY <1>1, TableStands
  <1>4. ~Available(line)
    BY <1>1, <1>2, MatchesWhenAvailable DEF Matches
  <1>5. CASE "output" \notin DOMAIN commands["_default_"]
    <2>1. shell' = "over" /\ UNCHANGED <<cmd_data, ret>>
      BY <1>5 DEF DefaultRefuses
    <2>2. Refusal = "raises"
      BY <1>5 DEF Refusal
    <2>3. ShellTypeOK'
      BY <1>1, <2>1 DEF ShellTypeOK
    <2>4. Decided'
      BY <2>1 DEF Decided
    <2>5. RefusedLeavesMode'
      BY <1>1, <1>2, <1>3, <2>1, <2>2 DEF RefusedLeavesMode, Stands
    <2>6. CommandHasItsEffect'
      BY <1>1, <1>3, <1>4 DEF CommandHasItsEffect, Stands
    <2>7. CrashIsAnswered' /\ HelpIsTrue'
      BY <1>1, <1>2, <2>1 DEF CrashIsAnswered, HelpIsTrue, NoAnswer
    <2> QED BY <2>3, <2>4, <2>5, <2>6, <2>7 DEF AnswersByMode
  <1>6. CASE "output" \in DOMAIN commands["_default_"]
    <2> DEFINE output == commands["_default_"].output
    <2>1. /\ cmd_data' = NoCommand /\ ret' = output
          /\ shell' = IF output.is = "handler" THEN "invoke" ELSE "finish"
      BY <1>6 DEF DefaultRefuses, Runs
    <2>2. Source = output /\ Refusal = output.is
      BY <1>4, <1>6 DEF Source, Refusal
    <2>3. output.is \in {"none", "text", "handler"}
      BY <1>6 DEF ShellTypeOK, IsTable, IsCommand, Output
    <2> HIDE DEF output
    <2>4. ShellTypeOK'
      BY <1>1, <2>1, <2>3, SomeTables DEF ShellTypeOK, IsCommand
    <2>5. Source' = Source
      BY <1>1, <1>3 DEF Source, Stands
    <2>6. Decided'
      <3>1. ~Available(line)' /\ Refusal' # "raises"
        BY <1>1, <1>3, <1>4, <2>2, <2>3 DEF Stands
      <3> QED BY <1>1, <1>2, <2>1, <2>2, <2>3, <2>5, <3>1 DEF Decided
    <2>7. AnswersByMode'
      <3>1. ~Answered' /\ answer' = NoAnswer /\ ~crashed'
        BY <1>1, <1>2, <2>1 DEF Answered
      <3> QED BY <3>1, NoAnswerYet
    <2> QED BY <2>4, <2>6, <2>7
  <1> QED BY <1>5, <1>6

LEMMA NewPromptTyped ==
  ASSUME ShellTypeOK, NEW source, "new_prompt" \in DOMAIN source => source.new_prompt \in Template
  PROVE  NewPrompt(source).text \in Text \cup {""} /\ NewPrompt(source).base \in {<<>>, base}
  <1>1. CASE "new_prompt" \in DOMAIN source /\ ~FormatFails(source.new_prompt)
    <2>1. NewPrompt(source) = Rendered(source.new_prompt)
      BY <1>1 DEF NewPrompt
    <2>2. source.new_prompt.text \in Text
      BY <1>1 DEF Template
    <2>3. /\ Rendered(source.new_prompt).text = source.new_prompt.text
          /\ Rendered(source.new_prompt).base \in {<<>>, base}
      BY DEF Rendered
    <2> QED BY <2>1, <2>2, <2>3
  <1>2. CASE ~("new_prompt" \in DOMAIN source /\ ~FormatFails(source.new_prompt))
    BY <1>2 DEF NewPrompt, ShellTypeOK
  <1> QED BY <1>1, <1>2

(* What comes from a handler is told by the source of the answer.          *)
LEMMA HandlerIsSource ==
  ASSUME Available(line) \/ Refusal # "raises"
  PROVE  Source.is = "handler" <=> IF Available(line) THEN Handled(line) ELSE Refusal = "handler"
  <1>1. CASE Available(line)
    BY <1>1 DEF Source, Handled, NoOutput
  <1>2. CASE ~Available(line)
    BY <1>2 DEF Source, Refusal
  <1> QED BY <1>1, <1>2

LEMMA InvokeKeeps ==
  ASSUME ShellInv, InvokeCallable
  PROVE  ShellInv'
  <1> USE DEF ShellInv
  <1>1. /\ shell = "invoke"
        /\ UNCHANGED <<base, commands, is_running, line, cmd_data, from, answer>>
    BY DEF InvokeCallable
  <1>2. /\ prompt = from /\ ~crashed /\ answer = NoAnswer /\ Source.is = "handler"
        /\ line \notin {"help", "blank", "EOF"}
        /\ Available(line) => cmd_data = ResolveCommand(line) /\ ~Exits(line)
        /\ ~Available(line) => cmd_data = NoCommand /\ Refusal # "raises"
    BY <1>1 DEF Decided
  <1>3. Stands
    BY <1>1, TableStands
  <1>4. Source' = Source
    BY <1>1, <1>3 DEF Source, Stands
  <1>5. IF Available(line) THEN Handled(line) ELSE Refusal = "handler"
    BY <1>2, HandlerIsSource
  <1>6. /\ prompt'.text \in Text \cup {""} /\ prompt'.base \in {<<>>, base}
        /\ shell' \in {"finish", "over"} /\ crashed' \in BOOLEAN
        /\ ret'.is \in {"verbatim", "none", "error"} /\ (crashed' <=> ret'.is = "error")
    <2>1. CASE \E result \in HandlerResults :
                 /\ prompt' = NewPrompt(result)
                 /\ ret' = [is |-> IF "output" \in DOMAIN result THEN "verbatim" ELSE "none",
                            text |-> IF "output" \in DOMAIN result THEN result.output ELSE NoText]
                 /\ shell' = IF "exit" \in DOMAIN result /\ result.exit THEN "over" ELSE "finish"
                 /\ UNCHANGED crashed
      <3>1. PICK result \in HandlerResults :
                 /\ prompt' = NewPrompt(result)
                 /\ ret' = [is |-> IF "output" \in DOMAIN result THEN "verbatim" ELSE "none",
                            text |-> IF "output" \in DOMAIN result THEN result.output ELSE NoText]
                 /\ shell' = IF "exit" \in DOMAIN result /\ result.exit THEN "over" ELSE "finish"
                 /\ UNCHANGED crashed
        BY <2>1
      <3>2. "new_prompt" \in DOMAIN result => result.new_prompt \in Template
        BY ResultsAssumption DEF IsResult
      <3>3. prompt'.text \in Text \cup {""} /\ prompt'.base \in {<<>>, base}
        BY <3>1, <3>2, NewPromptTyped
      <3>4. ret'.is \in {"verbatim", "none"}
        BY <3>1
      <3> QED BY <1>2, <3>1, <3>3, <3>4 DEF ShellTypeOK
    <2>2. CASE /\ ret' = [is |-> "error", text |-> NoText] /\ crashed' = TRUE
               /\ shell' = "finish"
               /\ UNCHANGED prompt
      BY <2>2 DEF ShellTypeOK
    <2> QED BY <2>1, <2>2 DEF InvokeCallable
  <1>7. ShellTypeOK'
    BY <1>1, <1>6 DEF ShellTypeOK
  <1>8. CASE shell' = "finish"
    <2>1. Decided'
      BY <1>1, <1>2, <1>3, <1>4, <1>6, <1>8 DEF Decided, Stands
    <2>2. AnswersByMode'
      <3>1. answer'.is = "nothing" /\ ~Answered'
        BY <1>1, <1>2, <1>8 DEF NoAnswer, Answered
      <3> QED BY <3>1 DEF AnswersByMode, RefusedLeavesMode, CommandHasItsEffect,
                          CrashIsAnswered, HelpIsTrue
    <2> QED BY <1>7, <2>1, <2>2
  <1>9. CASE shell' = "over"
    <2>1. Decided'
      BY <1>9 DEF Decided
    <2>2. answer'.is = "nothing"
      BY <1>1, <1>2 DEF NoAnswer
    <2>3. IF Available(line)' THEN Handled(line)' ELSE Refusal' = "handler"
      BY <1>1, <1>3, <1>5 DEF Stands
    <2>4. RefusedLeavesMode' /\ CrashIsAnswered' /\ HelpIsTrue'
      BY <1>9, <2>2, <2>3 DEF RefusedLeavesMode, CrashIsAnswered, HelpIsTrue
    <2>5. CommandHasItsEffect'
      BY <1>9, <2>3 DEF CommandHasItsEffect
    <2> QED BY <1>7, <2>1, <2>4, <2>5 DEF AnswersByMode
  <1> QED BY <1>6, <1>8, <1>9

LEMMA EndsKeeps ==
  ASSUME ShellInv, DefaultEnds
  PROVE  ShellInv'
  <1> USE DEF ShellInv
  <1>1. /\ shell = "finish" /\ prompt' = NewPrompt(cmd_data)
        /\ shell' = IF is_running THEN "read" ELSE "over"
        /\ answer' = IF is_running THEN RenderOutput ELSE answer
        /\ cmd_data' = NoCommand /\ ret' = NoOutput
        /\ UNCHANGED <<base, commands, is_running, line, from, crashed>>
    BY DEF DefaultEnds
  <1>2. /\ answer = NoAnswer /\ line \notin {"help", "blank", "EOF"}
        /\ Available(line) => cmd_data = ResolveCommand(line) /\ ~Exits(line)
        /\ ~Available(line) => cmd_data = NoCommand /\ Refusal # "raises"
        /\ IF Source.is = "handler"
           THEN ret.is \in {"verbatim", "none", "error"} /\ (crashed <=> ret.is = "error")
           ELSE prompt = from /\ ret = Source /\ ~crashed
    BY <1>1 DEF Decided
  <1>3. Stands
    BY <1>1, TableStands
  <1>4. Source.is = "handler" <=> IF Available(line) THEN Handled(line) ELSE Refusal = "handler"
    BY <1>2, HandlerIsSource
  <1>5. Available(line) =>
          /\ \A attribute : attribute \in DOMAIN cmd_data <=> Has(line, attribute)
          /\ \A attribute : Has(line, attribute) => cmd_data[attribute] = Of(line, attribute)
          /\ IsCommand(cmd_data)
    BY <1>2, Resolution, ResolvedIsCommand DEF Available, Resolves, ShellTypeOK
  <1>6. ~Available(line) => NewPrompt(cmd_data) = prompt
    BY <1>2 DEF NewPrompt, NoCommand
  <1>a. Source.is # "handler" => Source.is \in {"none", "text"}
    <2>1. CASE Available(line) /\ Has(line, "output")
      BY <1>5, <2>1 DEF Source, IsCommand, Output
    <2>2. CASE Available(line) /\ ~Has(line, "output")
      BY <2>2 DEF Source, NoOutput
    <2>3. CASE ~Available(line)
      BY <1>2, <2>3 DEF Source, Refusal, ShellTypeOK, IsTable, IsCommand, Output
    <2> QED BY <2>1, <2>2, <2>3
  <1>7. answer'.is \in {"nothing", "text", "error"} /\ answer'.help = {}
        /\ (answer'.is = "text" => ret.is \in {"text", "verbatim"})
        /\ (answer'.is = "error" => ret.is = "error")
        /\ (is_running /\ ret.is = "error" => answer'.is = "error")
        /\ (is_running /\ ret.is = "text" => answer'.is = "text")
        /\ (is_running /\ ret.is = "text" =>
              answer'.shown = IF FormatFails(ret.text) THEN Plain(ret.text) ELSE Rendered(ret.text))
    <2>1. ret.is \in {"none", "text", "verbatim", "error"}
      BY <1>2, <1>a
    <2>2. CASE is_running
      BY <1>1, <2>1, <2>2 DEF RenderOutput, NoAnswer
    <2>3. CASE ~is_running
      BY <1>1, <1>2, <2>3 DEF NoAnswer
    <2> QED BY <2>2, <2>3
  <1>8. ShellTypeOK'
    <2>1. prompt'.text \in Text \cup {""} /\ prompt'.base \in {<<>>, base}
      <3>1. "new_prompt" \in DOMAIN cmd_data => cmd_data.new_prompt \in Template
        BY <1>2, <1>5 DEF IsCommand, NoCommand
      <3> QED BY <1>1, <3>1, NewPromptTyped
    <2>2. DOMAIN cmd_data' \subseteq Attribute /\ ret'.is = "none"
      BY <1>1 DEF NoCommand, NoOutput
    <2>3. shell' \in {"read", "over"}
      BY <1>1
    <2> QED BY <1>1, <1>7, <2>1, <2>2, <2>3 DEF ShellTypeOK
  <1>9. Decided'
    BY <1>1 DEF Decided
  <1>10. HelpIsTrue'
    BY <1>7 DEF HelpIsTrue
  <1>11. CrashIsAnswered'
    <2>1. answer'.is = "error" =>
            crashed /\ IF Available(line) THEN Handled(line) ELSE Refusal = "handler"
      BY <1>2, <1>4, <1>7, <1>a
    <2>2. shell' = "read" /\ crashed => answer'.is = "error"
      BY <1>1, <1>2, <1>7
    <2> QED BY <1>1, <1>3, <2>1, <2>2 DEF CrashIsAnswered, Stands
  <1>12. RefusedLeavesMode'
    <2> SUFFICES ASSUME ~Available(line), Refusal # "handler"
                 PROVE  /\ prompt' = from
                        /\ shell' = "read" => (answer'.is = "text" <=> Refusal = "text")
                        /\ shell' = "over" => ~is_running
      BY <1>1, <1>3 DEF RefusedLeavesMode, Stands
    <2>1. prompt = from /\ ret = Source
      BY <1>2, <1>4
    <2>2. Source.is = Refusal
      BY <1>2 DEF Source, Refusal
    <2> QED BY <1>1, <1>6, <1>7, <1>a, <2>1, <2>2
  <1>13. CommandHasItsEffect'
    <2> SUFFICES ASSUME Available(line)
                 PROVE  /\ shell' = "over" => ~is_running
                        /\ Has(line, "new_prompt") /\ Of(line, "new_prompt").how # "broken" =>
                             prompt' = Rendered(Of(line, "new_prompt"))
                        /\ ~Has(line, "new_prompt") /\ ~Handled(line) => prompt' = from
                        /\ shell' = "read" /\ Has(line, "output") /\ Of(line, "output").is = "text" =>
                             answer'.shown = IF Of(line, "output").text.how = "broken"
                                             THEN Plain(Of(line, "output").text)
                                             ELSE Rendered(Of(line, "output").text)
      BY <1>1, <1>2, <1>3 DEF CommandHasItsEffect, Stands, Plain
    <2>1. shell' = "over" => ~is_running
      BY <1>1
    <2>2. /\ Has(line, "new_prompt") /\ Of(line, "new_prompt").how # "broken" =>
               prompt' = Rendered(Of(line, "new_prompt"))
          /\ ~Has(line, "new_prompt") => prompt' = prompt
      <3>1. "new_prompt" \in DOMAIN cmd_data <=> Has(line, "new_prompt")
        BY <1>5
      <3>2. Has(line, "new_prompt") => cmd_data.new_prompt = Of(line, "new_prompt")
        BY <1>5
      <3> QED BY <1>1, <3>1, <3>2 DEF NewPrompt, FormatFails
    <2>3. ~Has(line, "new_prompt") /\ ~Handled(line) => prompt' = from
      BY <1>2, <1>4, <2>2
    <2>4. ASSUME shell' = "read", Has(line, "output"), Of(line, "output").is = "text"
          PROVE  answer'.shown = IF Of(line, "output").text.how = "broken"
                                 THEN Plain(Of(line, "output").text)
                                 ELSE Rendered(Of(line, "output").text)
      <3>1. Source = Of(line, "output") /\ is_running
        BY <1>1, <2>4 DEF Source
      <3>2. ret = Of(line, "output")
        BY <1>2, <2>4, <3>1
      <3> QED BY <1>7, <2>4, <3>1, <3>2 DEF FormatFails
    <2> QED BY <2>1, <2>2, <2>3, <2>4
  <1> QED BY <1>8, <1>9, <1>10, <1>11, <1>12, <1>13 DEF AnswersByMode

-----------------------------------------------------------------------------
(* The composition.                                                        *)

LEMMA ConstructorStutters ==
  ASSUME ConstructorInv, UNCHANGED inventoryVars
  PROVE  ConstructorInv'
  BY DEF inventoryVars, ConstructorInv, ConstructorTypeOK, Pending, PortsOwned,
         HostPort, Port, Entries, Default

LEMMA ProgressStutters ==
  ASSUME Progress, UNCHANGED inventoryVars
  PROVE  Progress'
  <1>1. UNCHANGED <<inventory, at, entry, made, hosts, allocated_ports>>
    BY DEF inventoryVars
  <1>2. Entries' = Entries
        /\ \A e : /\ Replicas(e)' = Replicas(e)
                  /\ Fits(e)' <=> Fits(e)
                  /\ GoodHost(e)' <=> GoodHost(e)
    BY <1>1, Fixed
  <1>3. Settled' = Settled
    BY <1>1, <1>2 DEF Settled
  <1>4. Reached' = Reached
    BY <1>1, <1>3 DEF Reached
  <1>5. ASSUME EntriesPassed PROVE EntriesPassed'
    <2>1. ModelSimnosInventory'
      BY <1>1, <1>5, Fixed DEF EntriesPassed
    <2> QED BY <1>1, <1>2, <1>5, <2>1 DEF EntriesPassed
  <1>6. ASSUME PortsTaken, NamesTaken PROVE PortsTaken' /\ NamesTaken'
    BY <1>1, <1>3, <1>4, <1>6, SettledStays
  <1> QED BY <1>1, <1>5, <1>6, Fixed DEF Progress

LEMMA ShellStutters ==
  ASSUME ShellInv, UNCHANGED shellVars
  PROVE  ShellInv'
  <1> USE DEF ShellInv
  <1>1. UNCHANGED <<base, commands, prompt, is_running, shell, line, cmd_data, ret, from,
                    crashed, answer>>
    BY DEF shellVars, dispatchVars
  <1>2. Stands
    BY <1>1, TableStands
  <1>3. ShellTypeOK'
    <2>1. /\ prompt'.text \in Text \cup {""} /\ prompt'.base \in {<<>>, base'}
          /\ IsTable(commands') /\ "_default_" \in DOMAIN commands'
      BY <1>1 DEF ShellTypeOK
    <2>2. /\ is_running' \in BOOLEAN /\ crashed' \in BOOLEAN
          /\ shell' \in {"none", "read", "onecmd", "invoke", "finish", "over"}
          /\ line' \in Typed \cup {"help", "blank", "EOF"}
      BY <1>1 DEF ShellTypeOK
    <2>3. /\ DOMAIN cmd_data' \subseteq Attribute
          /\ ret'.is \in {"none", "text", "handler", "verbatim", "error"}
          /\ answer'.is \in {"nothing", "text", "error", "help"}
          /\ answer'.help \subseteq DOMAIN commands'
      BY <1>1 DEF ShellTypeOK
    <2> QED BY <2>1, <2>2, <2>3 DEF ShellTypeOK
  <1>4. Decided'
    BY <1>1, <1>2 DEF Stands, Decided, Source
  <1>5. RefusedLeavesMode'
    BY <1>1, <1>2 DEF Stands, RefusedLeavesMode, Answered, AnswersByMode
  <1>6. CommandHasItsEffect'
    BY <1>1, <1>2 DEF Stands, CommandHasItsEffect, Answered, AnswersByMode, Plain
  <1>7. CrashIsAnswered'
    BY <1>1, <1>2 DEF Stands, CrashIsAnswered, Answered, AnswersByMode
  <1>8. HelpIsTrue'
    BY <1>1, <1>2 DEF Stands, HelpIsTrue, AnswersByMode
  <1> QED BY <1>3, <1>4, <1>5, <1>6, <1>7, <1>8 DEF AnswersByMode

HostingInv ==
  /\ ConstructorInv /\ Progress /\ ShellInv
  /\ host = <<>> \/ host \in DOMAIN hosts
  /\ shell # "none" => at = "done"

LEMMA Starts == Init => HostingInv
  <1> SUFFICES ASSUME Init PROVE HostingInv
    OBVIOUS
  <1>1. ConstructorInv /\ Progress
    BY ConstructorStarts, ProgressStarts DEF Init
  <1>2. ShellTypeOK
    <2>1. answer.is = "nothing" /\ answer.help = {} /\ ret.is = "none"
      BY DEF Init, NoAnswer, NoOutput
    <2>2. "_default_" \in DOMAIN commands /\ DOMAIN cmd_data \subseteq Attribute
      BY DEF Init, BASIC_COMMANDS, NoCommand
    <2> QED BY <2>1, <2>2, SomeTables DEF Init, ShellTypeOK
  <1>3. Decided
    BY DEF Init, Decided
  <1>4. AnswersByMode
    <2>1. answer.is = "nothing" /\ ~Answered
      BY DEF Init, NoAnswer, Answered
    <2> QED BY <2>1 DEF AnswersByMode, RefusedLeavesMode, CommandHasItsEffect, CrashIsAnswered,
                        HelpIsTrue, Init
  <1> QED BY <1>1, <1>2, <1>3, <1>4 DEF HostingInv, ShellInv, Init

LEMMA Keeps ==
  ASSUME HostingInv, [Next]_vars
  PROVE  HostingInv'
  <1> USE DEF HostingInv
  <1>1. CASE Construct /\ UNCHANGED <<shellVars, host>>
    <2>1. ConstructorInv' /\ Progress'
      BY <1>1, ConstructorKeeps, ConstructorProgress DEF ConstructorInv
    <2>2. ShellInv'
      BY <1>1, ShellStutters
    <2>3. shell = "none" /\ shell' = "none"
      BY <1>1 DEF shellVars, Construct, LoadInventory, CheckEntry, AllocatePort, CreateHost,
                  NextEntry, Finish
    <2>4. DOMAIN hosts \subseteq DOMAIN hosts'
      BY <1>1 DEF Construct, LoadInventory, CheckEntry, AllocatePort, CreateHost, NextEntry,
                  Finish
    <2> QED BY <1>1, <2>1, <2>2, <2>3, <2>4
  <1>2. CASE Connect
    <2>1. at = "done" /\ shell = "none" /\ host' \in DOMAIN hosts /\ UNCHANGED inventoryVars
      BY <1>2 DEF Connect
    <2>2. ConstructorInv' /\ Progress'
      BY <2>1, ConstructorStutters, ProgressStutters
    <2>3. PICK nos \in NosTables, own \in InventoryTables, initial \in InitialPrompts :
            NewShell(BasePrompt(host'), nos, own, initial)
      BY <1>2 DEF Connect
    <2>4. ShellInv'
      BY <2>1, <2>3, NewShellKeeps
    <2> QED BY <2>1, <2>2, <2>4 DEF inventoryVars
  <1>3. CASE ShellStep /\ UNCHANGED <<inventoryVars, host>>
    <2>1. ConstructorInv' /\ Progress'
      BY <1>3, ConstructorStutters, ProgressStutters
    <2>2. ShellInv'
      BY <1>3, ReadLineKeeps, StopKeeps, NoCommandKeeps, HelpKeeps, MatchesKeeps, RefusesKeeps,
         InvokeKeeps, EndsKeeps DEF ShellStep
    <2>3. shell # "none"
      BY <1>3 DEF ShellStep, ReadLine, ServerStop, EmptyLine, DoEOF, DoHelp, DefaultMatches,
                  DefaultRefuses, Dispatching, InvokeCallable, DefaultEnds
    <2> QED BY <1>3, <2>1, <2>2, <2>3 DEF inventoryVars
  <1>4. CASE UNCHANGED vars
    <2>1. ConstructorInv' /\ Progress'
      BY <1>4, ConstructorStutters, ProgressStutters DEF vars
    <2>2. ShellInv'
      BY <1>4, ShellStutters DEF vars
    <2> QED BY <1>4, <2>1, <2>2 DEF vars, inventoryVars, shellVars
  <1> QED BY <1>1, <1>2, <1>3, <1>4 DEF Next

LEMMA Invariant == Spec => []HostingInv
  BY Starts, Keeps, PTL DEF Spec

(* Every variable keeps its type, for all inventories, platforms, tables   *)
(* and handlers of the types that the assumptions name.                    *)
THEOREM TypeCorrect == Spec => []TypeOK
  <1>1. HostingInv => TypeOK
    BY DEF HostingInv, ConstructorInv, ShellInv, TypeOK
  <1> QED BY <1>1, Invariant, PTL

(* No two hosts ever share a port (SimNOS._allocate_port), however many    *)
(* entries and replicas there are, where replicas overwrite hosts too.     *)
THEOREM PortsCorrect == Spec => []PortsOwned
  <1>1. HostingInv => PortsOwned
    BY DEF HostingInv, ConstructorInv
  <1> QED BY <1>1, Invariant, PTL

(* SimNOS.__init__ raises for exactly the inventories that no fleet fits,  *)
(* however large, and otherwise makes the hosts they declare, with their   *)
(* ports (_check_ports_and_replicas, _get_hosts_and_ports).                *)
THEOREM DecidesCorrect == Spec => []InventoryDecides
  <1>1. HostingInv => InventoryDecides
    BY ProgressDecides DEF HostingInv, ConstructorInv
  <1> QED BY <1>1, Invariant, PTL

(* For all tables, reloads and handlers a line does what the table says of *)
(* it for the mode it was typed in (CMDShell.default, do_help).            *)
THEOREM AnswersCorrect == Spec => []AnswersByMode
  <1>1. HostingInv => AnswersByMode
    BY DEF HostingInv, ShellInv
  <1> QED BY <1>1, Invariant, PTL

-----------------------------------------------------------------------------
(* The name in a prompt.                                                   *)

(* An entry whose turn has come to a host has its base prompt, which is    *)
(* the inventory's or the name of the entry's first host.                  *)
FirstName(i) ==
  IF Shell(Entries[i]) = "named" THEN base_prompt[i].is = Configured
                                 ELSE base_prompt[i].is = "name"
                                      /\ base_prompt[i].of = HostName(Entries[i], 1)

NamesInv ==
  /\ \A i \in DOMAIN Entries : base_prompt[i].is # Unset => FirstName(i)
  /\ at \in {"allocate", "host"} /\ made # 0 => base_prompt[entry].is # Unset
  /\ \A n \in DOMAIN hosts :
       /\ hosts[n].entry \in DOMAIN Entries
       /\ base_prompt[hosts[n].entry].is # Unset
       /\ Entries[hosts[n].entry].replicas.is # "int" => n = HostName(Entries[hosts[n].entry], 1)
  /\ shell # "none" => host \in DOMAIN hosts /\ base = BasePrompt(host)

LEMMA CreateNames ==
  ASSUME HostingInv, NamesInv, CreateHost, UNCHANGED <<shellVars, host>>
  PROVE  NamesInv'
  <1> DEFINE e    == Entries[entry]
             name == HostName(e, made + 1)
             new  == [port |-> HostPort(e, made + 1), entry |-> entry]
  <1>1. /\ at = "host" /\ shell = "none" /\ shell' = "none"
        /\ entry \in DOMAIN Entries /\ DOMAIN base_prompt = DOMAIN Entries
        /\ UNCHANGED <<inventory, entry>>
    BY DEF HostingInv, ConstructorInv, ConstructorTypeOK, Pending, CreateHost, shellVars
  <1>2. /\ Entries' = Entries
        /\ \A f : Shell(f)' = Shell(f) /\ HostName(f, 1)' = HostName(f, 1)
    BY <1>1 DEF Entries, Default, Shell, HostName
  <1>3. CASE at' = "failed" /\ UNCHANGED <<made, hosts, base_prompt>>
    BY <1>1, <1>2, <1>3 DEF NamesInv, FirstName
  <1>4. CASE /\ Shell(e) \in {"plain", "named"}
             /\ hosts' = [n \in DOMAIN hosts \cup {name} |-> IF n = name THEN new ELSE hosts[n]]
             /\ base_prompt' = [base_prompt EXCEPT ![entry] = SetDefault(e, name)]
    <2>1. base_prompt[entry].is = Unset => name = HostName(e, 1)
      BY <1>1 DEF NamesInv, HostName
    <2>2. /\ base_prompt'[entry] = SetDefault(e, name)
          /\ \A i \in DOMAIN Entries : i # entry => base_prompt'[i] = base_prompt[i]
      BY <1>1, <1>4
    <2>3. base_prompt[entry].is # Unset => FirstName(entry)
      BY <1>1 DEF NamesInv
    <2>4. base_prompt'[entry].is # Unset /\ FirstName(entry)'
      <3>1. CASE Shell(e) = "named"
        BY <1>1, <1>2, <2>2, <3>1 DEF SetDefault, FirstName, Configured, Unset
      <3>2. CASE Shell(e) = "plain" /\ base_prompt[entry].is = Unset
        BY <1>1, <1>2, <2>1, <2>2, <3>2 DEF SetDefault, FirstName, Unset
      <3>3. CASE Shell(e) = "plain" /\ base_prompt[entry].is # Unset
        BY <1>1, <1>2, <2>2, <2>3, <3>3 DEF SetDefault, FirstName
      <3> QED BY <1>4, <3>1, <3>2, <3>3
    <2>5. \A i \in DOMAIN Entries' : base_prompt'[i].is # Unset => FirstName(i)'
      <3>1. ASSUME NEW i \in DOMAIN Entries, i # entry, base_prompt'[i].is # Unset
            PROVE  FirstName(i)'
        <4>1. base_prompt'[i] = base_prompt[i] /\ FirstName(i)
          BY <2>2, <3>1 DEF NamesInv
        <4> QED BY <1>2, <4>1 DEF FirstName
      <3> QED BY <1>1, <1>2, <2>4, <3>1 DEF FirstName
    <2>6. ASSUME NEW n \in DOMAIN hosts'
          PROVE  /\ hosts'[n].entry \in DOMAIN Entries
                 /\ base_prompt'[hosts'[n].entry].is # Unset
                 /\ Entries[hosts'[n].entry].replicas.is # "int" =>
                      n = HostName(Entries[hosts'[n].entry], 1)
      <3>1. CASE n = name
        <4>1. hosts'[n].entry = entry
          BY <1>4, <3>1
        <4>2. e.replicas.is # "int" => name = HostName(e, 1)
          BY DEF HostName
        <4> QED BY <1>1, <2>4, <3>1, <4>1, <4>2
      <3>2. CASE n # name
        <4>1. n \in DOMAIN hosts /\ hosts'[n] = hosts[n]
          BY <1>4, <2>6, <3>2
        <4> HIDE DEF name
        <4> QED BY <2>2, <2>4, <4>1 DEF NamesInv
      <3> QED BY <3>1, <3>2
    <2> QED BY <1>1, <1>2, <2>4, <2>5, <2>6 DEF NamesInv
  <1> QED BY <1>3, <1>4 DEF CreateHost

(* Every other step leaves the hosts and the base prompts alone.           *)
LEMMA OtherNames ==
  ASSUME NamesInv, UNCHANGED <<inventory, hosts, base_prompt>>,
         at' \in {"allocate", "host"} /\ made' # 0 =>
           at \in {"allocate", "host"} /\ made # 0 /\ entry' = entry,
         shell' # "none" => host' \in DOMAIN hosts /\ base' = BasePrompt(host')
  PROVE  NamesInv'
  <1>1. /\ Entries' = Entries
        /\ \A f : Shell(f)' = Shell(f) /\ HostName(f, 1)' = HostName(f, 1)
        /\ BasePrompt(host)' = BasePrompt(host')
    BY DEF Entries, Default, Shell, HostName, BasePrompt
  <1>2. \A i : FirstName(i)' <=> FirstName(i)
    BY <1>1 DEF FirstName
  <1> QED BY <1>1, <1>2 DEF NamesInv

LEMMA KeepsNames ==
  ASSUME HostingInv, NamesInv, [Next]_vars
  PROVE  NamesInv'
  <1>1. CASE CreateHost /\ UNCHANGED <<shellVars, host>>
    BY <1>1, CreateNames
  <1>2. CASE /\ LoadInventory \/ CheckEntry \/ AllocatePort \/ NextEntry \/ Finish
             /\ UNCHANGED <<shellVars, host>>
    <2>1. UNCHANGED <<inventory, hosts, base_prompt>> /\ shell' = "none"
      BY <1>2 DEF HostingInv, LoadInventory, CheckEntry, AllocatePort, NextEntry, Finish, shellVars
    <2>2. at' \in {"allocate", "host"} /\ made' # 0 =>
            at \in {"allocate", "host"} /\ made # 0 /\ entry' = entry
      BY <1>2 DEF LoadInventory, CheckEntry, AllocatePort, NextEntry, Finish
    <2> QED BY <2>1, <2>2, OtherNames
  <1>3. CASE Connect
    <2>1. UNCHANGED inventoryVars /\ host' \in DOMAIN hosts /\ base' = BasePrompt(host')
      BY <1>3 DEF Connect, NewShell
    <2> QED BY <2>1, OtherNames DEF inventoryVars
  <1>4. CASE (ShellStep \/ UNCHANGED shellVars) /\ UNCHANGED <<inventoryVars, host>>
    <2>1. UNCHANGED base /\ shell' # "none" => shell # "none"
      BY <1>4 DEF ShellStep, ReadLine, ServerStop, EmptyLine, DoEOF, DoHelp, DefaultMatches,
                  DefaultRefuses, Dispatching, InvokeCallable, DefaultEnds, shellVars
    <2>2. UNCHANGED base
      BY <1>4 DEF ShellStep, ReadLine, ServerStop, EmptyLine, DoEOF, DoHelp, DefaultMatches,
                  DefaultRefuses, Dispatching, InvokeCallable, DefaultEnds, shellVars
    <2> QED BY <1>4, <2>1, <2>2, OtherNames DEF inventoryVars, NamesInv
  <1> QED BY <1>1, <1>2, <1>3, <1>4 DEF Next, Construct, vars

(* Where the inventory names no base prompt, all hosts of an entry prompt  *)
(* with the name of the first of them, whatever the templates and however  *)
(* the prompt changes; so that a host without replicas prompts with its    *)
(* own (Host.__init__, _instantiate_host_object).                          *)
THEOREM PromptsCorrect == Spec => []PromptNamesFirst
  <1>1. ASSUME Init PROVE NamesInv
    <2>1. DOMAIN hosts = {} /\ at = "load" /\ shell = "none"
      BY <1>1 DEF Init, ConstructorInit
    <2>2. \A i \in DOMAIN Entries : base_prompt[i].is = Unset
      BY <1>1 DEF Init, ConstructorInit
    <2> QED BY <2>1, <2>2 DEF NamesInv
  <1>2. HostingInv /\ NamesInv => PromptNamesFirst
    <2> SUFFICES ASSUME HostingInv, NamesInv, shell # "none" PROVE PromptNamesFirst
      BY DEF PromptNamesFirst
    <2> DEFINE i == hosts[host].entry
    <2>1. /\ host \in DOMAIN hosts /\ i \in DOMAIN Entries /\ base_prompt[i].is # Unset
          /\ base = BasePrompt(host)
          /\ Entries[i].replicas.is # "int" => host = HostName(Entries[i], 1)
      BY DEF NamesInv
    <2>2. FirstName(i)
      BY <2>1 DEF NamesInv
    <2>3. base = IF Shell(Entries[i]) = "named" THEN ConfiguredName ELSE HostName(Entries[i], 1)
      BY <2>1, <2>2 DEF FirstName, BasePrompt, Configured
    <2>4. prompt.base \in {<<>>, base}
      BY DEF HostingInv, ShellInv, ShellTypeOK
    <2> QED BY <2>1, <2>3, <2>4 DEF PromptNamesFirst
  <1>3. HostingInv /\ NamesInv /\ [Next]_vars => NamesInv'
    BY KeepsNames
  <1> QED BY <1>1, <1>2, <1>3, Invariant, PTL DEF Spec
=============================================================================
