------------------------------ MODULE Hosting ------------------------------
(***************************************************************************)
(* From an inventory to what its hosts answer: SimNOS.__init__ makes the   *)
(* hosts (Inventory), and a client of one of them types into a shell that  *)
(* was given the host's shell configuration (Dispatch).                    *)
(***************************************************************************)
EXTENDS Inventory, Dispatch

VARIABLE host   \* the host the client is connected to, <<>> before that

vars == <<inventoryVars, shellVars, host>>

TypeOK == /\ ConstructorTypeOK /\ ShellTypeOK
          /\ host = <<>> \/ host \in DOMAIN hosts

Init ==
  /\ ConstructorInit
  /\ base = <<>> /\ commands = BASIC_COMMANDS /\ prompt = [text |-> "", base |-> <<>>]
  /\ is_running = TRUE /\ shell = "none" /\ line = "blank"
  /\ cmd_data = NoCommand /\ ret = NoOutput
  /\ from = [text |-> "", base |-> <<>>] /\ crashed = FALSE /\ answer = NoAnswer
  /\ host = <<>>

(* Stands for a base prompt that the inventory names.                      *)
ConfiguredName == <<"configured">>

BasePrompt(name) == LET value == base_prompt[hosts[name].entry]
                    IN IF value.is = "name" THEN value.of ELSE ConfiguredName

(* Host.start passes the shell configuration on, the server makes a shell. *)
Connect ==
  /\ at = "done" /\ shell = "none"
  /\ host' \in DOMAIN hosts
  /\ \E nos \in NosTables, own \in InventoryTables, initial \in InitialPrompts :
       NewShell(BasePrompt(host'), nos, own, initial)
  /\ UNCHANGED inventoryVars

Next == \/ Construct /\ UNCHANGED <<shellVars, host>>
        \/ Connect
        \/ ShellStep /\ UNCHANGED <<inventoryVars, host>>

Spec == Init /\ [][Next]_vars

-----------------------------------------------------------------------------
(* creating_nos_plugin.md:27: "if the initial prompt is set to             *)
(* `{base_prompt}>`, after applying the format method, the final prompt    *)
(* will be `R1>` for the host `R1` in the inventory."                      *)
PromptNamesHost ==
  shell # "none" /\ prompt.base # <<>> => prompt.base \in {host, ConfiguredName}

(* What the code does instead: where the inventory names no base prompt,   *)
(* a prompt has the name of the first host of its entry (host.py:46), and  *)
(* that is the host itself in an entry without replicas.                   *)
PromptNamesFirst ==
  shell # "none" =>
    LET e == Entries[hosts[host].entry]
    IN /\ prompt.base \in {<<>>, IF Shell(e) = "named" THEN ConfiguredName ELSE HostName(e, 1)}
       /\ e.replicas.is # "int" => HostName(e, 1) = host
=============================================================================
