----------------------------- MODULE MCHosting -----------------------------
(* Inventories of up to two entries, whose replicas may have the name of   *)
(* the other entry, over ports 1 to 4; and a platform with one command of  *)
(* any kind and an alias of any kind.                                      *)
EXTENDS Hosting

CONSTANT r

absent == [is |-> "absent", of |-> <<>>]
null   == [is |-> "null", of |-> <<>>]
int(p) == [is |-> "int", of |-> <<p>>]
list(s) == [is |-> "list", of |-> s]

once     == [is |-> "absent", of |-> 0]
times(n) == [is |-> "int", of |-> n]

AnyPort     == {absent, null, int(0), int(1), int(4), int(5), list(<<>>), list(<<1>>),
                list(<<1, 1>>), list(<<1, 2>>), list(<<2, 1>>), list(<<1, 3>>),
                list(<<3, 4>>), list(<<4, 5>>)}
AnyReplicas == {once, [is |-> "null", of |-> 0], times(0), times(1), times(2), times(3)}

Bare(name, port, replicas) ==
  [name |-> name, port |-> port, replicas |-> replicas, platform |-> "absent", shell |-> "absent"]

First  == {Bare(<<r>>, p, n) : p \in AnyPort, n \in AnyReplicas}
Second == {Bare(<<r, 1>>, p, n) : p \in {absent, int(1), int(4), list(<<2, 3>>)},
                                    n \in {once, times(2)}}
          \cup {[Bare(<<r, 1>>, int(4), once) EXCEPT !.platform = pl, !.shell = sh] :
                  pl \in {"absent", "null", "known", "unknown"},
                  sh \in {"absent", "null", "plain", "named", "bare"}}

Defaulting(port, platform, shellSection) ==
  [port |-> port, platform |-> platform, shell |-> shellSection]
Defaults == {Defaulting(int(4), "absent", "plain"), Defaulting(list(<<3, 4>>), "absent", "plain"),
             Defaulting(list(<<4, 5>>), "absent", "plain"),
             Defaulting(null, "unknown", "bare"), Defaulting(int(3), "known", "named")}

MCInventories ==
  [default : Defaults,
   hosts : {<<>>} \cup {<<e>> : e \in First} \cup {<<e, f>> : e \in First, f \in Second}
           \cup {<<f, e>> : e \in First, f \in Second}]

-----------------------------------------------------------------------------
user   == [text |-> "user", how |-> "named"]
enable == [text |-> "enable", how |-> "named"]
broken == [text |-> "broken", how |-> "broken"]
fixed  == [text |-> "fixed", how |-> "fixed"]

text(template) == [is |-> "text", text |-> template]
handler        == [is |-> "handler", text |-> fixed]

(* All combinations of the attributes, each with one of its values or      *)
(* without it.                                                             *)
With(attribute, values) == {[a \in {attribute} |-> v] : v \in values} \cup {NoCommand}
Both(some, others) == {Updated(a, b) : a \in some, b \in others}

SomeCommand ==
  Both(With("prompt", {{user}, {enable, broken}}),
       Both(With("output", {text(user), text(broken), handler}),
            With("new_prompt", {enable, broken})))
  \cup Both(With("prompt", {{user}}), With("exit", {TRUE}))
SomeAlias ==
  Both({[alias |-> "command"]},
       Both(With("prompt", {{enable}}), With("new_prompt", {user})))
  \cup {[alias |-> "gone"], [alias |-> "command", exit |-> FALSE], [alias |-> "alias"],
           [alias |-> "command", prompt |-> AnyMode],
           [alias |-> "command", output |-> [is |-> "none", text |-> fixed]]}

Table(command, alias, default) ==
  [name \in {"command", "alias", "_default_"} |->
     CASE name = "command" -> command [] name = "alias" -> alias [] name = "_default_" -> default]

Unknown == [output |-> text(user), prompt |-> {user}]
Simple  == [prompt |-> {user}, output |-> text(user), new_prompt |-> enable]

MCNosTables ==
  {Table(c, [alias |-> "command"], Unknown) : c \in SomeCommand}
  \cup {Table(Simple, a, Unknown) : a \in SomeAlias}
  \cup {Table(Simple, [alias |-> "command"], [output |-> handler]),
        [name \in {"command"} |-> Simple]}
MCReloadTables ==
  {Table([exit |-> TRUE], [alias |-> "command", prompt |-> {enable}],
         [prompt |-> {user}])}
MCInventoryTables == {NoCommand, [name \in {"exit"} |-> [output |-> text(enable)]]}
MCHandlerResults ==
  {[output |-> broken], [new_prompt |-> enable], [new_prompt |-> broken, output |-> fixed],
   [exit |-> TRUE, new_prompt |-> user]}
MCInitialPrompts == {user, broken}
MCTyped == {"command", "alias", "exit", "_default_", "unknown"}

(* Once a client is connected nothing reads the inventory's variables: the *)
(* host and its base prompt are all that matters of them.                  *)
View == IF shell = "none" THEN <<inventoryVars>> ELSE <<shellVars, host>>
=============================================================================
