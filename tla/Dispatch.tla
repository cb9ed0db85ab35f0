------------------------------ MODULE Dispatch ------------------------------
(***************************************************************************)
(* What a shell does with a line (plugins/shell/cmd_shell.py): the table   *)
(* of commands, aliases, modes told apart by the prompt, handlers, the     *)
(* help, and the places where an error of a platform's author is           *)
(* tolerated.                                                              *)
(*                                                                         *)
(* A template is a text that mentions {base_prompt} ("named"), one that    *)
(* does not ("fixed"), or one that str.format() rejects ("broken").  A     *)
(* command is a function from the attributes it has.  A null alias is that *)
(* of a missing target, a null new_prompt a broken template, a null exit   *)
(* FALSE, a null output "none" and a null prompt AnyMode: an alias that    *)
(* has one of these has it instead of its target's.                        *)
(***************************************************************************)
EXTENDS Naturals, Sequences, FiniteSets

CONSTANTS Text,            \* the texts of templates
          NosTables,       \* commands a platform may define
          ReloadTables,    \* commands a changed platform may define
          InventoryTables, \* commands the inventory may define
          InitialPrompts,  \* initial_prompt of a platform: templates
          HandlerResults,  \* what a handler may return
          Typed            \* the lines clients type: names of commands or not

Template  == [text : Text, how : {"named", "fixed", "broken"}]
Attribute == {"alias", "prompt", "new_prompt", "exit", "output"}
AnyMode   == {[text |-> "", how |-> "any"]}
Output    == [is : {"none", "text", "handler"}, text : Template]

IsCommand(command) ==
  /\ DOMAIN command \subseteq Attribute
  /\ "prompt" \in DOMAIN command => command.prompt \in (SUBSET Template) \cup {AnyMode}
  /\ "new_prompt" \in DOMAIN command => command.new_prompt \in Template
  /\ "exit" \in DOMAIN command => command.exit \in BOOLEAN
  /\ "output" \in DOMAIN command => command.output \in Output
IsTable(table) == \A name \in DOMAIN table : IsCommand(table[name])

IsResult(result) ==
  /\ "exit" \in DOMAIN result => result.exit \in BOOLEAN
  /\ "new_prompt" \in DOMAIN result => result.new_prompt \in Template
  /\ "output" \in DOMAIN result => result.output \in Template

ASSUME TextAssumption == "unknown" \in Text
ASSUME TablesAssumption ==
  \A table \in NosTables \cup ReloadTables \cup InventoryTables : IsTable(table)
ASSUME PromptsAssumption == InitialPrompts \subseteq Template
ASSUME ResultsAssumption == \A result \in HandlerResults : IsResult(result)

VARIABLES
  base,        \* the shell's base_prompt
  commands,    \* its commands
  prompt,      \* its prompt, as the client sees it
  is_running,  \* the server has not been stopped
  shell,       \* where the shell is
  line,        \* the line it was given
  cmd_data,    \* the command it runs
  ret,         \* the output it is about to write
  from,        \* history: the prompt the line was typed at
  crashed,     \* history: a handler raised for this line
  answer       \* history: what was written for it

dispatchVars == <<cmd_data, ret, from, crashed, answer>>
shellVars == <<base, commands, prompt, is_running, shell, line, dispatchVars>>

NoText   == [text |-> "", how |-> "fixed"]
NoOutput == [is |-> "none", text |-> NoText]
NoAnswer == [is |-> "nothing", shown |-> [text |-> "", base |-> <<>>], help |-> {}]

NoCommand == [attribute \in {} |-> 0]

BASIC_COMMANDS ==
  [name \in {"exit", "_default_"} |->
     IF name = "exit" THEN [exit |-> TRUE]
                      ELSE [output |-> [is |-> "text",
                                        text |-> [text |-> "unknown", how |-> "fixed"]]]]

(* {**old, **new}                                                          *)
Updated(old, new) ==
  [key \in DOMAIN old \cup DOMAIN new |-> IF key \in DOMAIN new THEN new[key] ELSE old[key]]

Plain(template)    == [text |-> template.text, base |-> <<>>]
Rendered(template) == [text |-> template.text,
                       base |-> IF template.how = "named" THEN base ELSE <<>>]

(* _safe_format returns None.                                              *)
FormatFails(template) == template.how = "broken"

ShellTypeOK ==
  /\ prompt.text \in Text \cup {""} /\ prompt.base \in {<<>>, base}
  /\ IsTable(commands) /\ "_default_" \in DOMAIN commands
  /\ is_running \in BOOLEAN /\ crashed \in BOOLEAN
  /\ shell \in {"none", "read", "onecmd", "invoke", "finish", "over"}
  /\ line \in Typed \cup {"help", "blank", "EOF"}
  /\ DOMAIN cmd_data \subseteq Attribute
  /\ ret.is \in {"none", "text", "handler", "verbatim", "error"}
  /\ answer.is \in {"nothing", "text", "error", "help"}
  /\ answer.help \subseteq DOMAIN commands

(* Mutant: only the tables of the platform and the inventory.              *)
NewShellBare(b, nos, own, initial) ==
  /\ base' = b
  /\ commands' = Updated(nos, own)
  /\ prompt' = IF FormatFails(initial) THEN Plain(initial)
               ELSE [text |-> initial.text, base |-> IF initial.how = "named" THEN b ELSE <<>>]
  /\ shell' = "read"
  /\ UNCHANGED <<is_running, line, dispatchVars>>

(* CMDShell.__init__: an initial prompt that does not format is shown raw. *)
NewShell(b, nos, own, initial) ==
  /\ base' = b
  /\ commands' = Updated(Updated(BASIC_COMMANDS, nos), own)
  /\ prompt' = IF FormatFails(initial) THEN Plain(initial)
               ELSE [text |-> initial.text, base |-> IF initial.how = "named" THEN b ELSE <<>>]
  /\ shell' = "read"
  /\ UNCHANGED <<is_running, line, dispatchVars>>

-----------------------------------------------------------------------------
(* A line comes, and with it what a reload has changed (see HotReload).    *)
ReadLine ==
  /\ shell = "read"
  /\ line' \in Typed \cup {"help", "blank", "EOF"}
  /\ \E changed \in ReloadTables \cup {NoCommand} : commands' = Updated(commands, changed)
  /\ shell' = "onecmd"
  /\ from' = prompt /\ answer' = NoAnswer /\ crashed' = FALSE
  /\ UNCHANGED <<base, prompt, is_running, cmd_data, ret>>

ServerStop ==
  /\ shell # "none" /\ is_running
  /\ is_running' = FALSE
  /\ UNCHANGED <<base, commands, prompt, shell, line, dispatchVars>>

EmptyLine ==
  /\ shell = "onecmd" /\ line = "blank"
  /\ shell' = "read"
  /\ UNCHANGED <<base, commands, prompt, is_running, line, dispatchVars>>

(* The end of the input, or the word typed.                                *)
DoEOF ==
  /\ shell = "onecmd" /\ line = "EOF"
  /\ shell' = "over"
  /\ UNCHANGED <<base, commands, prompt, is_running, line, dispatchVars>>

(* A candidate that does not format does not match.                        *)
CheckPrompt(command) ==
  "prompt" \in DOMAIN command =>
     \/ command.prompt = AnyMode
     \/ \E template \in command.prompt : ~FormatFails(template) /\ Rendered(template) = prompt

(* The commands of the current mode, without the special ones; the help of *)
(* an alias goes by what the alias itself says of its mode.                *)
DoHelp ==
  /\ shell = "onecmd" /\ line = "help"
  /\ answer' = [NoAnswer EXCEPT !.is = "help",
                  !.help = {name \in DOMAIN commands \ {"_default_"} : CheckPrompt(commands[name])}]
  /\ shell' = "read"
  /\ UNCHANGED <<base, commands, prompt, is_running, line, cmd_data, ret, from, crashed>>

-----------------------------------------------------------------------------
(* default()                                                               *)

(* An alias takes from its target, and from it alone, what it does not say *)
(* itself.  One without target is no command.                              *)
Resolves(name) ==
  /\ name \in DOMAIN commands
  /\ "alias" \in DOMAIN commands[name] => commands[name].alias \in DOMAIN commands

(* Mutant: the target takes from the alias.                                *)
ResolveTargetFirst(name) ==
  IF "alias" \in DOMAIN commands[name]
  THEN Updated(commands[name], commands[commands[name].alias])
  ELSE commands[name]

ResolveCommand(name) ==
  IF "alias" \in DOMAIN commands[name]
  THEN Updated(commands[commands[name].alias], commands[name])
  ELSE commands[name]

Dispatching == shell = "onecmd" /\ line \notin {"help", "blank", "EOF"}
Matches     == Resolves(line) /\ CheckPrompt(ResolveCommand(line))

Runs(command, output) ==
  /\ cmd_data' = command /\ ret' = output
  /\ shell' = IF output.is = "handler" THEN "invoke" ELSE "finish"

DefaultMatches ==
  /\ Dispatching /\ Matches
  /\ LET command == ResolveCommand(line)
     IN IF "exit" \in DOMAIN command /\ command.exit
        THEN shell' = "over" /\ UNCHANGED <<cmd_data, ret>>
        ELSE Runs(command, IF "output" \in DOMAIN command THEN command.output ELSE NoOutput)
  /\ UNCHANGED <<base, commands, prompt, is_running, line, from, crashed, answer>>

(* Unknown, or of another mode: _default_ answers.  Where that has no      *)
(* output, a KeyError leaves cmdloop.                                      *)
DefaultRefuses ==
  /\ Dispatching /\ ~Matches
  /\ IF "output" \in DOMAIN commands["_default_"]
     THEN Runs(NoCommand, commands["_default_"].output)
     ELSE shell' = "over" /\ UNCHANGED <<cmd_data, ret>>
  /\ UNCHANGED <<base, commands, prompt, is_running, line, from, crashed, answer>>

(* _apply_new_prompt, for a command or a result that has one.              *)
NewPrompt(source) ==
  IF "new_prompt" \in DOMAIN source /\ ~FormatFails(source.new_prompt)
  THEN Rendered(source.new_prompt) ELSE prompt

(* A handler returns or raises.  What it returns is written as it is.      *)
InvokeCallable ==
  /\ shell = "invoke"
  /\ \/ \E result \in HandlerResults :
          /\ prompt' = NewPrompt(result)
          /\ ret' = [is |-> IF "output" \in DOMAIN result THEN "verbatim" ELSE "none",
                     text |-> IF "output" \in DOMAIN result THEN result.output ELSE NoText]
          /\ shell' = IF "exit" \in DOMAIN result /\ result.exit THEN "over" ELSE "finish"
          /\ UNCHANGED crashed
     \/ /\ ret' = [is |-> "error", text |-> NoText] /\ crashed' = TRUE
        /\ shell' = "finish"
        /\ UNCHANGED prompt
  /\ UNCHANGED <<base, commands, is_running, line, cmd_data, from, answer>>

(* _render_output: text of the table is formatted, or raw if it cannot be. *)
RenderOutput ==
  CASE ret.is = "text"     -> [NoAnswer EXCEPT !.is = "text",
                                 !.shown = IF FormatFails(ret.text) THEN Plain(ret.text)
                                                                    ELSE Rendered(ret.text)]
    [] ret.is = "verbatim" -> [NoAnswer EXCEPT !.is = "text", !.shown = Plain(ret.text)]
    [] ret.is = "error"    -> [NoAnswer EXCEPT !.is = "error"]
    [] ret.is = "none"     -> NoAnswer

(* The prompt changes, and a server that was stopped ends the shell before *)
(* the output is written.                                                  *)
DefaultEnds ==
  /\ shell = "finish"
  /\ prompt' = NewPrompt(cmd_data)
  /\ IF is_running THEN shell' = "read" /\ answer' = RenderOutput
                   ELSE shell' = "over" /\ UNCHANGED answer
  /\ cmd_data' = NoCommand /\ ret' = NoOutput
  /\ UNCHANGED <<base, commands, is_running, line, from, crashed>>

ShellStep == \/ ReadLine \/ ServerStop \/ EmptyLine \/ DoEOF \/ DoHelp
             \/ DefaultMatches \/ DefaultRefuses \/ InvokeCallable \/ DefaultEnds

-----------------------------------------------------------------------------
(* What an author of a platform may rely on, said of attributes one by     *)
(* one: an alias has those of its target that it does not have itself.     *)
Has(name, attribute) ==
  \/ attribute \in DOMAIN commands[name]
  \/ /\ "alias" \in DOMAIN commands[name]
     /\ attribute \in DOMAIN commands[commands[name].alias]
Of(name, attribute) ==
  IF attribute \in DOMAIN commands[name] THEN commands[name][attribute]
                                         ELSE commands[commands[name].alias][attribute]

Available(name) ==
  /\ name \in DOMAIN commands
  /\ "alias" \in DOMAIN commands[name] => commands[name].alias \in DOMAIN commands
  /\ Has(name, "prompt") /\ Of(name, "prompt") # AnyMode =>
       from \in {Rendered(t) : t \in {u \in Of(name, "prompt") : u.how # "broken"}}

Exits(name)   == Has(name, "exit") /\ Of(name, "exit")
Handled(name) == Has(name, "output") /\ Of(name, "output").is = "handler"

(* _default_ is taken as it stands in the table.                           *)
Refusal == IF "output" \in DOMAIN commands["_default_"]
           THEN commands["_default_"].output.is ELSE "raises"

Answered == shell \in {"read", "over"} /\ line \notin {"help", "blank", "EOF"}

(* A line that is no command of the mode it is typed in has no effect:     *)
(* it is refused by the output of _default_, which stays the only answer,  *)
(* the mode stays, and the session stays.                                  *)
RefusedLeavesMode ==
  Answered /\ ~Available(line) /\ Refusal # "handler" =>
    /\ prompt = from
    /\ shell = "read" => (answer.is = "text" <=> Refusal = "text")
    /\ shell = "over" => ~is_running \/ Refusal = "raises"

(* A command of the mode has its own effect and no other: it ends the      *)
(* session if it says so, moves to its new mode, and its output is         *)
(* formatted with the name of this host; "Internal error" is the answer to *)
(* a handler that crashed and to nothing else.                             *)
CommandHasItsEffect ==
  Answered /\ Available(line) =>
    /\ Exits(line) => shell = "over"
    /\ shell = "over" => Exits(line) \/ Handled(line) \/ ~is_running
    /\ shell = "read" /\ Has(line, "new_prompt") /\ Of(line, "new_prompt").how # "broken" =>
         prompt = Rendered(Of(line, "new_prompt"))
    /\ ~Has(line, "new_prompt") /\ ~Handled(line) => prompt = from
    /\ shell = "read" /\ Has(line, "output") /\ Of(line, "output").is = "text" =>
         answer.shown = IF Of(line, "output").text.how = "broken"
                        THEN Plain(Of(line, "output").text)
                        ELSE Rendered(Of(line, "output").text)

CrashIsAnswered ==
  /\ answer.is = "error" =>
       crashed /\ IF Available(line) THEN Handled(line) ELSE Refusal = "handler"
  /\ Answered /\ shell = "read" /\ crashed => answer.is = "error"

(* The help lists the commands of the mode, and all of them, aliases that  *)
(* leave their mode to their target aside.                                 *)
HelpIsTrue ==
  \A name \in DOMAIN commands \ {"_default_"} :
    answer.is = "help" /\ ("alias" \in DOMAIN commands[name] => "prompt" \in DOMAIN commands[name]
                                          /\ commands[name].alias \in DOMAIN commands) =>
      (name \in answer.help <=> Available(name))

(* A line does what the table says of it for the mode it was typed in.     *)
AnswersByMode == RefusedLeavesMode /\ CommandHasItsEffect /\ CrashIsAnswered /\ HelpIsTrue
=============================================================================
