------------------------------ MODULE Commands ------------------------------
(***************************************************************************)
(* The three fronts of the sync daemon: the chat commands of the plugin,   *)
(* the plugin's commands in the CLI of the host, and the daemon's own CLI. *)
(* Each makes one call of the daemon out of the words it is given.         *)
(***************************************************************************)
EXTENDS Integers, SequencesExt

CONSTANT Name  \* what is not a flag: source ids and file names

Flag == {"--source-id", "--config", "--force", "--enabled-only"}
Command == {"add", "list", "run", "status", "remove", "reindex"}

NoWord == "undefined"

ASSUME NameAssumption == Name \cap (Flag \cup {NoWord}) = {}

\* Mutant: the flag itself is returned.
OptionAt(args, flag) ==
  LET i == SelectInSeq(args, LAMBDA w : w = flag) IN IF i = 0 THEN NoWord ELSE args[i]

\* parseOptionValue, readOption: the word behind the first such flag.
OptionValue(args, flag) ==
  LET i == SelectInSeq(args, LAMBDA w : w = flag)
  IN IF i \in 1 .. Len(args) - 1 THEN args[i + 1] ELSE NoWord

FirstPositional(args) ==
  LET i == SelectInSeq(args, LAMBDA w : w \notin Flag) IN IF i = 0 THEN NoWord ELSE args[i]

HasFlag(args, flag) == flag \in ToSet(args)

\* The call of the daemon; without a word where one is needed, there is none.
DaemonCall(command, word, flag) ==
  IF command \in {"add", "remove"} /\ word = NoWord THEN [command |-> "refused"]
  ELSE [command |-> command, word |-> IF command = "list" THEN NoWord ELSE word,
        flag |-> flag /\ command \in {"list", "reindex"}]

WordFlag(command) == IF command = "add" THEN "--config" ELSE "--source-id"
SwitchFlag(command) == IF command = "list" THEN "--enabled-only" ELSE "--force"

\* A chat command: the option, or else the first word that is no flag.
Chat(command, args) ==
  LET option == OptionValue(args, WordFlag(command))
  IN DaemonCall(command, IF option = NoWord THEN FirstPositional(args) ELSE option,
                HasFlag(args, SwitchFlag(command)))

\* The daemon's own CLI: the option only.
Cli(command, args) ==
  DaemonCall(command, OptionValue(args, WordFlag(command)), HasFlag(args, SwitchFlag(command)))

\* The CLI of the host has parsed the words into options.
PluginCli(command, options) ==
  DaemonCall(command, IF command = "add" THEN options.config ELSE options.sourceId,
             IF command = "list" THEN options.enabledOnly ELSE options.force)

-----------------------------------------------------------------------------
Takes(flag) == flag \in {"--source-id", "--config"}

\* The words of a command: its own flags, each once, with a value where one is
\* taken and no value without its flag.
WellFormed(command, args) ==
  /\ ToSet(args) \cap Flag \subseteq {WordFlag(command), SwitchFlag(command)}
  /\ \A i \in DOMAIN args :
       /\ args[i] \in Flag => \A j \in DOMAIN args : args[j] = args[i] => j = i
       /\ Takes(args[i]) => i < Len(args) /\ args[i + 1] \in Name
       /\ args[i] \in Name => i > 1 /\ Takes(args[i - 1])

\* What a parser of options makes of well-formed words.
ParsedOptions(args) ==
  LET value(flag) ==
        LET at == {i \in DOMAIN args : args[i] = flag}
        IN IF at = {} THEN NoWord ELSE args[Min(at) + 1]
  IN [sourceId |-> value("--source-id"), config |-> value("--config"),
      force |-> "--force" \in ToSet(args), enabledOnly |-> "--enabled-only" \in ToSet(args)]
=============================================================================
