----------------------------- MODULE CopilotCommand -----------------------------
(***************************************************************************)
(* The command lines the bridge starts Copilot CLI with (src/copilot.rs)   *)
(* and what it makes of the version the CLI reports (src/api.rs).          *)
(*                                                                         *)
(* A command line is a sequence of words.  Of a word the model keeps the    *)
(* option it is, if any, and the port it spells, if it spells one.          *)
(***************************************************************************)
EXTENDS Integers, Sequences

None == -1              \* Option::None, and the port of a word that spells none

Word(text) == [text |-> text, port |-> None]

Number(port) == [text |-> "", port |-> port]

PortEquals(port) == [text |-> "--port=", port |-> port]
-------------------------------------------------------------------------------
(* CopilotSpawnCommand.                                                    *)

default_tcp(program, port, extra) ==
    [program |-> program,
     args |-> <<Word("--acp"), Word("--port"), Number(port), Word("--resume")>> \o extra]

default_stdio(program, extra) ==
    [program |-> program,
     args |-> <<Word("--acp"), Word("--stdio"), Word("--resume")>> \o extra]

(* shlex::split refuses bad quoting, and finds no words in an empty text. *)
ParsesAsCommand(raw) == raw.quoted /\ raw.words # <<>>

exact_override(raw) == [program |-> Head(raw.words).text, args |-> Tail(raw.words)]

(* The first words that are the option, none if there is none. *)
FirstOf(args, texts) ==
    {i \in DOMAIN args : /\ args[i].text \in texts
                         /\ \A j \in 1..(i - 1) : args[j].text \notin texts}

Has(args, text) == FirstOf(args, {text}) # {}

(* The port of the first --port; a value that is no u16 counts as no port. *)
tcp_port_arg(args) ==
    LET ports == {IF args[i].text = "--port=" THEN args[i].port
                  ELSE IF i < Len(args) THEN args[i + 1].port ELSE None :
                      i \in FirstOf(args, {"--port", "--port="})}
    IN IF ports = {} THEN None ELSE CHOOSE port \in ports : TRUE

(* Mutant: any --port will do. *)
validate_any_port(raw, mode, tcp_port) ==
    LET args == exact_override(raw).args IN
    /\ Has(args, "--acp")
    /\ mode = "stdio" => Has(args, "--stdio") /\ tcp_port_arg(args) = None
    /\ mode = "tcp" => ~Has(args, "--stdio") /\ tcp_port_arg(args) # None

(* A mode that is neither is not compared with the command. *)
validate_command_override_for_mode(raw, mode, tcp_port) ==
    LET args == exact_override(raw).args IN
    /\ Has(args, "--acp")
    /\ mode = "stdio" => Has(args, "--stdio") /\ tcp_port_arg(args) = None
    /\ mode = "tcp" => ~Has(args, "--stdio") /\ tcp_port_arg(args) = tcp_port

(* The words before --acp, with --version behind them. *)
version_probe_command(program, command) ==
    IF command = {} THEN [program |-> program, args |-> <<Word("--version")>>]
    ELSE LET parsed == exact_override(CHOOSE raw \in command : TRUE)
             before == {i \in DOMAIN parsed.args :
                           \A j \in FirstOf(parsed.args, {"--acp"}) : i < j}
         IN [program |-> parsed.program,
             args |-> Append([i \in before |-> parsed.args[i]], Word("--version"))]
-------------------------------------------------------------------------------
(* How Copilot CLI reads its arguments: of several ports it takes one, the    *)
(* bridge does not know which.                                              *)

PortsNamed(args) ==
    {args[i].port : i \in {k \in DOMAIN args : args[k].text = "--port="}}
    \cup {args[i + 1].port : i \in {k \in DOMAIN args : k < Len(args) /\ args[k].text = "--port"}}

ListenPorts(args) == IF Has(args, "--stdio") THEN {} ELSE PortsNamed(args) \ {None}
-------------------------------------------------------------------------------
(* The version of Copilot CLI: its parts between dots, a part that is not a  *)
(* number counting as 0; <<>> is an unknown version.                        *)

AtLeast(version, bound) ==
    \/ version[1] > bound[1]
    \/ version[1] = bound[1] /\ version[2] > bound[2]
    \/ version[1] = bound[1] /\ version[2] = bound[2] /\ version[3] >= bound[3]

(* What "ga" of GET /api/copilot/info says, and its comment "(>= 0.0.418 or   *)
(* >= 1.0.0)" does not: of the versions before 1.0.0 only 0.0.x count.       *)
is_copilot_ga(version) ==
    /\ Len(version) >= 3
    /\ version[1] >= 1 \/ (version[1] = 0 /\ version[2] = 0 /\ version[3] >= 418)

FeatureBounds ==
    [ga |-> <<0, 0, 418>>,
     reasoning_effort |-> <<0, 0, 421>>, mcp_elicitations |-> <<0, 0, 421>>,
     exit_plan_mode |-> <<0, 0, 422>>, session_metrics |-> <<0, 0, 422>>,
     output_format_json |-> <<0, 0, 422>>, v1_stable |-> <<1, 0, 0>>]

detect_features(version) ==
    {feature \in DOMAIN FeatureBounds :
        Len(version) >= 3 /\ AtLeast(version, FeatureBounds[feature])}
===============================================================================
