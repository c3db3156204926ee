-------------------------------- MODULE Startup ---------------------------------
(***************************************************************************)
(* The life of a bridge process (src/main.rs) from its arguments to serving *)
(* or its end, with the Copilot CLI it spawns in tcp mode (src/copilot.rs), *)
(* the REST API's task and the ports they all compete for.                  *)
(*                                                                         *)
(* Each member of Bridges is one process.  They are started with the same  *)
(* arguments, at any time: a second one is a restart when the first has     *)
(* ended or was killed, and a second instance when it still runs.           *)
(***************************************************************************)
EXTENDS CopilotCommand, FiniteSets

CONSTANTS
    Bridges,        \* processes
    Configs,        \* what may be on the command line and on the machine
    Names,          \* words of a command line that are no option
    MaxPort,        \* u16::MAX
    WaitPolls       \* connects of wait_for_port before its 30 s are over

ASSUME BoundsAssumption == MaxPort \in Nat \ {0} /\ WaitPolls \in Nat

Ports == 1..MaxPort

Texts == {"--acp", "--stdio", "--port", "--port=", "--resume", ""} \cup Names

Words == [text : Texts, port : Ports \cup {None}]

(* What clap makes of the options: ports are u16 (0, which asks for any port, *)
(* is left out), and a version's parts are numbers.  --copilot-host names    *)
(* this machine or another one, --listen-addr is an address of this machine *)
(* or is not.                                                               *)
ASSUME ConfigsAssumption ==
    \A given \in Configs :
        /\ {given.ws_port, given.copilot_port} \cup given.taken \subseteq Ports
        /\ given.api_port \in Ports \cup {None}
        /\ given.copilot_host \in {"local", "elsewhere"}
        /\ given.listen_addr \in {"here", "elsewhere"}
        /\ given.copilot_args \in Seq(Words)
        /\ \A raw \in given.acp_command : raw.words \in Seq(Words)
        /\ given.prints \in Seq(Nat)

VARIABLES
    config,         \* the arguments and the machine, the same for every process
    at,             \* at[b]: where main of process b is
    polls,          \* polls[b]: failed connects of wait_for_port
    cli,            \* cli[b]: the Copilot CLI spawned by b in tcp mode
    api,            \* api[b]: the REST API's task
    version,        \* version[b]: copilot_cli_version
    port            \* port[p]: who listens on p

vars == <<config, at, polls, cli, api, version, port>>
-------------------------------------------------------------------------------
Free == [kind |-> "free", by |-> {}]

Holder(kind, b) == [kind |-> kind, by |-> {b}]

Foreign == [kind |-> "foreign", by |-> {}]      \* a program that is not ours

Running == {"args", "cert", "spawn", "wait", "dir", "probe", "probing", "tls", "bind", "serve"}

Holders ==
    {Free, Foreign} \cup [kind : {"ws", "api", "cli"}, by : {{b} : b \in Bridges}]

(* main returned, with Ok or with an error; clap refused the arguments. *)
Ended == {"done", "failed", "usage"}

Init ==
    /\ config \in Configs
    /\ at = [b \in Bridges |-> "off"]
    /\ polls = [b \in Bridges |-> 0]
    /\ cli = [b \in Bridges |-> "none"]
    /\ api = [b \in Bridges |-> "none"]
    /\ version = [b \in Bridges |-> <<>>]
    /\ port = [p \in Ports |-> IF p \in config.taken THEN Foreign ELSE Free]
-------------------------------------------------------------------------------
(* The configuration, as main resolves it.                                  *)

(* --copilot-port on the command line means tcp, unless a mode is given. *)
effective_copilot_mode ==
    IF config.copilot_mode # "" THEN config.copilot_mode
    ELSE IF config.port_given THEN "tcp" ELSE "stdio"

(* saturating_add: the last port has no next one. *)
api_port ==
    IF config.api_port # None THEN config.api_port
    ELSE IF config.ws_port = MaxPort THEN MaxPort ELSE config.ws_port + 1

SpawnCommand ==
    IF config.acp_command = {}
    THEN default_tcp(config.copilot_path, config.copilot_port, config.copilot_args)
    ELSE exact_override(CHOOSE raw \in config.acp_command : TRUE)

(* What every client's own child is started with in stdio mode. *)
StdioCommand ==
    IF config.acp_command = {} THEN default_stdio(config.copilot_path, config.copilot_args)
    ELSE exact_override(CHOOSE raw \in config.acp_command : TRUE)

ValidCommand ==
    \A raw \in config.acp_command :
        /\ ParsesAsCommand(raw)
        /\ validate_command_override_for_mode(raw, effective_copilot_mode, config.copilot_port)

TlsGiven == {file \in {"cert", "key"} : config.tls[file] # "none"}

TlsLoads == config.tls["cert"] = "good" /\ config.tls["key"] = "good"
-------------------------------------------------------------------------------
GoTo(b, place) == at' = [at EXCEPT ![b] = place]

(* A port is free again when the process that listened on it is gone. *)
Released(holders) ==
    [p \in Ports |-> IF port[p] \in holders THEN Free ELSE port[p]]

Servers(b) == {Holder("ws", b), Holder("api", b)}

(* Mutant: the child is not killed with its handle. *)
EndsWithoutKill(b, how) ==
    /\ GoTo(b, how)
    /\ port' = Released(Servers(b))
    /\ api' = [api EXCEPT ![b] = "none"]
    /\ UNCHANGED <<config, polls, cli, version>>

(* main returns: its tasks end, its listeners close, and dropping            *)
(* _copilot_process kills the child.                                        *)
Ends(b, how) ==
    /\ GoTo(b, how)
    /\ cli' = [cli EXCEPT ![b] = IF @ = "none" THEN @ ELSE "gone"]
    /\ port' = Released(Servers(b) \cup {Holder("cli", b)})
    /\ api' = [api EXCEPT ![b] = "none"]
    /\ UNCHANGED <<config, polls, version>>

Start(b) ==
    /\ at[b] = "off"
    /\ GoTo(b, "args")
    /\ UNCHANGED <<config, polls, cli, api, version, port>>

(* --spawn-copilot is a flag for clap, and flags take no value. *)
UsageError(b) ==
    /\ at[b] = "args" /\ config.spawn_copilot = "false"
    /\ Ends(b, "usage")

(* A flag that can only be true, so uses_spawned_copilot_command always is. *)
CheckArgs(b) ==
    /\ at[b] = "args" /\ config.spawn_copilot # "false"
    /\ IF ~ValidCommand THEN Ends(b, "failed")
       ELSE /\ GoTo(b, IF config.generate_cert THEN "cert" ELSE "spawn")
            /\ UNCHANGED <<config, polls, cli, api, version, port>>

(* Two files are written, or an error is returned. *)
GenerateCert(b) ==
    /\ at[b] = "cert"
    /\ Ends(b, "done") \/ Ends(b, "failed")

(* In stdio mode every client gets its own child, later. *)
NoSharedCli(b) ==
    /\ at[b] = "spawn" /\ effective_copilot_mode = "stdio"
    /\ GoTo(b, "dir")
    /\ UNCHANGED <<config, polls, cli, api, version, port>>

(* Mutant: a CLI that cannot be started is an error. *)
SpawnOrFail(b) ==
    /\ at[b] = "spawn" /\ effective_copilot_mode # "stdio"
    /\ IF SpawnCommand.program \in config.installed
       THEN /\ cli' = [cli EXCEPT ![b] = "up"] /\ GoTo(b, "wait")
            /\ UNCHANGED <<config, polls, api, version, port>>
       ELSE Ends(b, "failed")

(* A CLI that cannot be started is a warning.  Any mode but stdio spawns. *)
SpawnTcp(b) ==
    /\ at[b] = "spawn" /\ effective_copilot_mode # "stdio"
    /\ IF SpawnCommand.program \in config.installed
       THEN /\ cli' = [cli EXCEPT ![b] = "up"] /\ GoTo(b, "wait")
       ELSE /\ GoTo(b, "dir") /\ UNCHANGED cli
    /\ UNCHANGED <<config, polls, api, version, port>>

(* How a connect to --copilot-host can end: on this machine it finds whoever *)
(* listens, of another machine nothing is known.                            *)
Connects ==
    IF config.copilot_host = "local" THEN {port[config.copilot_port] # Free} ELSE BOOLEAN

(* Mutant: wait_for_port has no end but a listener. *)
PollUntilReady(b) ==
    /\ at[b] = "wait"
    /\ \E connected \in Connects : IF connected THEN GoTo(b, "dir") ELSE UNCHANGED at
    /\ UNCHANGED <<config, polls, cli, api, version, port>>

(* Mutant: one connect after the time is over. *)
PollOnceMore(b) ==
    /\ at[b] = "wait"
    /\ \E connected \in Connects :
          IF connected \/ polls[b] > WaitPolls
          THEN GoTo(b, "dir") /\ UNCHANGED polls
          ELSE polls' = [polls EXCEPT ![b] = @ + 1] /\ UNCHANGED at
    /\ UNCHANGED <<config, cli, api, version, port>>

(* wait_for_port: whoever listens will do, and so does the end of the time. *)
Poll(b) ==
    /\ at[b] = "wait"
    /\ \E connected \in Connects :
          IF connected \/ polls[b] = WaitPolls
          THEN GoTo(b, "dir") /\ UNCHANGED polls
          ELSE polls' = [polls EXCEPT ![b] = @ + 1] /\ UNCHANGED at
    /\ UNCHANGED <<config, cli, api, version, port>>

ResolveDir(b) ==
    /\ at[b] = "dir"
    /\ IF config.copilot_dir = "none" THEN Ends(b, "failed")
       ELSE /\ GoTo(b, "probe")
            /\ UNCHANGED <<config, polls, cli, api, version, port>>

(* detect_version starts the program with --version and awaits its output,   *)
(* prints, which is <<>> if it is of no use.                                *)
Probe(b) ==
    /\ at[b] = "probe"
    /\ LET probe == version_probe_command(config.copilot_path, config.acp_command)
       IN GoTo(b, IF probe.program \in config.installed THEN "probing" ELSE "tls")
    /\ UNCHANGED <<config, polls, cli, api, version, port>>

ProbeAnswers(b) ==
    /\ at[b] = "probing"
    /\ version' = [version EXCEPT ![b] = config.prints]
    /\ GoTo(b, "tls")
    /\ UNCHANGED <<config, polls, cli, api, port>>

(* The files are loaded only if both are named; then the REST API's task is  *)
(* spawned.                                                                 *)
LoadTls(b) ==
    /\ at[b] = "tls"
    /\ IF TlsGiven = {"cert", "key"} /\ ~TlsLoads THEN Ends(b, "failed")
       ELSE /\ GoTo(b, "bind")
            /\ api' = [api EXCEPT ![b] = "starting"]
            /\ UNCHANGED <<config, polls, cli, version, port>>

CanBindWs == config.listen_addr = "here" /\ port[config.ws_port] = Free

(* Bridge::run: a port that is taken, or an address that is not this         *)
(* machine's, is an error, and so is one of the two TLS options alone, which *)
(* is noticed behind the bind.                                              *)
BindWs(b) ==
    /\ at[b] = "bind"
    /\ IF ~CanBindWs \/ Cardinality(TlsGiven) = 1 THEN Ends(b, "failed")
       ELSE /\ GoTo(b, "serve")
            /\ port' = [port EXCEPT ![config.ws_port] = Holder("ws", b)]
            /\ UNCHANGED <<config, polls, cli, api, version>>

(* The REST API's task, which binds 0.0.0.0: a port that is taken is a warning. *)
BindApi(b) ==
    /\ api[b] = "starting"
    /\ IF port[api_port] = Free
       THEN /\ port' = [port EXCEPT ![api_port] = Holder("api", b)]
            /\ api' = [api EXCEPT ![b] = "up"]
       ELSE api' = [api EXCEPT ![b] = "down"] /\ UNCHANGED port
    /\ UNCHANGED <<config, at, polls, cli, version>>

Main(b) ==
    \/ UsageError(b) \/ CheckArgs(b) \/ GenerateCert(b) \/ NoSharedCli(b) \/ SpawnTcp(b) \/ Poll(b)
    \/ ResolveDir(b) \/ Probe(b) \/ LoadTls(b) \/ BindWs(b)
-------------------------------------------------------------------------------
(* The world around the processes.                                          *)

(* A signal: nothing is dropped, and the child goes on. *)
Killed(b) ==
    /\ at[b] \in Running
    /\ GoTo(b, "killed")
    /\ port' = Released(Servers(b))
    /\ api' = [api EXCEPT ![b] = "none"]
    /\ UNCHANGED <<config, polls, cli, version>>

(* Copilot CLI binds the port its arguments name, and exits if it cannot. *)
CliListens(b) ==
    /\ cli[b] = "up"
    /\ \/ \E p \in ListenPorts(SpawnCommand.args) :
             /\ port[p] = Free
             /\ port' = [port EXCEPT ![p] = Holder("cli", b)]
             /\ cli' = [cli EXCEPT ![b] = "listening"]
       \/ /\ \A p \in ListenPorts(SpawnCommand.args) : port[p] # Free
          /\ cli' = [cli EXCEPT ![b] = "gone"]
          /\ UNCHANGED port
    /\ UNCHANGED <<config, at, polls, api, version>>

(* Its stdout is a pipe nobody reads: full, it blocks whoever writes to it. *)
CliFillsPipe(b) ==
    /\ cli[b] \in {"up", "listening"} /\ at[b] \in Running
    /\ cli' = [cli EXCEPT ![b] = "stuck"]
    /\ UNCHANGED <<config, at, polls, api, version, port>>

CliExits(b) ==
    /\ cli[b] \in {"up", "listening", "stuck"}
    /\ cli' = [cli EXCEPT ![b] = "gone"]
    /\ port' = Released({Holder("cli", b)})
    /\ UNCHANGED <<config, at, polls, api, version>>

ForeignLeaves ==
    /\ \E p \in Ports : port[p] = Foreign /\ port' = [port EXCEPT ![p] = Free]
    /\ UNCHANGED <<config, at, polls, cli, api, version>>

Process(b) ==
    \/ Start(b) \/ Main(b) \/ ProbeAnswers(b) \/ BindApi(b)
    \/ Killed(b) \/ CliListens(b) \/ CliFillsPipe(b) \/ CliExits(b)

Next == (\E b \in Bridges : Process(b)) \/ ForeignLeaves

Spec == Init /\ [][Next]_vars

(* The runtime runs main and the API's task.  detect_version has no timeout, *)
(* so that --version ends is an assumption about the CLI.                    *)
FairSpec ==
    /\ Spec
    /\ \A b \in Bridges : WF_vars(Main(b)) /\ WF_vars(BindApi(b)) /\ WF_vars(ProbeAnswers(b))
-------------------------------------------------------------------------------
(* Properties.                                                             *)

TypeOK ==
    /\ config \in Configs
    /\ at \in [Bridges -> Running \cup Ended \cup {"off", "killed"}]
    /\ polls \in [Bridges -> 0..WaitPolls]
    /\ cli \in [Bridges -> {"none", "up", "listening", "stuck", "gone"}]
    /\ api \in [Bridges -> {"none", "starting", "up", "down"}]
    /\ version \in [Bridges -> {config.prints, <<>>}]
    /\ port \in [Ports -> Holders]

(* A bridge that comes to an end by itself leaves no CLI running, whichever   *)
(* of its errors ends it and wherever its CLI is: what a later bridge finds *)
(* on the CLI's port is foreign, or was left by a signal (Drop, the ? and    *)
(* bail! behind the spawn).                                                 *)
CliDiesWithBridge ==
    \A b \in Bridges : at[b] \in Ended =>
        /\ cli[b] \in {"none", "gone"}
        /\ \A p \in Ports : b \notin port[p].by

(* The CLI is where the relays look for it, and speaks what they speak: with  *)
(* mode stdio every client's child is told so; with mode tcp the shared one, *)
(* when it has come to listen, is what a connect of a relay reaches if        *)
(* --copilot-host names this machine, also when the mode was detected from   *)
(* the port, the command is custom, or a program held the port before.  Not  *)
(* if the arguments name several ports, or the mode is neither.  With another *)
(* machine's name the spawned CLI is nobody's: nothing compares the two      *)
(* options.                                                                 *)
TransportMatches ==
    \A b \in Bridges :
        /\ at[b] = "serve" /\ effective_copilot_mode = "stdio" =>
               Has(StdioCommand.args, "--acp") /\ ListenPorts(StdioCommand.args) = {}
        /\ cli[b] = "listening" /\ effective_copilot_mode = "tcp"
           /\ config.copilot_host = "local" /\ Cardinality(PortsNamed(SpawnCommand.args)) = 1 =>
               port[config.copilot_port] = Holder("cli", b)

(* What is not fatal is not: a bridge that runs alone with valid options and *)
(* a free WebSocket port never fails, though its CLI is missing, dies or      *)
(* never listens and the REST API's port is taken (docs/architecture.md,     *)
(* Failure handling).  The REST API and a CLI of the bridge's own must have   *)
(* other ports than the WebSocket's, which the former has by default unless  *)
(* that is the last one.                                                    *)
BadOptions ==
    \/ ~ValidCommand \/ config.copilot_dir = "none" \/ config.generate_cert
    \/ config.listen_addr = "elsewhere"
    \/ Cardinality(TlsGiven) = 1 \/ (TlsGiven # {} /\ ~TlsLoads)
    \/ config.ws_port = api_port
    \/ effective_copilot_mode # "stdio" /\ config.ws_port \in ListenPorts(SpawnCommand.args)

FailsWithReason ==
    \A b \in Bridges : at[b] = "failed" =>
        \/ BadOptions \/ config.ws_port \in config.taken
        \/ \E other \in Bridges \ {b} : at[other] # "off"

(* A bridge that is started comes to serve or to an end, whatever its CLI     *)
(* does but hang on --version.                                              *)
StartsOrEnds ==
    \A b \in Bridges : at[b] # "off" ~> at[b] \in Ended \cup {"serve", "killed"}

(* --spawn-copilot false makes the bridge use a CLI that runs already         *)
(* (README.md, Configuration).                                              *)
SpawnCanBeDisabled ==
    \A b \in Bridges : config.spawn_copilot = "false" => at[b] # "usage"
===============================================================================
