-------------------------------- MODULE MCStartup -------------------------------
(* Small instances of Startup: a default, and what may differ from it.      *)
EXTENDS Startup

Default ==
    [copilot_mode |-> "", port_given |-> FALSE, copilot_port |-> 1, ws_port |-> 2,
     api_port |-> None, copilot_host |-> "local", listen_addr |-> "here", spawn_copilot |-> "absent", acp_command |-> {},
     copilot_path |-> "copilot", copilot_args |-> <<>>,
     tls |-> [cert |-> "none", key |-> "none"], generate_cert |-> FALSE,
     copilot_dir |-> "home", installed |-> {"copilot"}, prints |-> <<>>, taken |-> {}]

Shared == [Default EXCEPT !.port_given = TRUE]

Command(words) == [quoted |-> TRUE, words |-> <<Word("copilot")>> \o words]

Acp == Word("--acp")

Commands ==
    {[quoted |-> FALSE, words |-> <<>>],
     [quoted |-> TRUE, words |-> <<>>],
     [quoted |-> TRUE, words |-> <<Word("npx"), Word("copilot"), Acp, PortEquals(1)>>],
     Command(<<Acp>>),
     Command(<<Acp, Word("--stdio")>>),
     Command(<<Word("--stdio")>>),
     Command(<<Acp, Word("--port"), Number(1)>>),
     Command(<<Acp, Word("--port"), Word("auto")>>),
     Command(<<Acp, Word("--stdio"), Word("--port")>>),
     Command(<<Acp, PortEquals(3)>>),
     Command(<<Word("--port"), Acp, PortEquals(1)>>),
     Command(<<Acp, PortEquals(1), Word("--port"), Number(3)>>)}

WithCommands ==
    {[Default EXCEPT !.copilot_mode = mode, !.port_given = given, !.acp_command = {raw}] :
        mode \in {"", "stdio", "tcp", "TCP"}, given \in BOOLEAN, raw \in Commands}

WithTls ==
    {[Shared EXCEPT !.tls = [cert |-> cert, key |-> key]] :
        cert \in {"none", "good", "bad"}, key \in {"none", "good"}}

WithPorts ==
    {[Shared EXCEPT !.ws_port = ws, !.api_port = given] :
        ws \in {2, 4}, given \in {None, 1, 2, 3}}

WithTaken == {[Shared EXCEPT !.taken = {p}] : p \in 1..3}

WithHosts ==
    {[Shared EXCEPT !.copilot_host = "elsewhere", !.taken = taken] : taken \in {{}, {1}}}
    \cup {[Shared EXCEPT !.listen_addr = "elsewhere"]}

WithVersions ==
    {[Default EXCEPT !.prints = text] : text \in {<<0, 1, 0>>, <<1, 0>>}}

Others ==
    {Default, Shared,
     [Shared EXCEPT !.copilot_args = <<Word("--port"), Number(3)>>],
     [Shared EXCEPT !.copilot_args = <<Word("--port"), Number(3)>>, !.ws_port = 3],
     [Default EXCEPT !.ws_port = 1],
     [Shared EXCEPT !.installed = {}],
     [Shared EXCEPT !.spawn_copilot = "false"],
     [Shared EXCEPT !.copilot_dir = "none"],
     [Shared EXCEPT !.generate_cert = TRUE]}

AllConfigs == WithCommands \cup WithTls \cup WithPorts \cup WithTaken
              \cup WithHosts \cup WithVersions \cup Others

SpawnOptions == {[Default EXCEPT !.spawn_copilot = option] : option \in {"absent", "present", "false"}}

===============================================================================
