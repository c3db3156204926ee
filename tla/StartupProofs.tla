----------------------------- MODULE StartupProofs ------------------------------
(***************************************************************************)
(* Proofs about Startup, for any number of processes, any options, any      *)
(* ports and any patience of wait_for_port.  The invariant has two layers:  *)
(* IInv, that what ended by itself holds nothing any more, and on top of it *)
(* Reasons, what each place of the startup has checked before.              *)
(***************************************************************************)
EXTENDS Startup, FiniteSetTheorems, TLAPS

(* Of a process that ended by itself nothing is left that could bind a port. *)
EndedIsQuiet ==
    \A b \in Bridges : at[b] \in Ended => api[b] = "none" /\ cli[b] \in {"none", "gone"}

(* A CLI that is gone, or was never started, holds no port. *)
EndedHoldsNoPort ==
    \A b \in Bridges : at[b] \in Ended => \A p \in Ports : b \notin port[p].by

IInv == TypeOK /\ EndedIsQuiet /\ EndedHoldsNoPort

LEMMA HolderTypes ==
    /\ Free \in Holders /\ Foreign \in Holders
    /\ \A b \in Bridges, kind \in {"ws", "api", "cli"} : Holder(kind, b) \in Holders
BY DEF Holders, Holder

(* What a holder can be. *)
LEMMA HolderCases ==
    ASSUME NEW h \in Holders
    PROVE  \/ h \in {Free, Foreign}
           \/ \E kind \in {"ws", "api", "cli"}, b \in Bridges : h = Holder(kind, b)
BY DEF Holders, Holder

(* Releasing keeps the type of port. *)
LEMMA ReleasedType ==
    ASSUME port \in [Ports -> Holders], NEW holders
    PROVE  Released(holders) \in [Ports -> Holders]
BY HolderTypes DEF Released

(* ... and takes everything from a process whose holders are released. *)
LEMMA ReleasedAll ==
    ASSUME port \in [Ports -> Holders], NEW b \in Bridges, NEW p \in Ports
    PROVE  b \notin Released(Servers(b) \cup {Holder("cli", b)})[p].by
<1>1. CASE port[p] \in Servers(b) \cup {Holder("cli", b)}
  BY <1>1 DEF Released, Free
<1>2. CASE port[p] \notin Servers(b) \cup {Holder("cli", b)}
  <2>2. CASE port[p] \in {Free, Foreign}
    BY <1>2, <2>2 DEF Released, Free, Foreign
  <2>3. CASE \E kind \in {"ws", "api", "cli"}, c \in Bridges : port[p] = Holder(kind, c)
    <3>1. PICK kind \in {"ws", "api", "cli"}, c \in Bridges : port[p] = Holder(kind, c)
      BY <2>3
    <3>2. c # b
      BY <1>2, <3>1 DEF Servers, Holder
    <3> QED
      BY <1>2, <3>1, <3>2 DEF Released, Holder
  <2> QED
    BY <2>2, <2>3, HolderCases
<1> QED
  BY <1>1, <1>2

(* ... and gives nothing to anybody. *)
LEMMA ReleasedLess ==
    ASSUME port \in [Ports -> Holders], NEW holders, NEW b \in Bridges, NEW p \in Ports,
           b \notin port[p].by
    PROVE  b \notin Released(holders)[p].by
BY DEF Released, Free

(* The processes start with nothing. *)
LEMMA InitHolds == Init => IInv
<1> SUFFICES ASSUME Init PROVE IInv
  OBVIOUS
<1>1. TypeOK
  BY BoundsAssumption, HolderTypes DEF Init, TypeOK
<1>2. EndedIsQuiet /\ EndedHoldsNoPort
  BY DEF Init, EndedIsQuiet, EndedHoldsNoPort, Ended
<1> QED
  BY <1>1, <1>2 DEF IInv

(* main ends, wherever it is: everything goes with it. *)
LEMMA EndsKeeps ==
    ASSUME IInv, NEW b \in Bridges, NEW how \in Ended, Ends(b, how)
    PROVE  IInv'
<1>1. port \in [Ports -> Holders] /\ port' \in [Ports -> Holders]
  BY ReleasedType DEF IInv, TypeOK, Ends
<1>2. TypeOK'
  BY <1>1 DEF IInv, TypeOK, Ends, GoTo
<1>3. EndedIsQuiet'
  BY DEF IInv, TypeOK, EndedIsQuiet, Ends, GoTo
<1>4. ASSUME NEW c \in Bridges, at'[c] \in Ended, NEW p \in Ports PROVE c \notin port'[p].by
  <2>1. CASE c = b
    BY <1>1, <2>1, ReleasedAll DEF Ends
  <2>2. CASE c # b
    <3>1. at[c] \in Ended
      BY <1>4, <2>2 DEF IInv, TypeOK, Ends, GoTo
    <3> QED
      BY <1>1, <3>1, ReleasedLess DEF IInv, EndedHoldsNoPort, Ends
  <2> QED
    BY <2>1, <2>2
<1> QED
  BY <1>2, <1>3, <1>4 DEF IInv, EndedHoldsNoPort

(* main moves on to a place where it still runs, or is killed, and no port   *)
(* changes hands but to be released or taken by the process itself.         *)
LEMMA MoveKeeps ==
    ASSUME IInv, TypeOK', NEW b \in Bridges, at[b] \notin Ended, at'[b] \notin Ended,
           \A c \in Bridges \ {b} : at'[c] = at[c] /\ cli'[c] = cli[c] /\ api'[c] = api[c],
           \A c \in Bridges \ {b}, p \in Ports : c \notin port[p].by => c \notin port'[p].by
    PROVE  IInv'
BY DEF IInv, EndedIsQuiet, EndedHoldsNoPort

(* Every step keeps the invariant. *)
LEMMA NextHolds == IInv /\ [Next]_vars => IInv'
<1> SUFFICES ASSUME IInv, [Next]_vars PROVE IInv'
  OBVIOUS
<1> USE DEF GoTo
<1>0. TypeOK /\ port \in [Ports -> Holders]
  BY DEF IInv, TypeOK
<1>1. ASSUME NEW b \in Bridges, Start(b) PROVE IInv'
  <2>1. TypeOK'
    BY <1>0, <1>1 DEF TypeOK, Start, Running
  <2> QED
    BY <1>0, <1>1, <2>1, MoveKeeps, ZenonT(30) DEF TypeOK, Start, Ended
<1>2. ASSUME NEW b \in Bridges, UsageError(b) PROVE IInv'
  BY <1>2, EndsKeeps DEF UsageError, Ended
<1>3. ASSUME NEW b \in Bridges, CheckArgs(b) PROVE IInv'
  <2>1. CASE Ends(b, "failed")
    BY <2>1, EndsKeeps DEF Ended
  <2>2. CASE ~Ends(b, "failed")
    <3>1. /\ at[b] = "args"
          /\ at' = [at EXCEPT ![b] = "cert"] \/ at' = [at EXCEPT ![b] = "spawn"]
          /\ UNCHANGED <<config, polls, cli, api, version, port>>
      BY <1>3, <2>2 DEF CheckArgs
    <3>2. TypeOK'
      BY <1>0, <3>1 DEF TypeOK, Running
    <3> QED
      BY <1>0, <3>1, <3>2, MoveKeeps, ZenonT(30) DEF TypeOK, Ended
  <2> QED
    BY <2>1, <2>2
<1>4. ASSUME NEW b \in Bridges, GenerateCert(b) PROVE IInv'
  BY <1>4, EndsKeeps DEF GenerateCert, Ended
<1>5. ASSUME NEW b \in Bridges, NoSharedCli(b) PROVE IInv'
  <2>1. TypeOK'
    BY <1>0, <1>5 DEF TypeOK, NoSharedCli, Running
  <2> QED
    BY <1>0, <1>5, <2>1, MoveKeeps DEF TypeOK, NoSharedCli, Ended
<1>6. ASSUME NEW b \in Bridges, SpawnTcp(b) PROVE IInv'
  <2>1. TypeOK'
    BY <1>0, <1>6 DEF TypeOK, SpawnTcp, Running
  <2> QED
    BY <1>0, <1>6, <2>1, MoveKeeps, ZenonT(30) DEF TypeOK, SpawnTcp, Ended
<1>7. ASSUME NEW b \in Bridges, Poll(b) PROVE IInv'
  <2>1. polls[b] # WaitPolls => polls[b] + 1 \in 0..WaitPolls
    BY <1>0, BoundsAssumption DEF TypeOK
  <2>2. TypeOK'
    BY <1>0, <1>7, <2>1 DEF TypeOK, Poll, Connects, Running
  <2> QED
    BY <1>0, <1>7, <2>2, MoveKeeps, ZenonT(30) DEF TypeOK, Poll, Connects, Ended
<1>8. ASSUME NEW b \in Bridges, ResolveDir(b) PROVE IInv'
  <2>1. CASE Ends(b, "failed")
    BY <2>1, EndsKeeps DEF Ended
  <2>2. CASE ~Ends(b, "failed")
    <3>1. TypeOK'
      BY <1>0, <1>8, <2>2 DEF TypeOK, ResolveDir, Running
    <3> QED
      BY <1>0, <1>8, <2>2, <3>1, MoveKeeps, ZenonT(30) DEF TypeOK, ResolveDir, Ended
  <2> QED
    BY <2>1, <2>2
<1>9. ASSUME NEW b \in Bridges, Probe(b) PROVE IInv'
  <2>1. TypeOK'
    BY <1>0, <1>9 DEF TypeOK, Probe, Running
  <2> QED
    BY <1>0, <1>9, <2>1, MoveKeeps, ZenonT(30) DEF TypeOK, Probe, Ended
<1>10. ASSUME NEW b \in Bridges, ProbeAnswers(b) PROVE IInv'
  <2>1. TypeOK'
    BY <1>0, <1>10 DEF TypeOK, ProbeAnswers, Running
  <2> QED
    BY <1>0, <1>10, <2>1, MoveKeeps, ZenonT(30) DEF TypeOK, ProbeAnswers, Ended
<1>11. ASSUME NEW b \in Bridges, LoadTls(b) PROVE IInv'
  <2>1. CASE Ends(b, "failed")
    BY <2>1, EndsKeeps DEF Ended
  <2>2. CASE ~Ends(b, "failed")
    <3>1. /\ at[b] = "tls" /\ at' = [at EXCEPT ![b] = "bind"]
          /\ api' = [api EXCEPT ![b] = "starting"]
          /\ UNCHANGED <<config, polls, cli, version, port>>
      BY <1>11, <2>2 DEF LoadTls
    <3>2. TypeOK'
      BY <1>0, <3>1 DEF TypeOK, Running
    <3> QED
      BY <1>0, <3>1, <3>2, MoveKeeps, ZenonT(30) DEF TypeOK, Ended
  <2> QED
    BY <2>1, <2>2
<1>12. ASSUME NEW b \in Bridges, BindWs(b) PROVE IInv'
  <2>1. CASE Ends(b, "failed")
    BY <2>1, EndsKeeps DEF Ended
  <2>2. CASE ~Ends(b, "failed")
    <3>1. /\ at[b] = "bind" /\ at' = [at EXCEPT ![b] = "serve"]
          /\ port' = [port EXCEPT ![config.ws_port] = Holder("ws", b)]
          /\ UNCHANGED <<config, polls, cli, api, version>>
      BY <1>12, <2>2 DEF BindWs
    <3>2. port' \in [Ports -> Holders]
      BY <1>0, <3>1, HolderTypes
    <3>3. TypeOK'
      BY <1>0, <3>1, <3>2 DEF TypeOK, Running
    <3>4. \A c \in Bridges \ {b}, p \in Ports : c \notin port[p].by => c \notin port'[p].by
      BY <1>0, <3>1 DEF Holder
    <3> QED
      BY <1>0, <3>1, <3>3, <3>4, MoveKeeps DEF TypeOK, Ended
  <2> QED
    BY <2>1, <2>2
<1>13. ASSUME NEW b \in Bridges, BindApi(b) PROVE IInv'
  <2>1. at[b] \notin Ended /\ at' = at /\ cli' = cli
    BY <1>13 DEF BindApi, IInv, EndedIsQuiet
  <2>2. port' \in [Ports -> Holders]
    BY <1>0, <1>13, HolderTypes DEF BindApi
  <2>3. TypeOK'
    BY <1>0, <1>13, <2>2 DEF TypeOK, BindApi
  <2>4. \A c \in Bridges \ {b}, p \in Ports : c \notin port[p].by => c \notin port'[p].by
    BY <1>0, <1>13 DEF BindApi, Holder
  <2> QED
    BY <1>0, <1>13, <2>1, <2>3, <2>4, MoveKeeps DEF BindApi, TypeOK
<1>14. ASSUME NEW b \in Bridges, Killed(b) PROVE IInv'
  <2>1. port' \in [Ports -> Holders]
    BY <1>0, <1>14, ReleasedType DEF Killed
  <2>2. TypeOK'
    BY <1>0, <1>14, <2>1 DEF TypeOK, Killed
  <2>3. \A c \in Bridges \ {b}, p \in Ports : c \notin port[p].by => c \notin port'[p].by
    BY <1>0, <1>14, ReleasedLess DEF Killed
  <2> QED
    BY <1>0, <1>14, <2>2, <2>3, MoveKeeps DEF TypeOK, Killed, Running, Ended
<1>15. ASSUME NEW b \in Bridges, CliListens(b) PROVE IInv'
  <2>1. at[b] \notin Ended /\ at' = at /\ api' = api
    BY <1>15 DEF CliListens, IInv, EndedIsQuiet
  <2>2. port' \in [Ports -> Holders]
    BY <1>0, <1>15, HolderTypes DEF CliListens
  <2>3. TypeOK'
    BY <1>0, <1>15, <2>2 DEF TypeOK, CliListens
  <2>4. \A c \in Bridges \ {b}, p \in Ports : c \notin port[p].by => c \notin port'[p].by
    BY <1>0, <1>15 DEF CliListens, Holder
  <2> QED
    BY <1>0, <1>15, <2>1, <2>3, <2>4, MoveKeeps DEF CliListens, TypeOK
<1>16. ASSUME NEW b \in Bridges, CliFillsPipe(b) PROVE IInv'
  <2>1. TypeOK'
    BY <1>0, <1>16 DEF TypeOK, CliFillsPipe
  <2> QED
    BY <1>0, <1>16, <2>1, MoveKeeps DEF TypeOK, CliFillsPipe, Running, Ended
<1>17. ASSUME NEW b \in Bridges, CliExits(b) PROVE IInv'
  <2>1. at[b] \notin Ended /\ at' = at /\ api' = api
    BY <1>17 DEF CliExits, IInv, EndedIsQuiet
  <2>2. port' \in [Ports -> Holders]
    BY <1>0, <1>17, ReleasedType DEF CliExits
  <2>3. TypeOK'
    BY <1>0, <1>17, <2>2 DEF TypeOK, CliExits
  <2>4. \A c \in Bridges \ {b}, p \in Ports : c \notin port[p].by => c \notin port'[p].by
    BY <1>0, <1>17, ReleasedLess DEF CliExits
  <2> QED
    BY <1>0, <1>17, <2>1, <2>3, <2>4, MoveKeeps DEF CliExits, TypeOK
<1>18. CASE ForeignLeaves
  <2>1. PICK p \in Ports : port' = [port EXCEPT ![p] = Free]
    BY <1>18 DEF ForeignLeaves
  <2>2. UNCHANGED <<config, at, polls, cli, api, version>>
    BY <1>18 DEF ForeignLeaves
  <2>3. TypeOK'
    BY <1>0, <2>1, <2>2, HolderTypes DEF TypeOK
  <2>4. \A c \in Bridges, q \in Ports : c \notin port[q].by => c \notin port'[q].by
    BY <1>0, <2>1 DEF Free
  <2> QED
    BY <2>2, <2>3, <2>4 DEF IInv, EndedIsQuiet, EndedHoldsNoPort
<1>19. CASE UNCHANGED vars
  BY <1>19 DEF vars, IInv, TypeOK, EndedIsQuiet, EndedHoldsNoPort
<1> QED
  BY <1>1, <1>2, <1>3, <1>4, <1>5, <1>6, <1>7, <1>8, <1>9, <1>10, <1>11, <1>12, <1>13, <1>14,
     <1>15, <1>16, <1>17, <1>18, <1>19 DEF Next, Process, Main

LEMMA Invariance == Spec => []IInv
<1> QED
  BY InitHolds, NextHolds, PTL DEF Spec

(* Type correctness of Startup. *)
THEOREM TypeCorrect == Spec => []TypeOK
<1>1. IInv => TypeOK
  BY DEF IInv
<1> QED
  BY <1>1, Invariance, PTL

(* A bridge that comes to an end by itself leaves no CLI and no listener      *)
(* behind, whichever error ended it: only a signal can.                      *)
THEOREM NothingLeftBehind == Spec => []CliDiesWithBridge
<1>1. IInv => CliDiesWithBridge
  BY DEF IInv, EndedIsQuiet, EndedHoldsNoPort, CliDiesWithBridge
<1> QED
  BY <1>1, Invariance, PTL
-------------------------------------------------------------------------------
(* The words of a command line.                                             *)

(* An option is among some words if one of them is it. *)
LEMMA HasFacts ==
    ASSUME NEW args \in Seq(Words), NEW i \in DOMAIN args, NEW texts, args[i].text \in texts
    PROVE  \E k \in FirstOf(args, texts) : k <= i
<1> DEFINE S == {k \in DOMAIN args : args[k].text \in texts}
<1>1. S \in SUBSET Nat /\ i \in S
  OBVIOUS
<1>2. PICK k \in S : \A n \in S : k <= n
  <2>1. PICK k \in S : \A n \in S : <<n, k>> \notin OpToRel(<, Nat)
    BY <1>1, NatLessThanWellFounded, WFMin
  <2>2. \A n \in S : ~(n < k)
    BY <1>1, <2>1 DEF OpToRel
  <2> QED BY <1>1, <2>2
<1>3. \A j \in 1..(k - 1) : args[j].text \notin texts
  BY <1>2
<1>4. k \in FirstOf(args, texts) /\ k <= i
  BY <1>1, <1>2, <1>3 DEF FirstOf
<1> QED BY <1>4

LEMMA PortsNamedTyped ==
    ASSUME NEW args \in Seq(Words)
    PROVE  PortsNamed(args) \subseteq Ports \cup {None} /\ IsFiniteSet(PortsNamed(args))
<1>1. \A i \in DOMAIN args : args[i].port \in Ports \cup {None}
  <2>1. \A i \in DOMAIN args : args[i] \in Words
    OBVIOUS
  <2>2. \A word \in Words : word.port \in Ports \cup {None}
    BY DEF Words
  <2> QED BY <2>1, <2>2
<1>2. \A i \in DOMAIN args : i < Len(args) => i + 1 \in DOMAIN args
  OBVIOUS
<1>3. PortsNamed(args) \subseteq Ports \cup {None}
  BY <1>1, <1>2 DEF PortsNamed
<1>4. IsFiniteSet(Ports \cup {None})
  <2>1. IsFiniteSet(Ports)
    BY FS_Interval, BoundsAssumption DEF Ports
  <2> QED BY <2>1, FS_AddElement
<1> QED BY <1>3, <1>4, FS_Subset

(* A port that tcp_port_arg finds is one that is named. *)
LEMMA FoundIsNamed ==
    ASSUME NEW args \in Seq(Words), tcp_port_arg(args) # None
    PROVE  tcp_port_arg(args) \in PortsNamed(args)
<1> DEFINE found == {IF args[i].text = "--port=" THEN args[i].port
                     ELSE IF i < Len(args) THEN args[i + 1].port ELSE None :
                         i \in FirstOf(args, {"--port", "--port="})}
<1>1. found # {} /\ tcp_port_arg(args) \in found
  BY DEF tcp_port_arg
<1>2. PICK i \in FirstOf(args, {"--port", "--port="}) :
          tcp_port_arg(args) = IF args[i].text = "--port=" THEN args[i].port
                               ELSE IF i < Len(args) THEN args[i + 1].port ELSE None
  BY <1>1
<1>3. i \in DOMAIN args /\ args[i].text \in {"--port", "--port="}
  BY <1>2 DEF FirstOf
<1> QED BY <1>2, <1>3 DEF PortsNamed

LEMMA WordsTyped ==
    /\ {Word("--acp"), Word("--port"), Word("--stdio"), Word("--resume")} \subseteq Words
    /\ \A p \in Ports : Number(p) \in Words
BY DEF Word, Number, Words, Texts

(* Arguments that begin with given words. *)
LEMMA Prefixed ==
    ASSUME NEW W, NEW first \in Seq(W), NEW extra \in Seq(W)
    PROVE  /\ first \o extra \in Seq(W)
           /\ Len(first) <= Len(first \o extra)
           /\ \A i \in DOMAIN first : i \in DOMAIN (first \o extra) /\ (first \o extra)[i] = first[i]
OBVIOUS

LEMMA DefaultTcpFacts ==
    ASSUME NEW p \in Ports, NEW extra \in Seq(Words), NEW program
    PROVE  /\ default_tcp(program, p, extra).args \in Seq(Words)
           /\ p \in PortsNamed(default_tcp(program, p, extra).args)
<1> DEFINE first == <<Word("--acp"), Word("--port"), Number(p), Word("--resume")>>
           args == first \o extra
<1>1. first \in Seq(Words)
  BY WordsTyped
<1>2. /\ Len(first) = 4 /\ DOMAIN first = 1..4
      /\ first[2] = Word("--port") /\ first[3] = Number(p)
  OBVIOUS
<1> HIDE DEF first
<1>3. args \in Seq(Words) /\ Len(args) >= 4
      /\ \A i \in 1..4 : i \in DOMAIN args /\ args[i] = first[i]
  BY <1>1, <1>2, Prefixed
<1> HIDE DEF args
<1>4. 2 \in DOMAIN args /\ args[2] = first[2] /\ args[3] = first[3] /\ 2 < Len(args)
  BY <1>3
<1>5. args[2 + 1].port = p
  <2>1. 2 + 1 = 3
    OBVIOUS
  <2>2. Number(p).port = p
    BY DEF Number
  <2> QED BY <1>2, <1>4, <2>1, <2>2
<1>6. p \in PortsNamed(args)
  BY <1>2, <1>4, <1>5 DEF PortsNamed, Word
<1>7. default_tcp(program, p, extra).args = args
  BY DEF default_tcp, args, first
<1> QED BY <1>3, <1>6, <1>7

LEMMA DefaultStdioFacts ==
    ASSUME NEW extra \in Seq(Words), NEW program
    PROVE  /\ default_stdio(program, extra).args \in Seq(Words)
           /\ Has(default_stdio(program, extra).args, "--acp")
           /\ Has(default_stdio(program, extra).args, "--stdio")
<1> DEFINE first == <<Word("--acp"), Word("--stdio"), Word("--resume")>>
           args == first \o extra
<1>1. first \in Seq(Words)
  BY WordsTyped
<1>2. DOMAIN first = 1..3 /\ first[1].text = "--acp" /\ first[2].text = "--stdio"
  BY DEF Word
<1> HIDE DEF first
<1>3. args \in Seq(Words) /\ \A i \in 1..3 : i \in DOMAIN args /\ args[i] = first[i]
  BY <1>1, <1>2, Prefixed
<1> HIDE DEF args
<1>4. /\ 1 \in DOMAIN args /\ args[1].text \in {"--acp"}
      /\ 2 \in DOMAIN args /\ args[2].text \in {"--stdio"}
  BY <1>2, <1>3
<1>5. Has(args, "--acp") /\ Has(args, "--stdio")
  BY <1>3, <1>4, HasFacts DEF Has
<1>6. default_stdio(program, extra).args = args
  BY DEF default_stdio, args, first
<1> QED BY <1>3, <1>5, <1>6

(* What is started speaks ACP where the bridge expects it to, if the command  *)
(* passed the validation.                                                   *)
LEMMA CommandFacts ==
    ASSUME config \in Configs, ValidCommand
    PROVE  /\ SpawnCommand.args \in Seq(Words)
           /\ effective_copilot_mode = "tcp" => config.copilot_port \in PortsNamed(SpawnCommand.args)
           /\ effective_copilot_mode = "stdio" =>
                 Has(StdioCommand.args, "--acp") /\ ListenPorts(StdioCommand.args) = {}
<1>1. /\ config.copilot_port \in Ports /\ config.copilot_args \in Seq(Words)
      /\ \A raw \in config.acp_command : raw.words \in Seq(Words)
  BY ConfigsAssumption, Zenon
<1>2. CASE config.acp_command = {}
  <2>1. /\ SpawnCommand = default_tcp(config.copilot_path, config.copilot_port, config.copilot_args)
        /\ StdioCommand = default_stdio(config.copilot_path, config.copilot_args)
    BY <1>2 DEF SpawnCommand, StdioCommand
  <2>2. Has(StdioCommand.args, "--acp") /\ Has(StdioCommand.args, "--stdio")
    BY <1>1, <2>1, DefaultStdioFacts
  <2>3. SpawnCommand.args \in Seq(Words) /\ config.copilot_port \in PortsNamed(SpawnCommand.args)
    BY <1>1, <2>1, DefaultTcpFacts
  <2> QED BY <2>2, <2>3 DEF ListenPorts
<1>3. CASE config.acp_command # {}
  <2>1. PICK raw \in config.acp_command :
           SpawnCommand = exact_override(raw) /\ StdioCommand = exact_override(raw)
    BY <1>3 DEF SpawnCommand, StdioCommand
  <2> DEFINE args == exact_override(raw).args
  <2>2. /\ raw.words \in Seq(Words) /\ raw.words # <<>>
        /\ validate_command_override_for_mode(raw, effective_copilot_mode, config.copilot_port)
    BY <1>1 DEF ValidCommand, ParsesAsCommand
  <2>3. args \in Seq(Words)
    BY <2>2 DEF exact_override
  <2>4. /\ Has(args, "--acp")
        /\ effective_copilot_mode = "stdio" => Has(args, "--stdio")
        /\ effective_copilot_mode = "tcp" => tcp_port_arg(args) = config.copilot_port
    BY <2>2 DEF validate_command_override_for_mode
  <2>5. config.copilot_port # None
    BY <1>1 DEF Ports, None
  <2> HIDE DEF args
  <2>6. effective_copilot_mode = "tcp" => config.copilot_port \in PortsNamed(args)
    BY <2>3, <2>4, <2>5, FoundIsNamed
  <2> QED BY <2>1, <2>3, <2>4, <2>6 DEF ListenPorts, args
<1> QED BY <1>2, <1>3
-------------------------------------------------------------------------------
(* What each step does to a process and to the ports.                       *)

(* main has come past its arguments. *)
Checked == {"cert", "spawn", "wait", "dir", "probe", "probing", "tls", "bind", "serve"}

Mine(b) == Servers(b) \cup {Holder("cli", b)}

(* A port is released by its holder, or taken when it is free. *)
PortMoves(b, p) ==
    \/ port'[p] = port[p]
    \/ port[p] \in Mine(b) /\ port'[p] = Free
    \/ /\ port[p] = Free
       /\ \/ port'[p] = Holder("ws", b) /\ p = config.ws_port /\ at'[b] = "serve"
          \/ port'[p] = Holder("api", b) /\ p = api_port /\ api[b] = "starting"
          \/ /\ port'[p] = Holder("cli", b) /\ p \in ListenPorts(SpawnCommand.args)
             /\ cli[b] = "up"

(* One process moves. *)
Moves(b) ==
    /\ \A x \in Bridges \ {b} : at'[x] = at[x] /\ cli'[x] = cli[x] /\ api'[x] = api[x]
    /\ \A p \in Ports : PortMoves(b, p)
    /\ at'[b] # "off"
    /\ at'[b] \in Checked => at[b] \in Checked \/ ValidCommand
    /\ at'[b] = "cert" => at[b] = "cert" \/ config.generate_cert
    /\ at'[b] = "failed" =>
          \/ at[b] = "failed"
          \/ BadOptions
          \/ at[b] = "cert"
          \/ at[b] = "bind" /\ port[config.ws_port] # Free
    /\ at[b] = "serve" => at'[b] = "serve" \/ \A p \in Ports : port'[p] # Holder("ws", b)
    /\ cli'[b] # "none" => cli[b] # "none" \/ (at[b] = "spawn" /\ effective_copilot_mode # "stdio")
    /\ cli[b] # "none" => cli'[b] # "none"
    /\ cli'[b] = "listening" =>
          \/ cli[b] = "listening" /\ \A p \in Ports : port[p] = Holder("cli", b) => port'[p] = port[p]
          \/ \E p \in Ports : port'[p] = Holder("cli", b)

StartupSteps ==
    /\ config' = config
    /\ \/ UNCHANGED <<at, cli, api, port>>
       \/ \E b \in Bridges : Moves(b)
       \/ /\ UNCHANGED <<at, cli, api>>
          /\ \A p \in Ports : port'[p] = port[p] \/ (port[p] = Foreign /\ port'[p] = Free)

(* A process that was not started has started nothing. *)
OffIsQuiet == \A b \in Bridges : at[b] = "off" => cli[b] = "none" /\ api[b] = "none"

LEMMA HolderFacts ==
    /\ \A b \in Bridges : Free \notin Mine(b) /\ Foreign \notin Mine(b)
    /\ \A b, x \in Bridges : \A kind, other : Holder(kind, b) = Holder(other, x) => b = x /\ kind = other
    /\ \A b \in Bridges : \A kind : Holder(kind, b) # Free /\ Holder(kind, b) # Foreign
    /\ Free # Foreign
BY DEF Mine, Servers, Holder, Free, Foreign

LEMMA ReleasedMoves ==
    ASSUME NEW b \in Bridges, NEW holders \in SUBSET Mine(b), port' = Released(holders)
    PROVE  /\ \A p \in Ports : PortMoves(b, p)
           /\ \A h \in holders, p \in Ports : port'[p] # h
<1>1. \A p \in Ports : port'[p] = IF port[p] \in holders THEN Free ELSE port[p]
  BY DEF Released
<1> QED BY <1>1, HolderFacts DEF PortMoves

(* main moves on. *)
LEMMA PlaceMoves ==
    ASSUME TypeOK, NEW b \in Bridges, NEW place, place # "off", place # "failed",
           at' = [at EXCEPT ![b] = place], UNCHANGED <<cli, port>>,
           api' = api \/ api' = [api EXCEPT ![b] = "starting"],
           at[b] # "serve",
           place \in Checked => at[b] \in Checked \/ ValidCommand,
           place = "cert" => config.generate_cert
    PROVE  Moves(b)
BY DEF TypeOK, Moves, PortMoves

LEMMA EndsMoves ==
    ASSUME TypeOK, NEW b \in Bridges, NEW how \in Ended, Ends(b, how), at[b] # "serve",
           how = "failed" =>
               \/ BadOptions \/ at[b] = "cert"
               \/ at[b] = "bind" /\ port[config.ws_port] # Free
    PROVE  Moves(b)
<1>1. /\ at' = [at EXCEPT ![b] = how] /\ api' = [api EXCEPT ![b] = "none"]
      /\ cli' = [cli EXCEPT ![b] = IF @ = "none" THEN @ ELSE "gone"]
      /\ port' = Released(Mine(b))
  BY DEF Ends, GoTo, Mine
<1>2. \A p \in Ports : PortMoves(b, p)
  BY <1>1, ReleasedMoves
<1>3. /\ at'[b] = how /\ cli'[b] \in {"none", "gone"} /\ (cli'[b] = "none" <=> cli[b] = "none")
      /\ \A x \in Bridges \ {b} : at'[x] = at[x] /\ cli'[x] = cli[x] /\ api'[x] = api[x]
  BY <1>1 DEF TypeOK
<1>4. how \notin Checked /\ how # "off" /\ how # "cert"
  BY DEF Ended, Checked
<1> QED BY <1>2, <1>3, <1>4 DEF Moves

LEMMA MainMoves ==
    ASSUME IInv, NEW b \in Bridges, Main(b)
    PROVE  Moves(b)
<1>0. TypeOK
  BY DEF IInv
<1>1. CASE UsageError(b)
  BY <1>0, <1>1, EndsMoves DEF UsageError, Ended
<1>2. CASE CheckArgs(b)
  <2>1. CASE ~ValidCommand
    BY <1>0, <1>2, <2>1, EndsMoves DEF CheckArgs, Ended, BadOptions
  <2>2. CASE ValidCommand
    <3> DEFINE place == IF config.generate_cert THEN "cert" ELSE "spawn"
    <3>1. /\ at' = [at EXCEPT ![b] = place] /\ UNCHANGED <<cli, port, api>> /\ at[b] # "serve"
      BY <1>2, <2>2 DEF CheckArgs, GoTo
    <3>2. place # "off" /\ place # "failed" /\ (place = "cert" => config.generate_cert)
      OBVIOUS
    <3> HIDE DEF place
    <3> QED BY <1>0, <2>2, <3>1, <3>2, PlaceMoves
  <2> QED BY <2>1, <2>2
<1>3. CASE GenerateCert(b)
  BY <1>0, <1>3, EndsMoves DEF GenerateCert, Ended
<1>4. CASE NoSharedCli(b)
  BY <1>0, <1>4, PlaceMoves DEF NoSharedCli, GoTo, Checked
<1>5. CASE SpawnTcp(b)
  <2>1. /\ at[b] = "spawn" /\ effective_copilot_mode # "stdio" /\ UNCHANGED <<api, port>>
        /\ \/ at' = [at EXCEPT ![b] = "wait"] /\ cli' = [cli EXCEPT ![b] = "up"]
           \/ at' = [at EXCEPT ![b] = "dir"] /\ cli' = cli
    BY <1>5 DEF SpawnTcp, GoTo
  <2> QED BY <1>0, <2>1 DEF TypeOK, Moves, PortMoves, Checked
<1>6. CASE Poll(b)
  <2>1. CASE at' = at
    BY <1>0, <1>6, <2>1 DEF TypeOK, Poll, Moves, PortMoves
  <2>2. CASE at' = [at EXCEPT ![b] = "dir"]
    BY <1>0, <1>6, <2>2, PlaceMoves DEF Poll, Checked
  <2> QED BY <1>6, <2>1, <2>2 DEF Poll, GoTo
<1>7. CASE ResolveDir(b)
  BY <1>0, <1>7, EndsMoves, PlaceMoves DEF ResolveDir, GoTo, Checked, Ended, BadOptions
<1>8. CASE Probe(b)
  <2> DEFINE place == IF version_probe_command(config.copilot_path, config.acp_command).program
                           \in config.installed THEN "probing" ELSE "tls"
  <2>1. at' = [at EXCEPT ![b] = place] /\ UNCHANGED <<cli, port, api>> /\ at[b] = "probe"
    BY <1>8 DEF Probe, GoTo
  <2>2. place # "off" /\ place # "failed" /\ place # "cert"
    OBVIOUS
  <2> HIDE DEF place
  <2> QED BY <1>0, <2>1, <2>2, PlaceMoves DEF Checked
<1>9. CASE LoadTls(b)
  <2>1. CASE TlsGiven = {"cert", "key"} /\ ~TlsLoads
    BY <1>0, <1>9, <2>1, EndsMoves DEF LoadTls, Ended, BadOptions
  <2>2. CASE ~(TlsGiven = {"cert", "key"} /\ ~TlsLoads)
    BY <1>0, <1>9, <2>2, PlaceMoves DEF LoadTls, GoTo, Checked
  <2> QED BY <2>1, <2>2
<1>10. CASE BindWs(b)
  <2>1. CASE ~CanBindWs \/ Cardinality(TlsGiven) = 1
    <3>1. /\ at[b] = "bind" /\ Ends(b, "failed")
          /\ BadOptions \/ port[config.ws_port] # Free
      <4>1. config \in Configs
        BY <1>0 DEF TypeOK
      <4>2. config.listen_addr \in {"here", "elsewhere"}
        BY <4>1, ConfigsAssumption, Zenon
      <4> QED BY <1>10, <2>1, <4>2 DEF BindWs, CanBindWs, BadOptions
    <3> QED BY <1>0, <3>1, EndsMoves DEF Ended
  <2>2. CASE ~(~CanBindWs \/ Cardinality(TlsGiven) = 1)
    <3>1. /\ at[b] = "bind" /\ port[config.ws_port] = Free
          /\ at' = [at EXCEPT ![b] = "serve"]
          /\ port' = [port EXCEPT ![config.ws_port] = Holder("ws", b)] /\ UNCHANGED <<cli, api>>
      BY <1>10, <2>2 DEF BindWs, CanBindWs, GoTo
    <3>2. at'[b] = "serve" /\ \A x \in Bridges \ {b} : at'[x] = at[x]
      BY <1>0, <3>1 DEF TypeOK
    <3>3. \A p \in Ports : PortMoves(b, p)
      BY <1>0, <3>1, <3>2 DEF TypeOK, PortMoves
    <3>4. \A p \in Ports : port[p] = Holder("cli", b) => port'[p] = port[p]
      BY <1>0, <3>1, HolderFacts DEF TypeOK
    <3> QED BY <3>1, <3>2, <3>3, <3>4 DEF Moves, Checked
  <2> QED BY <2>1, <2>2
<1> QED BY <1>1, <1>2, <1>3, <1>4, <1>5, <1>6, <1>7, <1>8, <1>9, <1>10 DEF Main

LEMMA ListenPortsTyped ==
    ASSUME config \in Configs, ValidCommand
    PROVE  ListenPorts(SpawnCommand.args) \subseteq Ports
BY CommandFacts, PortsNamedTyped DEF ListenPorts

LEMMA StepMoves ==
    ASSUME IInv, OffIsQuiet, \A b \in Bridges : cli[b] # "none" => ValidCommand, [Next]_vars
    PROVE  StartupSteps
<1>0. TypeOK
  BY DEF IInv
<1>1. ASSUME NEW b \in Bridges, Process(b)
      PROVE  config' = config /\ Moves(b)
  <2>1. config' = config
    BY <1>1 DEF Process, Main, Start, UsageError, CheckArgs, GenerateCert, NoSharedCli, SpawnTcp, Poll,
                ResolveDir, Probe, LoadTls, BindWs, ProbeAnswers, BindApi, Killed, CliListens,
                CliFillsPipe, CliExits, Ends
  <2>2. CASE Start(b)
    BY <1>0, <2>2, PlaceMoves DEF Start, GoTo, Checked
  <2>3. CASE ProbeAnswers(b)
    BY <1>0, <2>3, PlaceMoves DEF ProbeAnswers, GoTo, Checked
  <2>4. CASE BindApi(b)
    <3>1. /\ at' = at /\ cli' = cli /\ api[b] = "starting" /\ at[b] # "off"
          /\ \A x \in Bridges \ {b} : api'[x] = api[x]
      BY <1>0, <2>4 DEF BindApi, TypeOK, OffIsQuiet
    <3>2. \A p \in Ports : port'[p] = port[p] \/ (port[p] = Free /\ port'[p] = Holder("api", b) /\ p = api_port)
      BY <1>0, <2>4 DEF BindApi, TypeOK
    <3>3. \A p \in Ports : port[p] = Holder("cli", b) => port'[p] = port[p]
      BY <3>2, HolderFacts
    <3> QED BY <2>1, <3>1, <3>2, <3>3 DEF Moves, PortMoves
  <2>5. CASE Killed(b)
    <3>1. /\ at' = [at EXCEPT ![b] = "killed"] /\ cli' = cli /\ api' = [api EXCEPT ![b] = "none"]
          /\ port' = Released(Servers(b))
      BY <2>5 DEF Killed, GoTo
    <3>2. /\ \A p \in Ports : PortMoves(b, p)
          /\ \A p \in Ports : port'[p] # Holder("ws", b)
      BY <3>1, ReleasedMoves DEF Mine, Servers
    <3>3. \A p \in Ports : port[p] = Holder("cli", b) => port'[p] = port[p]
      BY <3>1, HolderFacts DEF Released, Servers
    <3> QED BY <1>0, <2>1, <3>1, <3>2, <3>3 DEF Moves, TypeOK, Checked
  <2>6. CASE CliListens(b)
    <3>1. /\ at' = at /\ api' = api /\ cli[b] = "up" /\ at[b] # "off" /\ ValidCommand
          /\ \A x \in Bridges \ {b} : cli'[x] = cli[x]
      BY <1>0, <2>6 DEF CliListens, TypeOK, OffIsQuiet
    <3>2. ASSUME NEW p \in ListenPorts(SpawnCommand.args), port[p] = Free,
                 port' = [port EXCEPT ![p] = Holder("cli", b)], cli' = [cli EXCEPT ![b] = "listening"]
          PROVE  Moves(b)
      <4>1. p \in Ports
        BY <1>0, <3>1, <3>2, ListenPortsTyped DEF TypeOK
      <4>2. port'[p] = Holder("cli", b) /\ \A q \in Ports \ {p} : port'[q] = port[q]
        BY <1>0, <3>2, <4>1 DEF TypeOK
      <4>3. cli'[b] = "listening"
        BY <1>0, <3>2 DEF TypeOK
      <4>4. \A q \in Ports : PortMoves(b, q)
        BY <3>1, <3>2, <4>2 DEF PortMoves
      <4> QED BY <3>1, <4>1, <4>2, <4>3, <4>4 DEF Moves
    <3>3. CASE cli' = [cli EXCEPT ![b] = "gone"] /\ port' = port
      BY <1>0, <2>1, <3>1, <3>3 DEF Moves, PortMoves, TypeOK
    <3> QED BY <2>6, <3>2, <3>3 DEF CliListens
  <2>7. CASE CliFillsPipe(b)
    BY <1>0, <2>7 DEF CliFillsPipe, Moves, PortMoves, TypeOK, Running
  <2>8. CASE CliExits(b)
    <3>1. /\ at' = at /\ api' = api /\ at[b] # "off" /\ cli[b] # "none" /\ cli'[b] = "gone"
          /\ \A x \in Bridges \ {b} : cli'[x] = cli[x]
      BY <1>0, <2>8 DEF CliExits, TypeOK, OffIsQuiet
    <3>2. \A p \in Ports : PortMoves(b, p)
      BY <2>8, ReleasedMoves DEF CliExits, Mine
    <3> QED BY <2>1, <3>1, <3>2 DEF Moves
  <2> QED BY <1>1, <2>1, <2>2, <2>3, <2>4, <2>5, <2>6, <2>7, <2>8, MainMoves DEF Process
<1>2. CASE ForeignLeaves
  BY <1>0, <1>2 DEF ForeignLeaves, StartupSteps, TypeOK
<1>3. CASE UNCHANGED vars
  BY <1>3 DEF vars, StartupSteps
<1> QED BY <1>1, <1>2, <1>3 DEF Next, StartupSteps
-------------------------------------------------------------------------------
(* Why a bridge fails, and where its CLI listens.                           *)

(* The options a process has come past are in order. *)
Vetted ==
    /\ \A b \in Bridges : at[b] \in Checked => ValidCommand
    /\ \A b \in Bridges : at[b] = "cert" => config.generate_cert
    /\ \A b \in Bridges : cli[b] # "none" => ValidCommand /\ effective_copilot_mode # "stdio"

(* Every port is held for a reason. *)
PortsHeld ==
    \A p \in Ports :
        /\ port[p] = Foreign => p \in config.taken
        /\ \A b \in Bridges :
              /\ port[p] = Holder("ws", b) => at[b] = "serve"
              /\ port[p] = Holder("api", b) => p = api_port /\ at[b] # "off"
              /\ port[p] = Holder("cli", b) => p \in ListenPorts(SpawnCommand.args) /\ cli[b] # "none"

(* A CLI that listens does so on a port of its arguments. *)
CliOnPort == \A b \in Bridges : cli[b] = "listening" => \E p \in Ports : port[p] = Holder("cli", b)

Reasons == OffIsQuiet /\ Vetted /\ PortsHeld /\ CliOnPort /\ FailsWithReason

LEMMA SameConfig ==
    ASSUME config' = config
    PROVE  /\ ValidCommand' = ValidCommand /\ effective_copilot_mode' = effective_copilot_mode
           /\ api_port' = api_port /\ SpawnCommand' = SpawnCommand /\ BadOptions' = BadOptions
BY DEF ValidCommand, effective_copilot_mode, api_port, SpawnCommand, BadOptions, TlsGiven, TlsLoads

LEMMA ReasonsInit == Init => Reasons
<1> SUFFICES ASSUME Init PROVE Reasons
  OBVIOUS
<1>1. /\ \A b \in Bridges : at[b] = "off" /\ cli[b] = "none" /\ api[b] = "none"
      /\ \A p \in Ports : port[p] = Free \/ (port[p] = Foreign /\ p \in config.taken)
  BY DEF Init
<1>2. "off" \notin Checked
  BY DEF Checked
<1> QED BY <1>1, <1>2, HolderFacts
        DEF Reasons, OffIsQuiet, Vetted, PortsHeld, CliOnPort, FailsWithReason

(* At the bind, alone and with good options, the port is free. *)
LEMMA BindFinds ==
    ASSUME IInv, Reasons, NEW b \in Bridges, at[b] = "bind", port[config.ws_port] # Free, ~BadOptions
    PROVE  config.ws_port \in config.taken \/ \E other \in Bridges \ {b} : at[other] # "off"
<1>1. config \in Configs /\ port \in [Ports -> Holders]
  BY DEF IInv, TypeOK
<1>2. config.ws_port \in Ports
  BY <1>1, ConfigsAssumption
<1>3. CASE port[config.ws_port] = Foreign
  BY <1>2, <1>3 DEF Reasons, PortsHeld
<1>4. ASSUME NEW kind \in {"ws", "api", "cli"}, NEW other \in Bridges,
             port[config.ws_port] = Holder(kind, other)
      PROVE  other # b /\ at[other] # "off"
  <2>1. /\ kind = "ws" => at[other] = "serve"
        /\ kind = "api" => config.ws_port = api_port /\ at[other] # "off"
        /\ kind = "cli" => config.ws_port \in ListenPorts(SpawnCommand.args) /\ cli[other] # "none"
    BY <1>2, <1>4 DEF Reasons, PortsHeld
  <2>2. kind # "api"
    BY <2>1 DEF BadOptions
  <2>3. kind # "cli"
    BY <2>1 DEF BadOptions, Reasons, Vetted
  <2> QED BY <2>1, <2>2, <2>3
<1>5. port[config.ws_port] \in Holders
  BY <1>1, <1>2
<1> QED BY <1>3, <1>4, <1>5, HolderCases

LEMMA ReasonsNext ==
    ASSUME IInv, Reasons, [Next]_vars
    PROVE  Reasons'
<1>1. StartupSteps /\ config' = config
  BY StepMoves DEF Reasons, Vetted, StartupSteps
<1>2. /\ ValidCommand' = ValidCommand /\ effective_copilot_mode' = effective_copilot_mode
      /\ api_port' = api_port /\ SpawnCommand' = SpawnCommand /\ BadOptions' = BadOptions
  BY <1>1, SameConfig
<1>3. CASE UNCHANGED <<at, cli, api, port>>
  BY <1>1, <1>2, <1>3
  DEF Reasons, OffIsQuiet, Vetted, PortsHeld, CliOnPort, FailsWithReason
<1>4. CASE /\ UNCHANGED <<at, cli, api>>
           /\ \A p \in Ports : port'[p] = port[p] \/ (port[p] = Foreign /\ port'[p] = Free)
  <2>1. PortsHeld' /\ CliOnPort'
    BY <1>1, <1>2, <1>4, HolderFacts DEF Reasons, PortsHeld, CliOnPort
  <2> QED BY <1>1, <1>2, <1>4, <2>1 DEF Reasons, OffIsQuiet, Vetted, FailsWithReason
<1>5. ASSUME NEW b \in Bridges, Moves(b)
      PROVE  Reasons'
  <2>1. \A x \in Bridges \ {b} : at'[x] = at[x] /\ cli'[x] = cli[x] /\ api'[x] = api[x]
    BY <1>5 DEF Moves
  <2>2. OffIsQuiet'
    BY <1>5, <2>1 DEF Moves, Reasons, OffIsQuiet
  <2>3. Vetted'
    <3>1. \A x \in Bridges : at'[x] \in Checked => ValidCommand
      BY <1>5, <2>1 DEF Moves, Reasons, Vetted
    <3>2. \A x \in Bridges : at'[x] = "cert" => config.generate_cert
      BY <1>5, <2>1 DEF Moves, Reasons, Vetted
    <3>3. \A x \in Bridges : cli'[x] # "none" => ValidCommand /\ effective_copilot_mode # "stdio"
      BY <1>5, <2>1 DEF Moves, Reasons, Vetted, Checked
    <3> QED BY <1>1, <1>2, <3>1, <3>2, <3>3 DEF Vetted
  <2>4. ASSUME NEW p \in Ports
        PROVE  /\ port'[p] = Foreign => p \in config.taken
               /\ \A x \in Bridges :
                     /\ port'[p] = Holder("ws", x) => at'[x] = "serve"
                     /\ port'[p] = Holder("api", x) => p = api_port /\ at'[x] # "off"
                     /\ port'[p] = Holder("cli", x) =>
                           p \in ListenPorts(SpawnCommand.args) /\ cli'[x] # "none"
    <3>1. PortMoves(b, p)
      BY <1>5 DEF Moves
    <3>2. port'[p] = port[p] \/ port'[p] = Free \/ \E kind \in {"ws", "api", "cli"} : port'[p] = Holder(kind, b)
      BY <3>1 DEF PortMoves
    <3>3. port'[p] = Foreign => p \in config.taken
      BY <3>2, HolderFacts DEF Reasons, PortsHeld
    <3>4. ASSUME NEW x \in Bridges, port'[p] = Holder("ws", x)
          PROVE  at'[x] = "serve"
      <4>1. CASE port'[p] = port[p]
        BY <1>5, <2>1, <3>4, <4>1 DEF Moves, Reasons, PortsHeld
      <4>2. CASE port'[p] # port[p]
        BY <3>1, <3>4, <4>2, HolderFacts DEF PortMoves
      <4> QED BY <4>1, <4>2
    <3>5. ASSUME NEW x \in Bridges, port'[p] = Holder("api", x)
          PROVE  p = api_port /\ at'[x] # "off"
      <4>1. CASE port'[p] = port[p]
        BY <1>5, <2>1, <3>5, <4>1 DEF Moves, Reasons, PortsHeld
      <4>2. CASE port'[p] # port[p]
        BY <1>5, <3>1, <3>5, <4>2, HolderFacts DEF PortMoves, Moves
      <4> QED BY <4>1, <4>2
    <3>6. ASSUME NEW x \in Bridges, port'[p] = Holder("cli", x)
          PROVE  p \in ListenPorts(SpawnCommand.args) /\ cli'[x] # "none"
      <4>1. CASE port'[p] = port[p]
        BY <1>5, <2>1, <3>6, <4>1 DEF Moves, Reasons, PortsHeld
      <4>2. CASE port'[p] # port[p]
        BY <1>5, <3>1, <3>6, <4>2, HolderFacts DEF PortMoves, Moves
      <4> QED BY <4>1, <4>2
    <3> QED BY <3>3, <3>4, <3>5, <3>6
  <2>5. PortsHeld'
    BY <1>1, <1>2, <2>4 DEF PortsHeld
  <2>6. ASSUME NEW x \in Bridges, cli'[x] = "listening"
        PROVE  \E p \in Ports : port'[p] = Holder("cli", x)
    <3>1. CASE x = b
      BY <1>5, <2>6, <3>1 DEF Moves, Reasons, CliOnPort
    <3>2. CASE x # b
      <4>1. PICK p \in Ports : port[p] = Holder("cli", x)
        BY <2>1, <2>6, <3>2 DEF Reasons, CliOnPort
      <4>2. port[p] \notin Mine(b) /\ port[p] # Free
        BY <3>2, <4>1, HolderFacts DEF Mine, Servers
      <4>3. port'[p] = port[p]
        BY <1>5, <4>2 DEF Moves, PortMoves
      <4> QED BY <4>1, <4>3
    <3> QED BY <3>1, <3>2
  <2>7. FailsWithReason'
    <3> SUFFICES ASSUME NEW x \in Bridges, at'[x] = "failed", ~BadOptions, config.ws_port \notin config.taken
                 PROVE  \E other \in Bridges \ {x} : at'[other] # "off"
      BY <1>1, <1>2 DEF FailsWithReason
    <3>1. \A y \in Bridges : at[y] # "off" => at'[y] # "off"
      BY <1>5, <2>1 DEF Moves
    <3>2. CASE at[x] = "failed"
      BY <3>1, <3>2 DEF Reasons, FailsWithReason
    <3>3. CASE at[x] # "failed"
      <4>1. x = b
        BY <2>1, <3>3
      <4>2. at[b] = "cert" \/ (at[b] = "bind" /\ port[config.ws_port] # Free)
        BY <1>5, <3>3, <4>1 DEF Moves
      <4>3. at[b] # "cert"
        BY DEF Reasons, Vetted, BadOptions
      <4>4. \E other \in Bridges \ {b} : at[other] # "off"
        BY <4>2, <4>3, BindFinds
      <4> QED BY <3>1, <4>1, <4>4
    <3> QED BY <3>2, <3>3
  <2> QED BY <2>2, <2>3, <2>5, <2>6, <2>7 DEF Reasons, CliOnPort
<1> QED BY <1>1, <1>3, <1>4, <1>5 DEF StartupSteps

LEMMA ReasonsInvariant == Spec => []Reasons
<1> QED BY ReasonsInit, ReasonsNext, Invariance, PTL DEF Spec

(* A bridge that runs alone with options that fit together fails for no       *)
(* other reason than a WebSocket port that was taken: not for its CLI, not   *)
(* for the REST API (docs/architecture.md, Failure handling).                *)
THEOREM FailureExplained == Spec => []FailsWithReason
<1>1. Reasons => FailsWithReason
  BY DEF Reasons
<1> QED BY <1>1, ReasonsInvariant, PTL

(* Whatever the options are that pass the checks, the relays and the CLI      *)
(* agree on the transport: every client's child gets --acp and --stdio, and  *)
(* the shared CLI, once it listens, is what holds the port of this machine   *)
(* that relays connect to.  Of a --copilot-host elsewhere nothing is said.   *)
THEOREM TransportsAgree == Spec => []TransportMatches
<1>1. IInv /\ Reasons => TransportMatches
  <2> SUFFICES ASSUME IInv, Reasons, NEW b \in Bridges
               PROVE  /\ at[b] = "serve" /\ effective_copilot_mode = "stdio" =>
                            Has(StdioCommand.args, "--acp") /\ ListenPorts(StdioCommand.args) = {}
                      /\ cli[b] = "listening" /\ effective_copilot_mode = "tcp"
                         /\ config.copilot_host = "local"
                         /\ Cardinality(PortsNamed(SpawnCommand.args)) = 1 =>
                            port[config.copilot_port] = Holder("cli", b)
    BY DEF TransportMatches
  <2>1. config \in Configs
    BY DEF IInv, TypeOK
  <2>2. at[b] = "serve" => ValidCommand
    BY DEF Reasons, Vetted, Checked
  <2>3. ASSUME cli[b] = "listening", effective_copilot_mode = "tcp",
               Cardinality(PortsNamed(SpawnCommand.args)) = 1
        PROVE  port[config.copilot_port] = Holder("cli", b)
    <3>1. ValidCommand
      BY <2>3 DEF Reasons, Vetted
    <3>2. PICK p \in Ports : port[p] = Holder("cli", b)
      BY <2>3 DEF Reasons, CliOnPort
    <3>3. p \in PortsNamed(SpawnCommand.args)
      BY <3>2 DEF Reasons, PortsHeld, ListenPorts
    <3>4. /\ config.copilot_port \in PortsNamed(SpawnCommand.args)
          /\ IsFiniteSet(PortsNamed(SpawnCommand.args))
      BY <2>1, <2>3, <3>1, CommandFacts, PortsNamedTyped
    <3>5. \E q : PortsNamed(SpawnCommand.args) = {q}
      BY <2>3, <3>4, FS_Singleton
    <3> QED BY <3>2, <3>3, <3>4, <3>5
  <2> QED BY <2>1, <2>2, <2>3, CommandFacts
<1> QED BY <1>1, Invariance, ReasonsInvariant, PTL

(* GET /api/copilot/info contradicts itself, and the comment of              *)
(* is_copilot_ga, on the versions 0.1.0 and up before 1.0.0, whatever their  *)
(* parts, and on no others: "features" lists "ga" and "ga" is false.         *)
THEOREM GaDisagreement ==
    ASSUME NEW v \in Seq(Nat)
    PROVE  /\ is_copilot_ga(v) => "ga" \in detect_features(v)
           /\ "ga" \in detect_features(v) /\ ~is_copilot_ga(v)
              <=> Len(v) >= 3 /\ v[1] = 0 /\ v[2] > 0
<1>1. "ga" \in DOMAIN FeatureBounds /\ FeatureBounds["ga"] = <<0, 0, 418>>
  BY DEF FeatureBounds
<1>2. "ga" \in detect_features(v) <=> Len(v) >= 3 /\ AtLeast(v, <<0, 0, 418>>)
  BY <1>1 DEF detect_features
<1>3. CASE Len(v) >= 3
  <2>1. v[1] \in Nat /\ v[2] \in Nat /\ v[3] \in Nat
    BY <1>3
  <2> QED
    BY <1>2, <1>3, <2>1 DEF AtLeast, is_copilot_ga
<1>4. CASE ~(Len(v) >= 3)
  BY <1>2, <1>4 DEF is_copilot_ga
<1> QED
  BY <1>3, <1>4

===============================================================================
