---------------------------- MODULE RelayPipeProofs ----------------------------
(***************************************************************************)
(* Each direction of Relay implements OrderedPipe: the abstract pipe's      *)
(* accepted and delivered are the messages one side sent and the other was  *)
(* sent.  What lies between is, in order, what was delivered, what the      *)
(* tasks hold and what the buffers hold; as long as a message can still be  *)
(* delivered, this adds up to what was accepted.                            *)
(***************************************************************************)
EXTENDS RelayProofs

Prompts == {"prompt", "request"}
Answers == {"update", "reply"}

Held(frame, kinds) == Kinds(<<frame>>, kinds)

(* From client to CLI, while the relay reads and the CLI is not gone. *)
UpFlow ==
    InSelect /\ cli \in {"none", "up"} =>
        (toCli \o Held(rd.frame, Prompts)) \o Kinds(wsIn, Prompts) = Kinds(asked, Prompts)

(* From CLI to client, while the WebSocket is open. *)
WithSink == (Kinds(toClient, Answers) \o Held(sink.frame, Answers)) \o Kinds(chan, Answers)

DownFlow ==
    client = "open" /\ ~wsClosed =>
        (WithSink \o Held(reader.line, Answers)) \o Kinds(stdout, Answers) = Kinds(said, Answers)

(* A reader task that is over has left nothing behind that it would have      *)
(* sent on, unless it met a line at which it gives up or had nobody to send   *)
(* to; one that was never started had nothing to read.                       *)
ReaderDone ==
    /\ reader.at = "none" => stdout = <<>> /\ cli \in {"none", "failed"}
    /\ reader.at = "ended" =>
          \/ stdout = <<>> /\ cli # "up"
          \/ Kinds(said, Stops) # <<>>
          \/ wsClosed \/ client = "gone"
    /\ Kinds(stdout, Stops) # <<>> => Kinds(said, Stops) # <<>>

PipeInv == IInv /\ UpFlow /\ DownFlow /\ ReaderDone
-------------------------------------------------------------------------------
(* Frames of any kind, to have one set of sequences. *)
AnyFrame ==
    Frame(TextKinds \cup LineKinds \cup {"none", "error", "ping", "pong", "close"})

LEMMA FrameSubset ==
    ASSUME NEW K, NEW L, K \subseteq L
    PROVE  Frame(K) \subseteq Frame(L) /\ Seq(Frame(K)) \subseteq Seq(Frame(L))
<1>1. Frame(K) \subseteq Frame(L)
  BY DEF Frame
<1> HIDE DEF Frame
<1> QED BY <1>1, SeqMonotonic

LEMMA AllFrames ==
    ASSUME TypeOK
    PROVE  /\ {toCli, asked, wsIn, said, stdout, toClient, chan} \subseteq Seq(AnyFrame)
           /\ {rd.frame, sink.frame, reader.line} \subseteq AnyFrame
<1>1. {toCli, asked, wsIn} \subseteq Seq(AnyFrame)
  BY FrameSubset, ZenonT(30) DEF TypeOK, CopilotOK, PeerOK, AnyFrame
<1>2. {said, stdout} \subseteq Seq(AnyFrame)
  BY FrameSubset DEF TypeOK, CopilotOK, AnyFrame
<1>3. OutFrames \subseteq AnyFrame /\ Seq(OutFrames) \subseteq Seq(AnyFrame)
  BY FrameSubset DEF OutFrames, AnyFrame, LineKinds
<1>4. {toClient, chan} \subseteq Seq(AnyFrame)
  BY <1>3 DEF TypeOK, OutboundOK
<1>5. rd.frame \in AnyFrame
  BY FrameSubset DEF TypeOK, TaskOK, AnyFrame
<1>6. sink.frame \in AnyFrame
  BY <1>3, FrameSubset DEF TypeOK, OutboundOK, AnyFrame
<1>7. reader.line \in AnyFrame
  BY FrameSubset DEF TypeOK, AnyFrame
<1> QED BY <1>1, <1>2, <1>4, <1>5, <1>6, <1>7

LEMMA HeldFacts ==
    ASSUME NEW kinds
    PROVE  /\ \A x : x.kind \in kinds => Held(x, kinds) = <<x>>
           /\ \A x : x.kind \notin kinds => Held(x, kinds) = <<>>
           /\ \A x \in AnyFrame : Held(x, kinds) \in Seq(AnyFrame)
<1>1. \A x : Held(x, kinds) = IF x.kind \in kinds THEN <<x>> ELSE <<>>
  BY KindsOne DEF Held
<1>2. \A S : \A x \in S : <<x>> \in Seq(S) /\ <<>> \in Seq(S)
  OBVIOUS
<1>3. ASSUME NEW x \in AnyFrame PROVE Held(x, kinds) \in Seq(AnyFrame)
  <2>1. CASE x.kind \in kinds
    BY <1>1, <1>2, <2>1
  <2>2. CASE x.kind \notin kinds
    BY <1>1, <1>2, <2>2
  <2> QED BY <2>1, <2>2
<1> QED BY <1>1, <1>3

LEMMA KindsFacts ==
    ASSUME NEW kinds
    PROVE  /\ \A seq \in Seq(AnyFrame) : Kinds(seq, kinds) \in Seq(AnyFrame)
           /\ \A seq \in Seq(AnyFrame), x \in AnyFrame :
                 Kinds(Append(seq, x), kinds) =
                   IF x.kind \in kinds THEN Append(Kinds(seq, kinds), x) ELSE Kinds(seq, kinds)
           /\ \A seq \in Seq(AnyFrame) : seq # <<>> =>
                 Kinds(seq, kinds) = Held(Head(seq), kinds) \o Kinds(Tail(seq), kinds)
<1>1. \A seq \in Seq(AnyFrame) : Kinds(seq, kinds) \in Seq(AnyFrame)
  BY KindsType
<1>2. \A seq \in Seq(AnyFrame), x \in AnyFrame :
        Kinds(Append(seq, x), kinds) =
          IF x.kind \in kinds THEN Append(Kinds(seq, kinds), x) ELSE Kinds(seq, kinds)
  BY KindsAppend
<1>3. ASSUME NEW seq \in Seq(AnyFrame), seq # <<>>
      PROVE  Kinds(seq, kinds) = Held(Head(seq), kinds) \o Kinds(Tail(seq), kinds)
  BY <1>3, KindsHead DEF Held
<1> QED BY <1>1, <1>2, <1>3
-------------------------------------------------------------------------------
(* How messages move along a concatenation.                                 *)

LEMMA TakeNext ==
    ASSUME NEW S, NEW s \in Seq(S), NEW h \in Seq(S), NEW t \in Seq(S)
    PROVE  (s \o <<>>) \o (h \o t) = (s \o h) \o t
  BY ConcatEmptySeq, ConcatAssociative, SMTT(30)

LEMMA PassOn ==
    ASSUME NEW S, NEW s \in Seq(S), NEW x \in S
    PROVE  s \o <<x>> = Append(s, x) \o <<>>
<1>1. Append(s, x) = s \o <<x>> /\ Append(s, x) \in Seq(S)
  BY AppendIsConcat, AppendProperties
<1> QED BY <1>1, ConcatEmptySeq

LEMMA PassInto ==
    ASSUME NEW S, NEW s \in Seq(S), NEW t \in Seq(S), NEW x \in S
    PROVE  (s \o t) \o <<x>> = (s \o Append(t, x)) \o <<>>
<1>1. s \o t \in Seq(S) /\ s \o Append(t, x) = Append(s \o t, x)
  BY ConcatAppend
<1> DEFINE both == s \o t
<1>2. both \in Seq(S) /\ s \o Append(t, x) = Append(both, x)
  BY <1>1
<1> HIDE DEF both
<1>3. both \o <<x>> = Append(both, x) \o <<>>
  BY <1>2, PassOn
<1> QED BY <1>2, <1>3 DEF both

LEMMA NextOut ==
    ASSUME NEW S, NEW s \in Seq(S), NEW x \in S, NEW t \in Seq(S), NEW all,
           (s \o <<x>>) \o t = all
    PROVE  Len(s) < Len(all) /\ x = all[Len(s) + 1]
<1>1. /\ <<x>> \in Seq(S) /\ s \o <<x>> \in Seq(S)
      /\ Len(s \o <<x>>) = Len(s) + 1 /\ (s \o <<x>>)[Len(s) + 1] = x /\ Len(s) \in Nat
  OBVIOUS
<1> DEFINE both == s \o <<x>>
<1>2. both \in Seq(S) /\ Len(both) = Len(s) + 1 /\ both[Len(s) + 1] = x /\ all = both \o t
  BY <1>1
<1> HIDE DEF both
<1> QED BY <1>1, <1>2, ConcatProperties
-------------------------------------------------------------------------------
(* From client to CLI.                                                      *)

LEMMA UpFlowStep ==
    ASSUME IInv, UpFlow, [Next]_vars
    PROVE  UpFlow'
<1> DEFINE Kept == UNCHANGED <<main, cli, rd, wsIn, asked, toCli>>
           Prompt(seq) == Kinds(seq, Prompts)
           Hand(frame) == Held(frame, Prompts)
<1>1. /\ {toCli, wsIn, asked} \subseteq Seq(AnyFrame) /\ rd.frame \in AnyFrame
      /\ Prompt(wsIn) \in Seq(AnyFrame) /\ Hand(rd.frame) \in Seq(AnyFrame)
      /\ toCli \o Hand(rd.frame) \in Seq(AnyFrame)
  BY AllFrames, HeldFacts, KindsFacts, ConcatProperties DEF IInv, Typing
<1>2. \A k \in STRING : k \notin Prompts => Hand(Ctl(k)) = <<>>
  BY HeldFacts, CtlKind DEF Prompts
<1> USE DEF IInv, Typing, UpFlow, InSelect, Reading, Read, ReadNext, NotReading, EndSelect,
            task, session, outbound, peer, copilot
<1>3. CASE Kept
  BY <1>3
<1>4. CASE RecvText \/ RecvPing \/ RecvPong \/ RecvClose
  <2>1. /\ rd.frame.kind = "none" /\ wsIn # <<>> /\ wsIn' = Tail(wsIn)
        /\ UNCHANGED <<cli, asked, toCli>>
    BY <1>4 DEF RecvText, RecvPing, RecvPong, RecvClose, FramesMatch
  <2>2. Hand(rd.frame) = <<>>
    BY <2>1, HeldFacts DEF Prompts
  <2>3. Prompt(wsIn) = Hand(Head(wsIn)) \o Prompt(wsIn')
    BY <1>1, <2>1, KindsFacts
  <2>4. Hand(Head(wsIn)) \in Seq(AnyFrame) /\ Prompt(wsIn') \in Seq(AnyFrame)
    <3>1. Head(wsIn) \in AnyFrame /\ Tail(wsIn) \in Seq(AnyFrame)
      BY <1>1, <2>1, HeadTail
    <3> QED BY <2>1, <3>1, HeldFacts, KindsFacts
  <2>5. InSelect' => Hand(rd'.frame) = Hand(Head(wsIn))
    <3>1. CASE RecvText /\ Head(wsIn).kind # "blank"
      BY <3>1 DEF RecvText
    <3>2. CASE Head(wsIn).kind \in {"blank", "ping", "pong"}
      <4>1. Hand(Head(wsIn)) = <<>>
        BY <3>2, HeldFacts DEF Prompts
      <4>2. rd'.frame.kind \in {"none", "pong"}
        BY <1>4, <2>1, <3>2, CtlKind DEF RecvText, RecvPing, RecvPong, RecvClose, TextKinds
      <4> QED BY <4>1, <4>2, HeldFacts DEF Prompts
    <3>3. CASE RecvClose
      BY <3>3 DEF RecvClose
    <3> QED BY <1>4, <3>1, <3>2, <3>3 DEF RecvText, RecvPing, RecvPong
  <2> DEFINE first == Hand(Head(wsIn))
             rest == Prompt(wsIn')
  <2>6. (toCli \o <<>>) \o (first \o rest) = (toCli \o first) \o rest
    <3>1. first \in Seq(AnyFrame) /\ rest \in Seq(AnyFrame) /\ toCli \in Seq(AnyFrame)
      BY <1>1, <2>4
    <3> HIDE DEF first, rest
    <3> QED BY <3>1, TakeNext, SMTT(30)
  <2>7. CASE InSelect'
    <3>1. InSelect
      BY <1>4 DEF RecvText, RecvPing, RecvPong, RecvClose
    <3> QED BY <2>1, <2>2, <2>3, <2>5, <2>6, <2>7, <3>1
  <2> QED BY <2>7
<1>5. CASE RecvEnd \/ OpenFails \/ SendError \/ SendPongTimeout \/ ShutdownSeen
  BY <1>5 DEF RecvEnd, OpenFails, SendError, SendPongTimeout, ShutdownSeen
<1>6. CASE SendIdleClose \/ IdleSleepEnds \/ Return
  BY <1>6 DEF SendIdleClose, IdleSleepEnds, Return
<1>7. CASE CountText \/ OpenCli
  <2>1. UNCHANGED <<wsIn, asked, toCli>> /\ rd'.frame = rd.frame /\ InSelect
    BY <1>7 DEF CountText, OpenCli
  <2>2. cli \in {"none", "up"} \/ cli' = cli
    BY <1>7 DEF CountText, OpenCli, CliState
  <2>3. cli' \in {"none", "up"} => cli \in {"none", "up"}
    BY <2>2
  <2> QED BY <2>1, <2>3
<1>8. CASE SendPong \/ WriteInvalid \/ WriteFails
  <2>1. UNCHANGED <<cli, wsIn, asked, toCli>>
    BY <1>8 DEF SendPong, WriteInvalid, WriteFails
  <2>2. InSelect' /\ cli' \in {"none", "up"} => rd.frame.kind \in {"pong", "bad"} /\ rd'.frame.kind = "none"
    BY <1>8, CtlKind DEF SendPong, WriteInvalid, WriteFails, FramesMatch
  <2>3. InSelect
    BY <1>8 DEF SendPong, WriteInvalid, WriteFails
  <2> QED BY <2>1, <2>2, <2>3, HeldFacts DEF Prompts
<1>9. CASE WriteLine
  <2>1. /\ rd.frame.kind \in Prompts /\ rd'.frame.kind = "none" /\ InSelect
        /\ toCli' = Append(toCli, rd.frame) /\ UNCHANGED <<cli, wsIn, asked>>
    BY <1>9, CtlKind DEF WriteLine, FramesMatch, Prompts
  <2>2. Hand(rd.frame) = <<rd.frame>> /\ Hand(rd'.frame) = <<>>
    BY <2>1, HeldFacts DEF Prompts
  <2>3. toCli \o <<rd.frame>> = Append(toCli, rd.frame) \o <<>>
    BY <1>1, PassOn
  <2> QED BY <2>1, <2>2, <2>3
<1>10. CASE SendPing
  BY <1>10 DEF SendPing
<1>11. CASE PingTick \/ SendLine \/ ReadLine \/ ReadEof
  BY <1>3, <1>11 DEF PingTick, SendLine, ReadLine, ReadEof
<1>12. CASE Sink
  BY <1>3, <1>12 DEF Sink, SinkRecv, SinkSend, SinkFails, SinkLoses, SinkEnds
<1>13. CASE ClientReads
  <2>1. UNCHANGED <<main, cli, rd, asked, toCli>>
    BY <1>13 DEF ClientReads
  <2>2. Prompt(wsIn') = Prompt(wsIn)
    <3> DEFINE pong == Ctl("pong")
    <3>1. pong \in AnyFrame /\ pong.kind \notin Prompts
      BY FrameFacts, CtlKind DEF AnyFrame, Prompts
    <3>2. wsIn' = Append(wsIn, pong) \/ wsIn' = wsIn
      BY <1>13 DEF ClientReads
    <3> HIDE DEF pong
    <3>3. Prompt(Append(wsIn, pong)) = Prompt(wsIn)
      BY <1>1, <3>1, KindsFacts
    <3> QED BY <3>2, <3>3
  <2> QED BY <2>1, <2>2
<1>14. ASSUME NEW kind \in ClientFrames, Asks(kind)
       PROVE  UpFlow'
  <2> DEFINE frame == [kind |-> kind, n |-> Len(asked) + 1]
  <2>1. /\ frame \in AnyFrame /\ asked' = Append(asked, frame) /\ wsIn' = Append(wsIn, frame)
        /\ UNCHANGED <<main, cli, rd, toCli>>
    BY <1>1, <1>14, KindsAssumption, SMTT(30) DEF Asks, AnyFrame, Frame
  <2> HIDE DEF frame
  <2>2. CASE frame.kind \in Prompts
    <3>1. Prompt(asked') = Append(Prompt(asked), frame) /\ Prompt(wsIn') = Append(Prompt(wsIn), frame)
      BY <1>1, <2>1, <2>2, KindsFacts
    <3> DEFINE before == toCli \o Hand(rd.frame)
    <3>2. before \in Seq(AnyFrame)
      BY <1>1
    <3> HIDE DEF before
    <3>3. before \o Append(Prompt(wsIn), frame) = Append(before \o Prompt(wsIn), frame)
      BY <1>1, <2>1, <3>2, ConcatAppend, SMTT(30)
    <3> QED BY <2>1, <3>1, <3>3 DEF before
  <2>3. CASE frame.kind \notin Prompts
    BY <1>1, <2>1, <2>3, KindsFacts
  <2> QED BY <2>2, <2>3
<1>15. CASE CliExits
  BY <1>15 DEF CliExits
<1>16. CASE ClientLeaves \/ CliReads \/ SessionTells \/ Tick \/ UNCHANGED vars
            \/ \E kind \in CliLines : Says(kind)
  BY <1>3, <1>16 DEF ClientLeaves, CliReads, SessionTells, Tick, Says, vars
<1> HIDE DEF Kept, UpFlow
<1> QED
  BY <1>4, <1>5, <1>6, <1>7, <1>8, <1>9, <1>10, <1>11, <1>12, <1>13, <1>14, <1>15, <1>16
  DEF Next, ReadBranch, PingBranch, Finish, Reader, Environment
-------------------------------------------------------------------------------
(* From CLI to client.                                                      *)

(* The reader holds nothing the flow counts unless it is sending. *)
LEMMA DownFlowStep ==
    ASSUME IInv, DownFlow, [Next]_vars
    PROVE  DownFlow'
<1> DEFINE Kept == UNCHANGED <<outbound, client, stdout, said, reader>>
           Answer(seq) == Kinds(seq, Answers)
           Hand(frame) == Held(frame, Answers)

<1>1. /\ toClient \in Seq(AnyFrame) /\ chan \in Seq(AnyFrame)
      /\ stdout \in Seq(AnyFrame) /\ said \in Seq(AnyFrame)
      /\ sink.frame \in AnyFrame /\ reader.line \in AnyFrame
  BY AllFrames DEF IInv, Typing
<1>2. /\ Answer(toClient) \in Seq(AnyFrame) /\ Answer(chan) \in Seq(AnyFrame)
      /\ Answer(stdout) \in Seq(AnyFrame)
      /\ Hand(sink.frame) \in Seq(AnyFrame) /\ Hand(reader.line) \in Seq(AnyFrame)
  BY <1>1, HeldFacts, KindsFacts
<1>3. /\ Answer(toClient) \o Hand(sink.frame) \in Seq(AnyFrame)
      /\ WithSink \in Seq(AnyFrame) /\ WithSink \o Hand(reader.line) \in Seq(AnyFrame)
  <2>1. Answer(toClient) \o Hand(sink.frame) \in Seq(AnyFrame)
    BY <1>2, ConcatProperties
  <2>2. WithSink \in Seq(AnyFrame)
    BY <1>2, <2>1, ConcatProperties DEF WithSink
  <2> QED BY <1>2, <2>1, <2>2, ConcatProperties
<1> USE DEF IInv, Typing, DownFlow, InSelect, Reading, Read, ReadNext, NotReading, EndSelect,
            task, session, outbound, peer, copilot
<1>4. CASE Kept
  BY <1>4 DEF WithSink
<1>5. CASE \/ RecvText \/ RecvPing \/ RecvPong \/ RecvEnd \/ CountText \/ OpenFails
           \/ WriteInvalid \/ WriteLine \/ WriteFails \/ PingTick \/ ShutdownSeen
           \/ IdleSleepEnds \/ Return
  BY <1>4, <1>5
  DEF RecvText, RecvPing, RecvPong, RecvEnd, CountText, OpenFails, WriteInvalid, WriteLine,
      WriteFails, PingTick, ShutdownSeen, IdleSleepEnds, Return
<1>6. CASE RecvClose
  BY <1>6 DEF RecvClose
<1>7. CASE OpenCli
  <2>1. reader'.line = reader.line /\ UNCHANGED <<outbound, client, stdout, said>>
    BY <1>7 DEF OpenCli, TypeOK
  <2> QED BY <2>1 DEF WithSink
<1>8. CASE SendError \/ SendPong \/ SendPing \/ SendPongTimeout \/ SendIdleClose
  <2>1. rd.at \in {"error", "pong"} => rd.frame.kind = rd.at
    BY DEF FramesMatch
  <2>2. PICK frame \in AnyFrame : frame.kind \notin Answers /\ Send(frame)
    <3>1. \A kind \in {"ping", "close"} : Ctl(kind) \in AnyFrame /\ Ctl(kind).kind \notin Answers
      BY FrameFacts, CtlKind DEF AnyFrame, Answers
    <3>2. rd.frame \in AnyFrame
      BY AllFrames
    <3> QED BY <1>8, <2>1, <3>1, <3>2
        DEF SendError, SendPong, SendPing, SendPongTimeout, SendIdleClose, Answers
  <2>3. Answer(Append(chan, frame)) = Answer(chan)
    BY <1>1, <2>2, KindsFacts
  <2>4. chan' = chan \/ chan' = Append(chan, frame)
    BY <2>2 DEF Send
  <2>5. Answer(chan') = Answer(chan)
    BY <2>3, <2>4
  <2>6. UNCHANGED <<toClient, sink, wsClosed, client, stdout, said, reader>>
    BY <1>8, <2>2 DEF Send, SendError, SendPong, SendPing, SendPongTimeout, SendIdleClose
  <2> QED BY <2>5, <2>6 DEF WithSink
<1>9. CASE SinkRecv
  <2>1. /\ chan # <<>> /\ sink'.frame = Head(chan) /\ chan' = Tail(chan)
        /\ UNCHANGED <<toClient, wsClosed, client, stdout, said, reader>>
    BY <1>9 DEF SinkRecv
  <2>2. Hand(sink.frame) = <<>>
    BY <1>9, SinkRecvFacts, HeldFacts DEF Answers
  <2>3. Answer(chan) = Hand(sink'.frame) \o Answer(chan')
    BY <1>1, <2>1, KindsFacts
  <2>4. Hand(sink'.frame) \in Seq(AnyFrame) /\ Answer(chan') \in Seq(AnyFrame)
    <3>1. Head(chan) \in AnyFrame /\ Tail(chan) \in Seq(AnyFrame)
      BY <1>1, <2>1, HeadTail
    <3> QED BY <2>1, <3>1, HeldFacts, KindsFacts
  <2>5. WithSink' = WithSink
    <3> DEFINE sent == Answer(toClient)
               first == Hand(sink'.frame)
               rest == Answer(chan')
    <3>1. sent \in Seq(AnyFrame) /\ first \in Seq(AnyFrame) /\ rest \in Seq(AnyFrame)
      BY <1>2, <2>4
    <3>2. WithSink = (sent \o <<>>) \o (first \o rest) /\ WithSink' = (sent \o first) \o rest
      BY <2>1, <2>2, <2>3 DEF WithSink
    <3>3. (sent \o <<>>) \o (first \o rest) = (sent \o first) \o rest
      <4> HIDE DEF sent, first, rest
      <4> QED BY <3>1, TakeNext
    <3> QED BY <3>2, <3>3
  <2> QED BY <2>1, <2>5
<1>10. CASE SinkSend
  <2>1. /\ sink'.frame.kind = "none" /\ UNCHANGED <<chan, client, stdout, said, reader>>
        /\ toClient' = IF sink.frame.kind \in {"ping", "pong"} THEN toClient
                       ELSE Append(toClient, sink.frame)
    BY <1>10, CtlKind DEF SinkSend
  <2>2. Hand(sink'.frame) = <<>>
    BY <2>1, HeldFacts DEF Answers
  <2>3. Answer(toClient') \o <<>> = Answer(toClient) \o Hand(sink.frame)
    <3>1. CASE sink.frame.kind \in Answers
      <4>1. toClient' = Append(toClient, sink.frame)
        BY <2>1, <3>1 DEF Answers
      <4>2. Answer(Append(toClient, sink.frame)) = Append(Answer(toClient), sink.frame)
        BY <1>1, <3>1, KindsFacts
      <4>3. Hand(sink.frame) = <<sink.frame>>
        BY <3>1, HeldFacts
      <4>4. Answer(toClient) \o <<sink.frame>> = Append(Answer(toClient), sink.frame) \o <<>>
        <5> DEFINE sent == Answer(toClient)
        <5>1. sent \in Seq(AnyFrame)
          BY <1>2
        <5> HIDE DEF sent
        <5> QED BY <1>1, <5>1, PassOn
      <4> QED BY <4>1, <4>2, <4>3, <4>4
    <3>2. CASE sink.frame.kind \notin Answers
      <4>1. Answer(Append(toClient, sink.frame)) = Answer(toClient)
        BY <1>1, <3>2, KindsFacts
      <4>2. Answer(toClient') = Answer(toClient) /\ Hand(sink.frame) = <<>>
        BY <2>1, <3>2, <4>1, HeldFacts
      <4> QED BY <4>2
    <3> QED BY <3>1, <3>2
  <2>4. WithSink' = WithSink
    BY <2>1, <2>2, <2>3 DEF WithSink
  <2>5. ~wsClosed
    BY <1>10 DEF SinkSend
  <2> QED BY <2>1, <2>4, <2>5
<1>11. CASE SinkFails \/ SinkLoses
  BY <1>11 DEF SinkFails, SinkLoses
<1>12. CASE SinkEnds
  <2>1. sink'.frame = sink.frame /\ UNCHANGED <<toClient, chan, wsClosed, client, stdout, said, reader>>
    BY <1>12 DEF SinkEnds, TypeOK, OutboundOK
  <2> QED BY <2>1 DEF WithSink
<1>13. CASE ReadLine
  <2>1. /\ reader.line.kind = "none" /\ stdout # <<>> /\ stdout' = Tail(stdout)
        /\ UNCHANGED <<outbound, client, said>>
    BY <1>13 DEF ReadLine, FramesMatch
  <2>2. Head(stdout) \in AnyFrame /\ Tail(stdout) \in Seq(AnyFrame)
    BY <1>1, <2>1, HeadTail
  <2>3. Head(stdout).kind \in LineKinds
    <3>1. stdout \in Seq(Frame(LineKinds))
      BY DEF TypeOK, CopilotOK
    <3> QED BY <2>1, <3>1, HeadTail, FrameFacts
  <2>4. Hand(reader'.line) = Hand(Head(stdout))
    <3>1. CASE Head(stdout).kind \in Answers
      BY <1>13, <3>1 DEF ReadLine, Answers, Stops
    <3>2. CASE Head(stdout).kind \in {"blank", "bad", "garbled"}
      <4>1. reader'.line.kind = "none"
        BY <1>13, <2>1, <3>2, CtlKind DEF ReadLine, ReaderStops, Stops
      <4> QED BY <3>2, <4>1, HeldFacts DEF Answers
    <3> QED BY <2>3, <3>1, <3>2 DEF LineKinds, Answers
  <2>5. Hand(reader.line) = <<>>
    BY <2>1, HeldFacts DEF Answers
  <2>6. Answer(stdout) = Hand(reader'.line) \o Answer(stdout')
    BY <1>1, <2>1, <2>4, KindsFacts
  <2> DEFINE first == Hand(reader'.line)
             rest == Answer(stdout')
  <2>7. first \in Seq(AnyFrame) /\ rest \in Seq(AnyFrame) /\ WithSink \in Seq(AnyFrame)
    BY <1>3, <2>1, <2>2, <2>4, HeldFacts, KindsFacts
  <2>8. (WithSink \o <<>>) \o (first \o rest) = (WithSink \o first) \o rest
    <3> HIDE DEF first, rest
    <3> QED BY <2>7, TakeNext
  <2>9. WithSink' = WithSink
    BY <2>1 DEF WithSink
  <2> QED BY <2>1, <2>5, <2>6, <2>8, <2>9
<1>14. CASE ReadEof
  <2>1. reader.line.kind = "none" /\ reader'.line.kind = "none"
    BY <1>14, CtlKind DEF ReadEof, ReaderStops, FramesMatch
  <2>2. Hand(reader'.line) = Hand(reader.line)
    BY <2>1, HeldFacts DEF Answers
  <2> QED BY <1>14, <2>2 DEF ReadEof, WithSink
<1>15. CASE SendLine
  <2>1. /\ reader.at = "send" /\ reader.line.kind \in Answers
        /\ UNCHANGED <<toClient, sink, wsClosed, client, stdout, said>>
        /\ reader'.line.kind = "none"
    BY <1>15, CtlKind DEF SendLine, Send, ReaderStops, FramesMatch, Answers
  <2>2. Hand(reader.line) = <<reader.line>> /\ Hand(reader'.line) = <<>>
    BY <2>1, HeldFacts DEF Answers
  <2>3. CASE ChannelClosed
    BY <2>1, <2>3 DEF ChannelInOrder, ChannelClosed, SendersAlive
  <2>4. CASE ~ChannelClosed
    <3>1. chan' = Append(chan, reader.line)
      BY <1>15, <2>4 DEF SendLine, Send
    <3>2. Answer(chan') = Append(Answer(chan), reader.line)
      BY <1>1, <2>1, <3>1, KindsFacts
    <3> DEFINE sent == Answer(toClient) \o Hand(sink.frame)
               rest == Answer(chan)
    <3>3. sent \in Seq(AnyFrame) /\ rest \in Seq(AnyFrame)
      BY <1>2, <1>3
    <3>4. WithSink = sent \o rest /\ WithSink' = sent \o Append(rest, reader.line)
      BY <2>1, <3>2 DEF WithSink
    <3>5. (sent \o rest) \o <<reader.line>> = (sent \o Append(rest, reader.line)) \o <<>>
      <4> HIDE DEF sent, rest
      <4> QED BY <1>1, <3>3, PassInto, ZenonT(30)
    <3> HIDE DEF sent, rest
    <3>6. WithSink' \o Hand(reader'.line) = WithSink \o Hand(reader.line)
      BY <2>2, <3>4, <3>5
    <3> QED BY <2>1, <3>6
  <2> QED BY <2>3, <2>4
<1>16. ASSUME NEW kind \in CliLines, Says(kind)
       PROVE  DownFlow'
  <2> DEFINE line == [kind |-> kind, n |-> Len(said) + 1]
  <2>1. /\ line \in AnyFrame /\ said' = Append(said, line) /\ stdout' = Append(stdout, line)
        /\ UNCHANGED <<outbound, client, reader>>
    BY <1>1, <1>16, KindsAssumption DEF Says, AnyFrame, Frame
  <2> HIDE DEF line
  <2>2. WithSink' = WithSink
    BY <2>1 DEF WithSink
  <2>3. CASE line.kind \in Answers
    <3>1. Answer(said') = Append(Answer(said), line) /\ Answer(stdout') = Append(Answer(stdout), line)
      BY <1>1, <2>1, <2>3, KindsFacts
    <3> DEFINE before == WithSink \o Hand(reader.line)
               rest == Answer(stdout)
    <3>2. before \in Seq(AnyFrame) /\ rest \in Seq(AnyFrame)
      BY <1>2, <1>3
    <3>3. before \o Append(rest, line) = Append(before \o rest, line)
      <4> HIDE DEF before, rest
      <4> QED BY <2>1, <3>2, ConcatAppend
    <3> QED BY <2>1, <2>2, <3>1, <3>3
  <2>4. CASE line.kind \notin Answers
    <3>1. Answer(said') = Answer(said) /\ Answer(stdout') = Answer(stdout)
      BY <1>1, <2>1, <2>4, KindsFacts
    <3> QED BY <2>1, <2>2, <3>1
  <2> QED BY <2>3, <2>4
<1>17. CASE ClientReads \/ ClientLeaves
  BY <1>17 DEF ClientReads, ClientLeaves, WithSink
<1>18. CASE CliReads \/ CliExits \/ SessionTells \/ Tick \/ UNCHANGED vars
            \/ \E kind \in ClientFrames : Asks(kind)
  BY <1>4, <1>18 DEF CliReads, CliExits, SessionTells, Tick, Asks, vars
<1> HIDE DEF Kept, DownFlow
<1> QED
  BY <1>5, <1>6, <1>7, <1>8, <1>9, <1>10, <1>11, <1>12, <1>13, <1>14, <1>15, <1>16, <1>17, <1>18
  DEF Next, ReadBranch, PingBranch, Finish, Sink, Reader, Environment

-------------------------------------------------------------------------------
(* The reader task.                                                         *)

(* Whether a sequence carries a frame of some kinds, by its parts. *)
LEMMA SomeFacts ==
    ASSUME NEW kinds, NEW seq \in Seq(AnyFrame)
    PROVE  /\ \A x \in AnyFrame :
                 Kinds(Append(seq, x), kinds) # <<>> <=> Kinds(seq, kinds) # <<>> \/ x.kind \in kinds
           /\ seq # <<>> =>
                 (Kinds(seq, kinds) # <<>> <=>
                    Head(seq).kind \in kinds \/ Kinds(Tail(seq), kinds) # <<>>)
<1>1. Kinds(seq, kinds) \in Seq(AnyFrame)
  BY KindsFacts
<1>3. ASSUME NEW x \in AnyFrame
      PROVE  Kinds(Append(seq, x), kinds) # <<>> <=> Kinds(seq, kinds) # <<>> \/ x.kind \in kinds
  <2>1. Append(Kinds(seq, kinds), x) # <<>>
    BY <1>1, AppendProperties
  <2> QED BY <2>1, KindsFacts
<1>4. ASSUME seq # <<>>
      PROVE  Kinds(seq, kinds) # <<>> <=>
               Head(seq).kind \in kinds \/ Kinds(Tail(seq), kinds) # <<>>
  <2>1. Head(seq) \in AnyFrame /\ Tail(seq) \in Seq(AnyFrame)
    BY <1>4, HeadTail
  <2>2. Kinds(seq, kinds) = Held(Head(seq), kinds) \o Kinds(Tail(seq), kinds)
    BY <1>4, KindsFacts
  <2>3. Kinds(Tail(seq), kinds) \in Seq(AnyFrame)
    BY <2>1, KindsFacts
  <2>4. Held(Head(seq), kinds) = IF Head(seq).kind \in kinds THEN <<Head(seq)>> ELSE <<>>
    BY HeldFacts
  <2>5. \A t \in Seq(AnyFrame) : <<>> \o t = t /\ <<Head(seq)>> \o t # <<>>
    BY <2>1, ConcatEmptySeq, ConcatProperties
  <2> QED BY <2>2, <2>3, <2>4, <2>5
<1> QED BY <1>3, <1>4

LEMMA ReaderDoneStep ==
    ASSUME IInv, ReaderDone, [Next]_vars
    PROVE  ReaderDone'
<1> DEFINE Kept == UNCHANGED <<reader, stdout, said, cli, mode, wsClosed, client>>
<1>1. stdout \in Seq(AnyFrame) /\ said \in Seq(AnyFrame)
  BY AllFrames DEF IInv, Typing
<1> USE DEF ReaderDone, Stops, Stdio, session, outbound, peer, copilot
<1>2. CASE Kept
  BY <1>2
<1>3. CASE OpenCli
  BY <1>3 DEF OpenCli, IInv, Typing, TypeOK
<1>4. CASE OpenFails
  BY <1>4 DEF OpenFails, Reading, InSelect, IInv, Typing, CliState
<1>5. CASE Return
  BY <1>5 DEF Return
<1>6. CASE RecvClose \/ SinkLoses \/ ClientLeaves
  BY <1>6 DEF RecvClose, SinkLoses, ClientLeaves
<1>7. CASE SinkSend
  BY <1>7 DEF SinkSend
<1>8. CASE ReadLine
  <2>1. /\ reader.at = "read" /\ stdout # <<>> /\ stdout' = Tail(stdout)
        /\ UNCHANGED <<said, cli, mode, wsClosed, client>>
        /\ reader'.at \in {"read", "send"} \/ Head(stdout).kind \in Stops
    BY <1>8 DEF ReadLine
  <2>2. Kinds(stdout, Stops) # <<>> <=>
          Head(stdout).kind \in Stops \/ Kinds(Tail(stdout), Stops) # <<>>
    BY <1>1, <2>1, SomeFacts
  <2>3. Stops' = Stops
    BY <2>1
  <2> HIDE DEF Stops
  <2>4. reader'.at \in {"read", "send", "ended"}
    BY <1>8, <2>1 DEF ReadLine, ReaderStops
  <2> QED BY <2>1, <2>2, <2>3, <2>4
<1>9. CASE ReadEof
  BY <1>9 DEF ReadEof, ReaderStops
<1>10. CASE SendLine
  <2>1. reader.at = "send" /\ UNCHANGED <<stdout, said, cli, mode, wsClosed, client>>
    BY <1>10 DEF SendLine, Send
  <2>2. CASE ChannelClosed
    BY <2>1, <2>2, <1>10
    DEF IInv, ChannelInOrder, ChannelClosed, SendersAlive, SendLine, ReaderStops
  <2>3. CASE ~ChannelClosed
    BY <2>1, <2>3, <1>10 DEF SendLine
  <2> QED BY <2>2, <2>3
<1>11. ASSUME NEW kind \in CliLines, Says(kind)
       PROVE  ReaderDone'
  <2> DEFINE line == [kind |-> kind, n |-> Len(said) + 1]
  <2>1. /\ line \in AnyFrame /\ said' = Append(said, line) /\ stdout' = Append(stdout, line)
        /\ UNCHANGED <<mode, wsClosed, client, reader, cli>> /\ cli = "up"
    BY <1>1, <1>11, KindsAssumption DEF Says, AnyFrame, Frame
  <2> HIDE DEF line
  <2>2. Stops' = Stops
    BY <2>1
  <2> HIDE DEF Stops
  <2>3. /\ Kinds(said', Stops) # <<>> <=> Kinds(said, Stops) # <<>> \/ line.kind \in Stops
        /\ Kinds(stdout', Stops) # <<>> <=> Kinds(stdout, Stops) # <<>> \/ line.kind \in Stops
    BY <1>1, <2>1, SomeFacts
  <2> QED BY <2>1, <2>2, <2>3
<1>12. CASE CliExits
  BY <1>12 DEF CliExits
<1>13. CASE \/ RecvText \/ RecvPing \/ RecvPong \/ RecvEnd \/ CountText \/ SendError \/ SendPong
            \/ WriteInvalid \/ WriteLine \/ WriteFails \/ PingBranch \/ ShutdownSeen
            \/ SendIdleClose \/ IdleSleepEnds
  BY <1>2, <1>13
  DEF RecvText, RecvPing, RecvPong, RecvEnd, CountText, SendError, SendPong, WriteInvalid,
      WriteLine, WriteFails, PingBranch, PingTick, SendPing, SendPongTimeout, ShutdownSeen,
      SendIdleClose, IdleSleepEnds, Send
<1>14. CASE \/ SinkRecv \/ SinkFails \/ SinkEnds \/ ClientReads \/ CliReads \/ SessionTells \/ Tick
            \/ UNCHANGED vars \/ \E kind \in ClientFrames : Asks(kind)
  BY <1>2, <1>14
  DEF SinkRecv, SinkFails, SinkEnds, ClientReads, CliReads, SessionTells, Tick, Asks, vars
<1> HIDE DEF Kept, ReaderDone
<1> QED
  BY <1>3, <1>4, <1>5, <1>6, <1>7, <1>8, <1>9, <1>10, <1>11, <1>12, <1>13, <1>14
  DEF Next, ReadBranch, Finish, Sink, Reader, Environment
-------------------------------------------------------------------------------
LEMMA PipeInvInit == Init => PipeInv
<1> SUFFICES ASSUME Init PROVE PipeInv
  OBVIOUS
<1>1. \A kinds : Kinds(<<>>, kinds) = <<>>
  BY KindsEmpty
<1>2. Held(Ctl("none"), Prompts) = <<>> /\ Held(Ctl("none"), Answers) = <<>>
  BY HeldFacts, CtlKind DEF Prompts, Answers
<1>3. <<>> \o <<>> = <<>>
  OBVIOUS
<1>4. UpFlow
  BY <1>1, <1>2, <1>3 DEF Init, UpFlow, NotReading
<1>5. DownFlow
  BY <1>1, <1>2, <1>3 DEF Init, DownFlow, WithSink
<1>6. ReaderDone
  BY <1>1 DEF Init, ReaderDone
<1> QED BY <1>4, <1>5, <1>6, RelayInvInit DEF PipeInv

LEMMA PipeInvHolds == Spec => []PipeInv
<1>1. PipeInv /\ [Next]_vars => PipeInv'
  BY RelayInvStep, UpFlowStep, DownFlowStep, ReaderDoneStep DEF PipeInv
<1> QED BY <1>1, PipeInvInit, PTL DEF Spec
-------------------------------------------------------------------------------
(* The refinements.                                                         *)

(* What comes in at one end is a message of the pipe, or nothing. *)
LEMMA AskedStep ==
    ASSUME IInv, [Next]_vars
    PROVE  \/ Kinds(asked', Prompts) = Kinds(asked, Prompts)
           \/ \E m \in Messages : Kinds(asked', Prompts) = Append(Kinds(asked, Prompts), m)
<1>1. asked \in Seq(AnyFrame)
  BY AllFrames DEF IInv, Typing
<1>2. ASSUME NEW kind \in ClientFrames, Asks(kind)
      PROVE  \/ Kinds(asked', Prompts) = Kinds(asked, Prompts)
             \/ \E m \in Messages : Kinds(asked', Prompts) = Append(Kinds(asked, Prompts), m)
  <2> DEFINE frame == [kind |-> kind, n |-> Len(asked) + 1]
  <2>1. /\ frame \in AnyFrame /\ asked' = Append(asked, frame)
        /\ frame.kind \in Prompts => frame \in Messages
    <3>1. Len(asked) \in Nat /\ Len(asked) < MaxAsk
      BY <1>1, <1>2, LenProperties DEF Asks
    <3> QED BY <1>2, <3>1, KindsAssumption, BoundsAssumption
        DEF Asks, AnyFrame, Frame, Messages, Prompts
  <2> HIDE DEF frame
  <2> QED BY <1>1, <2>1, KindsFacts
<1>3. CASE UNCHANGED asked
  BY <1>3
<1>4. (\E kind \in ClientFrames : Asks(kind)) \/ UNCHANGED asked
  BY DEF Next, ReadBranch, PingBranch, Finish, Sink, Reader, Environment, vars, peer,
         RecvText, RecvPing, RecvPong, RecvClose, RecvEnd, CountText, OpenCli, OpenFails,
         SendError, SendPong, WriteInvalid, WriteLine, WriteFails, PingTick, SendPing,
         SendPongTimeout, ShutdownSeen, SendIdleClose, IdleSleepEnds, Return,
         SinkRecv, SinkSend, SinkFails, SinkLoses, SinkEnds, ReadLine, ReadEof, SendLine,
         Says, ClientReads, ClientLeaves, CliReads, CliExits, SessionTells, Tick
<1> QED BY <1>2, <1>3, <1>4

LEMMA SaidStep ==
    ASSUME IInv, [Next]_vars
    PROVE  \/ Kinds(said', Answers) = Kinds(said, Answers)
           \/ \E m \in Messages : Kinds(said', Answers) = Append(Kinds(said, Answers), m)
<1>1. said \in Seq(AnyFrame)
  BY AllFrames DEF IInv, Typing
<1>2. ASSUME NEW kind \in CliLines, Says(kind)
      PROVE  \/ Kinds(said', Answers) = Kinds(said, Answers)
             \/ \E m \in Messages : Kinds(said', Answers) = Append(Kinds(said, Answers), m)
  <2> DEFINE line == [kind |-> kind, n |-> Len(said) + 1]
  <2>1. /\ line \in AnyFrame /\ said' = Append(said, line)
        /\ line.kind \in Answers => line \in Messages
    <3>1. Len(said) \in Nat /\ Len(said) < MaxSay
      BY <1>1, <1>2, LenProperties DEF Says
    <3> QED BY <1>2, <3>1, KindsAssumption, BoundsAssumption
        DEF Says, AnyFrame, Frame, Messages, Answers
  <2> HIDE DEF line
  <2> QED BY <1>1, <2>1, KindsFacts
<1>3. CASE UNCHANGED said
  BY <1>3
<1>4. (\E kind \in CliLines : Says(kind)) \/ UNCHANGED said
  BY DEF Next, ReadBranch, PingBranch, Finish, Sink, Reader, Environment, vars, copilot,
         RecvText, RecvPing, RecvPong, RecvClose, RecvEnd, CountText, OpenCli, OpenFails,
         SendError, SendPong, WriteInvalid, WriteLine, WriteFails, PingTick, SendPing,
         SendPongTimeout, ShutdownSeen, SendIdleClose, IdleSleepEnds, Return,
         SinkRecv, SinkSend, SinkFails, SinkLoses, SinkEnds, ReadLine, ReadEof, SendLine,
         Asks, ClientReads, ClientLeaves, CliReads, CliExits, SessionTells, Tick
<1> QED BY <1>2, <1>3, <1>4

(* What comes out is the next message that went in. *)
LEMMA ToCliStep ==
    ASSUME PipeInv, [Next]_vars
    PROVE  \/ toCli' = toCli
           \/ /\ Len(toCli) < Len(Kinds(asked, Prompts))
              /\ toCli' = Append(toCli, Kinds(asked, Prompts)[Len(toCli) + 1])
              /\ asked' = asked
<1>1. CASE UNCHANGED toCli
  BY <1>1
<1>2. CASE WriteLine
  <2>1. /\ InSelect /\ cli = "up" /\ rd.frame.kind \in Prompts
        /\ toCli' = Append(toCli, rd.frame) /\ asked' = asked
    BY <1>2 DEF WriteLine, Reading, PipeInv, IInv, Typing, FramesMatch, peer, Prompts
  <2>2. Held(rd.frame, Prompts) = <<rd.frame>>
    BY <2>1, HeldFacts DEF Prompts
  <2>3. /\ toCli \in Seq(AnyFrame) /\ rd.frame \in AnyFrame
        /\ Kinds(wsIn, Prompts) \in Seq(AnyFrame)
    BY AllFrames, KindsFacts DEF PipeInv, IInv, Typing
  <2>4. (toCli \o <<rd.frame>>) \o Kinds(wsIn, Prompts) = Kinds(asked, Prompts)
    BY <2>1, <2>2 DEF PipeInv, UpFlow
  <2>5. Len(toCli) < Len(Kinds(asked, Prompts)) /\ rd.frame = Kinds(asked, Prompts)[Len(toCli) + 1]
    BY <2>3, <2>4, NextOut
  <2> QED BY <2>1, <2>5
<1>3. WriteLine \/ UNCHANGED toCli
  BY DEF Next, ReadBranch, PingBranch, Finish, Sink, Reader, Environment, vars, copilot,
         RecvText, RecvPing, RecvPong, RecvClose, RecvEnd, CountText, OpenCli, OpenFails,
         SendError, SendPong, WriteInvalid, WriteFails, PingTick, SendPing,
         SendPongTimeout, ShutdownSeen, SendIdleClose, IdleSleepEnds, Return,
         SinkRecv, SinkSend, SinkFails, SinkLoses, SinkEnds, ReadLine, ReadEof, SendLine,
         Asks, Says, ClientReads, ClientLeaves, CliReads, CliExits, SessionTells, Tick
<1> QED BY <1>1, <1>2, <1>3

LEMMA ToClientStep ==
    ASSUME PipeInv, [Next]_vars
    PROVE  LET sent == Kinds(toClient, Answers) IN
           \/ Kinds(toClient', Answers) = sent
           \/ /\ Len(sent) < Len(Kinds(said, Answers))
              /\ Kinds(toClient', Answers) = Append(sent, Kinds(said, Answers)[Len(sent) + 1])
              /\ said' = said
<1> DEFINE sent == Kinds(toClient, Answers)
           line == Held(reader.line, Answers)
           queued == Kinds(chan, Answers)
           ahead == Kinds(stdout, Answers)
<1>1. CASE UNCHANGED toClient
  BY <1>1
<1>2. CASE SinkSend
  <2>1. /\ ~wsClosed /\ client = "open" /\ said' = said
        /\ toClient' = IF sink.frame.kind \in {"ping", "pong"} THEN toClient
                       ELSE Append(toClient, sink.frame)
    BY <1>2 DEF SinkSend, copilot
  <2>2. /\ toClient \in Seq(AnyFrame) /\ chan \in Seq(AnyFrame) /\ stdout \in Seq(AnyFrame)
        /\ sink.frame \in AnyFrame /\ reader.line \in AnyFrame
    BY AllFrames DEF PipeInv, IInv, Typing
  <2>3. /\ sent \in Seq(AnyFrame) /\ queued \in Seq(AnyFrame) /\ ahead \in Seq(AnyFrame)
        /\ line \in Seq(AnyFrame)
    BY <2>2, KindsFacts, HeldFacts
  <2>4. CASE sink.frame.kind \notin Answers
    <3>1. Kinds(Append(toClient, sink.frame), Answers) = sent
      BY <2>2, <2>4, KindsFacts
    <3> QED BY <2>1, <3>1
  <2>5. CASE sink.frame.kind \in Answers
    <3>1. Held(sink.frame, Answers) = <<sink.frame>> /\ toClient' = Append(toClient, sink.frame)
      BY <2>1, <2>5, HeldFacts DEF Answers
    <3>2. Kinds(Append(toClient, sink.frame), Answers) = Append(sent, sink.frame)
      BY <2>2, <2>5, KindsFacts
    <3>3. (((sent \o <<sink.frame>>) \o queued) \o line) \o ahead = Kinds(said, Answers)
      BY <2>1, <3>1 DEF PipeInv, DownFlow, WithSink
    <3>4. Len(sent) < Len(Kinds(said, Answers)) /\ sink.frame = Kinds(said, Answers)[Len(sent) + 1]
      <4> HIDE DEF sent, queued, line, ahead
      <4>1. \A s, t, u \in Seq(AnyFrame) : s \o t \in Seq(AnyFrame) /\ (s \o t) \o u = s \o (t \o u)
        BY ConcatProperties, ConcatAssociative, SMTT(30)
      <4> DEFINE now == sent \o <<sink.frame>>
      <4>2. <<sink.frame>> \in Seq(AnyFrame) /\ now \in Seq(AnyFrame)
        BY <2>2, <2>3, <4>1
      <4> DEFINE both == queued \o line
                 later == both \o ahead
      <4>3. later \in Seq(AnyFrame) /\ now \o later = Kinds(said, Answers)
        <5> HIDE DEF now
        <5>1. both \in Seq(AnyFrame) /\ (now \o queued) \o line = now \o both
          BY <2>3, <4>1, <4>2, SMTT(30)
        <5>2. later \in Seq(AnyFrame) /\ (now \o both) \o ahead = now \o later
          <6> HIDE DEF both, later
          <6>1. now \in Seq(AnyFrame) /\ both \in Seq(AnyFrame) /\ ahead \in Seq(AnyFrame)
            BY <2>3, <4>2, <5>1
          <6>2. both \o ahead \in Seq(AnyFrame) /\ (now \o both) \o ahead = now \o (both \o ahead)
            BY <4>1, <6>1
          <6> QED BY <6>2 DEF later
        <5> HIDE DEF both
        <5> QED BY <3>3, <5>1, <5>2 DEF now
      <4> HIDE DEF later
      <4>4. /\ sent \in Seq(AnyFrame) /\ sink.frame \in AnyFrame /\ later \in Seq(AnyFrame)
            /\ (sent \o <<sink.frame>>) \o later = Kinds(said, Answers)
        BY <2>2, <2>3, <4>3
      <4> HIDE DEF now
      <4> QED BY <4>4, NextOut
    <3> QED BY <2>1, <3>1, <3>2, <3>4
  <2> QED BY <2>4, <2>5
<1>3. SinkSend \/ UNCHANGED toClient
  BY DEF Next, ReadBranch, PingBranch, Finish, Sink, Reader, Environment, vars, outbound, Send,
         RecvText, RecvPing, RecvPong, RecvClose, RecvEnd, CountText, OpenCli, OpenFails,
         SendError, SendPong, WriteInvalid, WriteLine, WriteFails, PingTick, SendPing,
         SendPongTimeout, ShutdownSeen, SendIdleClose, IdleSleepEnds, Return,
         SinkRecv, SinkFails, SinkLoses, SinkEnds, ReadLine, ReadEof, SendLine,
         Asks, Says, ClientReads, ClientLeaves, CliReads, CliExits, SessionTells, Tick
<1> QED BY <1>1, <1>2, <1>3

(* What the CLI is written is what the client sent, once each, in order and   *)
(* without a gap, whatever the select! cancels.                             *)
THEOREM UpwardRefines == Spec => UpwardSpec
<1>1. Init => Upward!Init
  BY KindsEmpty DEF Init, Upward!Init
<1>2. ASSUME PipeInv, [Next]_vars
      PROVE  [Upward!Next]_<<Kinds(asked, {"prompt", "request"}), toCli>>
  <2>1. CASE toCli' = toCli
    BY <1>2, <2>1, AskedStep DEF PipeInv, Upward!Next, Upward!Accept, Prompts
  <2>2. CASE toCli' # toCli
    BY <1>2, <2>2, ToCliStep DEF Upward!Next, Upward!Deliver, Prompts
  <2> QED BY <2>1, <2>2
<1> QED BY <1>1, <1>2, PipeInvHolds, PTL DEF Spec, UpwardSpec, Upward!Spec

(* What the client is sent is what the CLI said, though a line goes through   *)
(* the reader task, the channel and the sink task, next to pings and errors. *)
THEOREM DownwardRefines == Spec => DownwardSpec
<1> DEFINE in == Kinds(said, {"update", "reply"})
           out == Kinds(toClient, {"update", "reply"})
<1>1. Init => Downward!Init
  BY KindsEmpty DEF Init, Downward!Init
<1>2. ASSUME PipeInv, [Next]_vars
      PROVE  [Downward!Next]_<<in, out>>
  <2>1. CASE out' = out
    BY <1>2, <2>1, SaidStep DEF PipeInv, Downward!Next, Downward!Accept, Answers
  <2>2. CASE out' # out
    BY <1>2, <2>2, ToClientStep DEF Downward!Next, Downward!Deliver, Answers
  <2> QED BY <2>1, <2>2
<1> QED BY <1>1, <1>2, PipeInvHolds, PTL DEF Spec, DownwardSpec, Downward!Spec
(* A relay that ended on its own side has returned no earlier than its        *)
(* answers reached a client that stayed.                                    *)
THEOREM AnswersBeforeReturn == Spec => []ReturnLosesNothing
<1>1. ASSUME PipeInv PROVE ReturnLosesNothing
  <2> DEFINE Answer(seq) == Kinds(seq, Answers)
             unread == IF Kinds(said, Stops) = <<>> THEN <<>> ELSE stdout
  <2> SUFFICES ASSUME main = "returned", client = "open", ~wsClosed
               PROVE  Answer(toClient) \o Answer(unread) = Answer(said)
    BY DEF ReturnLosesNothing, Answers
  <2>1. sink.at = "ended" /\ sink.frame.kind = "none" /\ chan = <<>> /\ ~SendersAlive
    <3>1. ChannelClosed /\ chan = <<>> /\ sink.at # "failed"
      BY <1>1 DEF PipeInv, IInv, Phases, ChannelInOrder
    <3>2. sink.at = "ended"
      BY <3>1 DEF ChannelClosed
    <3> QED BY <1>1, <3>1, <3>2, FrameFacts
        DEF PipeInv, IInv, Typing, TypeOK, OutboundOK, ChannelInOrder
  <2>2. reader.at \in {"none", "ended"} /\ reader.line.kind = "none"
    BY <1>1, <2>1 DEF PipeInv, IInv, Typing, TypeOK, FramesMatch, SendersAlive
  <2>3. Held(sink.frame, Answers) = <<>> /\ Held(reader.line, Answers) = <<>> /\ Answer(chan) = <<>>
    BY <2>1, <2>2, HeldFacts, KindsEmpty DEF Answers
  <2>4. Answer(toClient) \in Seq(AnyFrame)
    BY <1>1, AllFrames, KindsFacts DEF PipeInv, IInv, Typing
  <2>5. \A seq \in Seq(AnyFrame) : seq \o <<>> = seq
    OBVIOUS
  <2>6. Answer(toClient) \o Answer(stdout) = Answer(said)
    BY <1>1, <2>3, <2>4, <2>5 DEF PipeInv, DownFlow, WithSink
  <2>7. unread = stdout
    BY <1>1, <2>2 DEF PipeInv, ReaderDone
  <2> QED BY <2>6, <2>7
<1> QED BY <1>1, PipeInvHolds, PTL

===============================================================================
