------------------------------ MODULE RelayProofs ------------------------------
(***************************************************************************)
(* Proofs of the invariants of Relay.  The inductive invariant says what a  *)
(* task may hold at each await (FramesMatch), when the channel may close    *)
(* (ChannelInOrder), where the last word, a ping or its answer can be       *)
(* (Farewell, Keepalive), and that the counters are ahead of every line in  *)
(* the tasks' hands (CountsAhead).  Kinds is a recursive function: what it   *)
(* returns for every sequence is shown first, from the least counterexample. *)
(***************************************************************************)
EXTENDS Relay, SequenceTheorems, WellFoundedInduction, TLAPS

(* A set of naturals that is not empty has a least element: what the proofs  *)
(* below do induction with.                                                 *)
LEMMA LeastNatural ==
    ASSUME NEW S \in SUBSET Nat, S # {}
    PROVE  \E m \in S : \A n \in S : m <= n
<1>1. PICK m \in S : \A n \in S : <<n, m>> \notin OpToRel(<, Nat)
  BY NatLessThanWellFounded, WFMin
<1>2. \A n \in S : ~(n < m)
  BY <1>1 DEF OpToRel
<1> QED BY <1>2, SMT

(* The equation of the recursive function in Kinds. *)
PickNext(f, seq, kinds, i) ==
    IF i = 0 THEN <<>>
    ELSE IF seq[i].kind \in kinds THEN Append(f[i - 1], seq[i]) ELSE f[i - 1]

Picks(f, seq, kinds, n) == f = [i \in 0..n |-> PickNext(f, seq, kinds, i)]

(* The recursive function in Kinds exists. *)
LEMMA PicksExist ==
    ASSUME NEW seq, NEW kinds, NEW n \in Nat
    PROVE  \E f : Picks(f, seq, kinds, n)
<1> DEFINE Bad == {m \in Nat : ~ \E f : Picks(f, seq, kinds, m)}
<1> SUFFICES ASSUME Bad # {} PROVE FALSE
  OBVIOUS
<1>1. PICK m \in Bad : \A k \in Bad : m <= k
  BY LeastNatural
<1>2. CASE m = 0
  <2> DEFINE f == [i \in 0..0 |-> <<>>]
  <2>1. Picks(f, seq, kinds, 0)
    BY DEF Picks, PickNext
  <2> QED BY <2>1, <1>2, <1>1
<1>3. CASE m # 0
  <2>1. m - 1 \in Nat /\ m - 1 \notin Bad
    BY <1>1, <1>3
  <2>2. PICK g : Picks(g, seq, kinds, m - 1)
    BY <2>1
  <2> DEFINE f == [i \in 0..m |-> IF i = m THEN PickNext(g, seq, kinds, m) ELSE g[i]]
  <2>3. \A i \in 0..m : f[i] = PickNext(f, seq, kinds, i)
    <3> SUFFICES ASSUME NEW i \in 0..m PROVE f[i] = PickNext(f, seq, kinds, i)
      OBVIOUS
    <3>1. CASE i = m
      <4>1. f[m] = PickNext(g, seq, kinds, m) /\ f[m - 1] = g[m - 1]
        BY <2>1
      <4> QED BY <4>1, <3>1, <1>3 DEF PickNext
    <3>2. CASE i # m
      <4>1. i \in 0..(m - 1)
        BY <3>2, <2>1
      <4>2. f[i] = g[i]
        BY <3>2
      <4>3. g[i] = PickNext(g, seq, kinds, i)
        BY <4>1, <2>2 DEF Picks
      <4>4. i # 0 => f[i - 1] = g[i - 1]
        BY <4>1, <2>1
      <4> QED BY <4>2, <4>3, <4>4 DEF PickNext
    <3> QED BY <3>1, <3>2
  <2>4. f = [i \in 0..m |-> PickNext(f, seq, kinds, i)]
    <3> DEFINE h == [i \in 0..m |-> PickNext(f, seq, kinds, i)]
    <3>1. \A i \in 0..m : f[i] = h[i]
      BY <2>3
    <3>2. f = [i \in 0..m |-> f[i]]
      OBVIOUS
    <3> HIDE DEF f
    <3> QED BY <3>1, <3>2
  <2> QED BY <2>4, <1>1 DEF Picks
<1> QED BY <1>2, <1>3

(* Its values depend on the frames before them alone. *)
LEMMA PicksAgree ==
    ASSUME NEW s, NEW t, NEW kinds, NEW m \in Nat, NEW n \in Nat, m <= n,
           \A i \in 1..m : s[i] = t[i],
           NEW f, Picks(f, s, kinds, m), NEW g, Picks(g, t, kinds, n)
    PROVE  f[m] = g[m]
<1> DEFINE Bad == {k \in 0..m : f[k] # g[k]}
<1> SUFFICES ASSUME Bad # {} PROVE FALSE
  OBVIOUS
<1>0. Bad \in SUBSET Nat
  OBVIOUS
<1>1. PICK k \in Bad : \A j \in Bad : k <= j
  <2> HIDE DEF Bad
  <2> QED BY <1>0, LeastNatural
<1>2. f[k] = PickNext(f, s, kinds, k) /\ g[k] = PickNext(g, t, kinds, k)
  BY <1>1, SMTT(30) DEF Picks
<1>3. CASE k = 0
  BY <1>1, <1>2, <1>3 DEF PickNext
<1>4. CASE k # 0
  <2>1. k - 1 \in 0..m /\ k \in 1..m /\ k - 1 \notin Bad
    BY <1>1, <1>4
  <2>2. f[k - 1] = g[k - 1] /\ s[k] = t[k]
    BY <2>1
  <2> QED BY <2>2, <1>1, <1>2, <1>4 DEF PickNext
<1> QED BY <1>3, <1>4

(* Kinds is its last value. *)
LEMMA KindsIsPicks ==
    ASSUME NEW seq, Len(seq) \in Nat, NEW kinds
    PROVE  \E f : Picks(f, seq, kinds, Len(seq)) /\ Kinds(seq, kinds) = f[Len(seq)]
<1> DEFINE f == CHOOSE pick : Picks(pick, seq, kinds, Len(seq))
<1>1. Picks(f, seq, kinds, Len(seq))
  BY PicksExist
<1>2. Kinds(seq, kinds) = f[Len(seq)]
  BY DEF Kinds, Picks, PickNext
<1> QED BY <1>1, <1>2

(* Kinds of the empty sequence, and of one with a frame more. *)
LEMMA KindsEmpty ==
    ASSUME NEW kinds
    PROVE  Kinds(<<>>, kinds) = <<>>
<1>1. PICK f : Picks(f, <<>>, kinds, Len(<<>>)) /\ Kinds(<<>>, kinds) = f[Len(<<>>)]
  BY KindsIsPicks
<1> QED BY <1>1 DEF Picks, PickNext

LEMMA KindsAppend ==
    ASSUME NEW S, NEW seq \in Seq(S), NEW x \in S, NEW kinds
    PROVE  Kinds(Append(seq, x), kinds) =
             IF x.kind \in kinds THEN Append(Kinds(seq, kinds), x) ELSE Kinds(seq, kinds)
<1> DEFINE more == Append(seq, x)
<1> PICK n \in Nat : n = Len(seq)
  OBVIOUS
<1>1. /\ Len(more) = n + 1 /\ more[n + 1] = x
      /\ \A i \in 1..n : seq[i] = more[i]
  OBVIOUS
<1> HIDE DEF more
<1>2. PICK f : Picks(f, seq, kinds, n) /\ Kinds(seq, kinds) = f[n]
  BY KindsIsPicks
<1>3. PICK g : Picks(g, more, kinds, n + 1) /\ Kinds(more, kinds) = g[n + 1]
  BY <1>1, KindsIsPicks
<1>4. f[n] = g[n]
  <2>1. n + 1 \in Nat /\ n <= n + 1
    OBVIOUS
  <2> QED BY <1>1, <1>2, <1>3, <2>1, PicksAgree
<1>5. g[n + 1] = PickNext(g, more, kinds, n + 1)
  BY <1>3 DEF Picks
<1>6. g[n + 1] = IF x.kind \in kinds THEN Append(g[n], x) ELSE g[n]
  BY <1>1, <1>5 DEF PickNext
<1> QED BY <1>2, <1>3, <1>4, <1>6 DEF more

(* Appending to the second of two sequences appends to their concatenation. *)
LEMMA ConcatAppend ==
    ASSUME NEW S, NEW s \in Seq(S), NEW t \in Seq(S), NEW x \in S
    PROVE  s \o t \in Seq(S) /\ s \o Append(t, x) = Append(s \o t, x)
<1>1. <<x>> \in Seq(S) /\ s \o t \in Seq(S)
  BY ConcatProperties
<1>2. Append(t, x) = t \o <<x>> /\ Append(s \o t, x) = (s \o t) \o <<x>>
  BY <1>1, AppendIsConcat
<1>3. (s \o t) \o <<x>> = s \o (t \o <<x>>)
  BY <1>1, ConcatAssociative
<1> QED BY <1>1, <1>2, <1>3

(* What Kinds selects is of the kinds. *)
LEMMA KindsType ==
    ASSUME NEW S, NEW seq \in Seq(S), NEW kinds
    PROVE  /\ Kinds(seq, kinds) \in Seq({x \in S : x.kind \in kinds})
           /\ Kinds(seq, kinds) \in Seq(S)
<1> DEFINE T == {x \in S : x.kind \in kinds}
           Bad == {n \in Nat : \E s \in Seq(S) : Len(s) = n /\ Kinds(s, kinds) \notin Seq(T)}
<1>1. Bad = {}
  <2> SUFFICES ASSUME Bad # {} PROVE FALSE
    OBVIOUS
  <2>0. Bad \in SUBSET Nat
    OBVIOUS
  <2>1. PICK n \in Bad : \A j \in Bad : n <= j
    <3> HIDE DEF Bad
    <3> QED BY <2>0, LeastNatural
  <2>2. PICK s \in Seq(S) : Len(s) = n /\ Kinds(s, kinds) \notin Seq(T)
    BY <2>1
  <2>3. s # <<>>
    BY <2>2, KindsEmpty
  <2>4. PICK front \in Seq(S), x \in S : s = Append(front, x)
    BY <2>3, SequenceEmptyOrAppend
  <2>5. Len(front) \in Nat /\ Len(front) \notin Bad
    BY <2>1, <2>2, <2>4, AppendProperties, SMTT(30)
  <2>6. Kinds(front, kinds) \in Seq(T)
    BY <2>5
  <2>7. Kinds(s, kinds) = IF x.kind \in kinds THEN Append(Kinds(front, kinds), x) ELSE Kinds(front, kinds)
    BY <2>4, KindsAppend
  <2> QED BY <2>2, <2>6, <2>7
<1>2. Len(seq) \in Nat
  OBVIOUS
<1>3. Kinds(seq, kinds) \in Seq(T)
  BY <1>1, <1>2
<1>4. Kinds(seq, kinds) \in Seq(S)
  <2> HIDE DEF T
  <2>1. T \subseteq S
    BY DEF T
  <2> QED BY <1>3, <2>1, SeqMonotonic
<1> QED BY <1>3, <1>4

(* Kinds of a concatenation. *)
LEMMA KindsConcat ==
    ASSUME NEW S, NEW s \in Seq(S), NEW t \in Seq(S), NEW kinds
    PROVE  Kinds(s \o t, kinds) = Kinds(s, kinds) \o Kinds(t, kinds)
<1> DEFINE Holds(u) == Kinds(s \o u, kinds) = Kinds(s, kinds) \o Kinds(u, kinds)
           Bad == {n \in Nat : \E u \in Seq(S) : Len(u) = n /\ ~Holds(u)}
<1>1. Bad = {}
  <2> SUFFICES ASSUME Bad # {} PROVE FALSE
    OBVIOUS
  <2>0. Bad \in SUBSET Nat
    OBVIOUS
  <2>1. PICK n \in Bad : \A j \in Bad : n <= j
    <3> HIDE DEF Bad
    <3> QED BY <2>0, LeastNatural
  <2>2. PICK u \in Seq(S) : Len(u) = n /\ ~Holds(u)
    BY <2>1
  <2>3. u # <<>>
    <3>1. Kinds(s, kinds) \in Seq(S)
      BY KindsType
    <3>2. Holds(<<>>)
      BY <3>1, KindsEmpty, ConcatEmptySeq
    <3> QED BY <3>2, <2>2
  <2>4. PICK front \in Seq(S), x \in S : u = Append(front, x)
    BY <2>3, SequenceEmptyOrAppend
  <2>5. Holds(front)
    <3>1. Len(front) \in Nat /\ Len(front) < n
      BY <2>2, <2>4, AppendProperties, SMTT(30)
    <3>2. Len(front) \notin Bad
      <4> HIDE DEF Bad
      <4> QED BY <2>0, <2>1, <3>1
    <3> HIDE DEF Holds
    <3> QED BY <3>1, <3>2
  <2> HIDE DEF Bad, Holds
  <2>6. Kinds(s, kinds) \in Seq(S) /\ Kinds(front, kinds) \in Seq(S)
    BY KindsType
  <2>7. front \in Seq(S) /\ x \in S
    BY <2>4
  <2>8. s \o front \in Seq(S)
    BY <2>7, ConcatProperties
  <2>9. s \o Append(front, x) = Append(s \o front, x)
    BY <2>7, ConcatAppend
  <2> DEFINE both == s \o front
  <2>10. both \in Seq(S) /\ s \o u = Append(both, x)
    BY <2>4, <2>8, <2>9
  <2> HIDE DEF both
  <2>11. Kinds(both, kinds) = Kinds(s, kinds) \o Kinds(front, kinds)
    BY <2>5 DEF both, Holds
  <2>12. CASE x.kind \in kinds
    <3>1. Kinds(u, kinds) = Append(Kinds(front, kinds), x)
      BY <2>4, <2>12, KindsAppend
    <3>2. Kinds(Append(both, x), kinds) = Append(Kinds(both, kinds), x)
      BY <2>7, <2>10, <2>12, KindsAppend
    <3>3. Kinds(s, kinds) \o Append(Kinds(front, kinds), x)
            = Append(Kinds(s, kinds) \o Kinds(front, kinds), x)
      BY <2>6, <2>7, ConcatAppend
    <3>4. Kinds(s \o u, kinds) = Append(Kinds(s, kinds) \o Kinds(front, kinds), x)
      BY <2>10, <2>11, <3>2, Zenon
    <3>5. Kinds(s, kinds) \o Kinds(u, kinds) = Append(Kinds(s, kinds) \o Kinds(front, kinds), x)
      BY <3>1, <3>3, Zenon
    <3> QED BY <2>2, <3>4, <3>5 DEF Holds
  <2>13. CASE x.kind \notin kinds
    <3>1. Kinds(u, kinds) = Kinds(front, kinds)
      BY <2>4, <2>13, KindsAppend
    <3>2. Kinds(Append(both, x), kinds) = Kinds(both, kinds)
      BY <2>7, <2>10, <2>13, KindsAppend
    <3> QED BY <2>2, <2>10, <2>11, <3>1, <3>2 DEF Holds
  <2> QED BY <2>12, <2>13
<1>2. Len(t) \in Nat
  OBVIOUS
<1> QED BY <1>1, <1>2

(* Kinds of one frame, and of a sequence by its head. *)
LEMMA KindsOne ==
    ASSUME NEW x, NEW kinds
    PROVE  Kinds(<<x>>, kinds) = IF x.kind \in kinds THEN <<x>> ELSE <<>>
<1>1. <<>> \in Seq({x}) /\ Append(<<>>, x) = <<x>>
  OBVIOUS
<1>2. Kinds(Append(<<>>, x), kinds) =
        IF x.kind \in kinds THEN Append(Kinds(<<>>, kinds), x) ELSE Kinds(<<>>, kinds)
  BY <1>1, KindsAppend
<1> QED BY <1>1, <1>2, KindsEmpty

LEMMA KindsHead ==
    ASSUME NEW S, NEW seq \in Seq(S), seq # <<>>, NEW kinds
    PROVE  Kinds(seq, kinds) = Kinds(<<Head(seq)>>, kinds) \o Kinds(Tail(seq), kinds)
<1> DEFINE first == <<Head(seq)>>
           rest == Tail(seq)
<1>1. first \in Seq(S) /\ rest \in Seq(S) /\ seq = first \o rest
  OBVIOUS
<1> HIDE DEF first, rest
<1>2. Kinds(first \o rest, kinds) = Kinds(first, kinds) \o Kinds(rest, kinds)
  BY <1>1, KindsConcat
<1> QED BY <1>1, <1>2 DEF first, rest
-------------------------------------------------------------------------------
(* Frames and sequences of frames as the invariants speak of them.          *)

Carries(seq, kind) == Kinds(seq, {kind}) # <<>>

Number(seq, kind) == Len(Kinds(seq, {kind}))

One(frame, kind) == IF frame.kind = kind THEN 1 ELSE 0

Updates(seq) == Len(Kinds(seq, {"update"}))

Count(frame) == IF frame.kind = "update" THEN 1 ELSE 0

LEMMA FrameFacts ==
    ASSUME NEW K
    PROVE  /\ \A x \in Frame(K) : x.kind \in K /\ x.n \in Nat
           /\ \A k \in K : Ctl(k) \in Frame(K)
           /\ \A L : \A x \in Frame(L) : x.kind \in K => x \in Frame(K)
  BY DEF Frame, Ctl

LEMMA CtlKind == \A k : Ctl(k).kind = k
  BY DEF Ctl

LEMMA HeadTail ==
    ASSUME NEW S, NEW seq \in Seq(S), seq # <<>>
    PROVE  /\ Head(seq) \in S /\ Tail(seq) \in Seq(S)
           /\ Len(seq) \in Nat /\ Len(Tail(seq)) = Len(seq) - 1
  OBVIOUS

(* What a sequence carries, by its parts. *)
LEMMA CarriesFacts ==
    ASSUME NEW kind
    PROVE  /\ ~Carries(<<>>, kind)
           /\ \A S : \A seq \in Seq(S), x \in S :
                 Carries(Append(seq, x), kind) <=> Carries(seq, kind) \/ x.kind = kind
           /\ \A S : \A seq \in Seq(S) : seq # <<>> =>
                 (Carries(seq, kind) <=> Head(seq).kind = kind \/ Carries(Tail(seq), kind))
<1>1. ~Carries(<<>>, kind)
  BY KindsEmpty DEF Carries
<1>2. ASSUME NEW S, NEW seq \in Seq(S), NEW x \in S
      PROVE  Carries(Append(seq, x), kind) <=> Carries(seq, kind) \/ x.kind = kind
  <2>1. Kinds(seq, {kind}) \in Seq(S)
    BY KindsType
  <2>2. Append(Kinds(seq, {kind}), x) # <<>>
    BY <2>1, AppendProperties
  <2> QED BY <2>2, KindsAppend DEF Carries
<1>3. ASSUME NEW S, NEW seq \in Seq(S), seq # <<>>
      PROVE  Carries(seq, kind) <=> Head(seq).kind = kind \/ Carries(Tail(seq), kind)
  <2>1. Head(seq) \in S /\ Tail(seq) \in Seq(S)
    BY <1>3, HeadTail
  <2> DEFINE h == Kinds(<<Head(seq)>>, {kind})
             t == Kinds(Tail(seq), {kind})
  <2>2. h \in Seq(S) /\ t \in Seq(S)
    <3>1. <<Head(seq)>> \in Seq(S)
      BY <2>1
    <3> QED BY <2>1, <3>1, KindsType
  <2>3. Kinds(seq, {kind}) = h \o t
    BY <1>3, KindsHead
  <2>4. h # <<>> <=> Head(seq).kind = kind
    <3>1. h = IF Head(seq).kind \in {kind} THEN <<Head(seq)>> ELSE <<>>
      BY KindsOne
    <3> HIDE DEF h
    <3> QED BY <3>1
  <2> HIDE DEF h
  <2>5. h \o t = <<>> <=> h = <<>> /\ t = <<>>
    BY <2>2, ConcatEqualIffEmpty
  <2> QED BY <2>3, <2>4, <2>5 DEF Carries
<1> QED BY <1>1, <1>2, <1>3

(* How many frames of a kind it carries. *)
LEMMA NumberFacts ==
    ASSUME NEW kind
    PROVE  /\ Number(<<>>, kind) = 0
           /\ \A S : \A seq \in Seq(S) : Number(seq, kind) \in Nat
           /\ \A S : \A seq \in Seq(S), x \in S :
                 Number(Append(seq, x), kind) = Number(seq, kind) + One(x, kind)
           /\ \A S : \A seq \in Seq(S) : seq # <<>> =>
                 Number(seq, kind) = One(Head(seq), kind) + Number(Tail(seq), kind)
<1> DEFINE U == {kind}
<1>1. Number(<<>>, kind) = 0
  BY KindsEmpty DEF Number
<1>2. ASSUME NEW S, NEW seq \in Seq(S) PROVE Number(seq, kind) \in Nat
  <2>1. Kinds(seq, U) \in Seq(S)
    BY KindsType
  <2> QED BY <2>1, LenProperties DEF Number
<1>3. ASSUME NEW S, NEW seq \in Seq(S), NEW x \in S
      PROVE  Number(Append(seq, x), kind) = Number(seq, kind) + One(x, kind)
  <2>1. Kinds(seq, U) \in Seq(S)
    BY KindsType
  <2>2. Kinds(Append(seq, x), U) = IF x.kind \in U THEN Append(Kinds(seq, U), x) ELSE Kinds(seq, U)
    BY KindsAppend
  <2>3. Len(Append(Kinds(seq, U), x)) = Len(Kinds(seq, U)) + 1 /\ Len(Kinds(seq, U)) \in Nat
    BY <2>1, AppendProperties, LenProperties
  <2> QED BY <2>2, <2>3 DEF Number, One
<1>4. ASSUME NEW S, NEW seq \in Seq(S), seq # <<>>
      PROVE  Number(seq, kind) = One(Head(seq), kind) + Number(Tail(seq), kind)
  <2>1. Head(seq) \in S /\ Tail(seq) \in Seq(S)
    BY <1>4, HeadTail
  <2> DEFINE h == Kinds(<<Head(seq)>>, U)
             t == Kinds(Tail(seq), U)
  <2>2. h \in Seq(S) /\ t \in Seq(S)
    <3>1. <<Head(seq)>> \in Seq(S)
      BY <2>1
    <3> QED BY <2>1, <3>1, KindsType
  <2>3. Kinds(seq, U) = h \o t
    BY <1>4, KindsHead
  <2>4. Len(h) = One(Head(seq), kind)
    <3>1. h = IF Head(seq).kind \in U THEN <<Head(seq)>> ELSE <<>>
      BY KindsOne
    <3> HIDE DEF h
    <3> QED BY <3>1 DEF One
  <2> HIDE DEF h
  <2>5. Len(h \o t) = Len(h) + Len(t)
    BY <2>2, ConcatProperties
  <2> QED BY <2>3, <2>4, <2>5 DEF Number
<1> QED BY <1>1, <1>2, <1>3, <1>4

LEMMA CountFacts ==
    /\ Updates(<<>>) = 0
    /\ \A S : \A seq \in Seq(S) : Updates(seq) \in Nat
    /\ \A S : \A seq \in Seq(S), x \in S : Updates(Append(seq, x)) = Updates(seq) + Count(x)
    /\ \A S : \A seq \in Seq(S) : seq # <<>> =>
          Updates(seq) = Count(Head(seq)) + Updates(Tail(seq))
  BY NumberFacts DEF Updates, Count, Number, One
-------------------------------------------------------------------------------
(* The inductive invariant, in parts.                                       *)

(* What a task holds fits the await it is at. *)
FramesMatch ==
    /\ rd.at = "next" => rd.frame.kind = "none"
    /\ rd.at \in {"count", "open", "write"} => rd.frame.kind \in {"prompt", "request", "bad"}
    /\ rd.at \in {"pong", "error"} => rd.frame.kind = rd.at
    /\ reader.line.kind \in IF reader.at = "send" THEN {"update", "reply"} ELSE {"none"}

(* The first text opens the CLI, and only it: until then nothing reads it. *)
CliState ==
    InSelect =>
        IF writer THEN cli \in {"up", "exited"} /\ rd.at \notin {"open", "error"}
        ELSE /\ cli = IF rd.at = "error" THEN "failed" ELSE "none"
             /\ rd.at # "write" /\ reader.at = "none"

(* Why the relay is past its select!, and that it returns last of all. *)
Phases ==
    /\ InSelect <=> why = "none"
    /\ main \in {"idleClose", "idleSleep"} => why = "idle"
    /\ main = "returned" => ChannelClosed /\ (Stdio => cli # "up")

(* The channel closes only behind the last frame: the sink task ends when no *)
(* sender is left, and fails only when the client is gone or has its Close;  *)
(* a Close enters the channel only for a timeout.                           *)
ChannelInOrder ==
    /\ ChannelClosed => chan = <<>>
    /\ sink.at = "ended" => ~SendersAlive
    /\ sink.at = "failed" => wsClosed \/ client = "gone"
    /\ main \in {"select", "idleClose"} \/ why = "error" =>
          ~wsClosed /\ ~Carries(chan, "close") /\ sink.frame.kind # "close"
    /\ wsClosed /\ client = "open" /\ why # "peer" => Carries(toClient, "close")

OnItsWay(kind) == Carries(chan, kind) \/ sink.frame.kind = kind \/ Carries(toClient, kind)

(* The last word is in the channel, with the sink task, or with the client. *)
Farewell ==
    client = "open" =>
        /\ why = "error" => OnItsWay("error")
        /\ why = "pong" \/ (why = "idle" /\ main # "idleClose") => OnItsWay("close")

PingOnItsWay ==
    \/ Carries(chan, "ping") \/ sink.frame.kind = "ping"
    \/ Carries(sock, "ping") \/ Carries(wsIn, "pong")

(* Once an interval has passed without a pong, a ping is due or a ping or    *)
(* its answer is somewhere; so something holds an overdue answer up.        *)
Keepalive ==
    /\ InSelect /\ client = "open" /\ age > 0 => due > 0 \/ ping # "tick" \/ PingOnItsWay
    /\ PongTicks >= 2 /\ InSelect /\ client = "open" /\ (age >= PongTicks \/ ping = "close") =>
          late # "none"
    /\ ResponsiveNeverDropped

(* The counters are ahead of every line the relay or its tasks still hold. *)
CountsAhead ==
    /\ prompts >= Number(toCli, "prompt")
    /\ rd.at \in {"open", "write"} /\ rd.frame.kind = "prompt" => prompts > Number(toCli, "prompt")
    /\ messages >= Updates(toClient) + Updates(chan) + Count(sink.frame) + Count(reader.line)

Typing == TypeOK /\ FramesMatch /\ CliState

IInv ==
    /\ Typing /\ Phases /\ ChannelInOrder
    /\ Farewell /\ Keepalive /\ CountsAhead
-------------------------------------------------------------------------------
(* The steps that move a frame.                                             *)

LEMMA SendFacts ==
    ASSUME TypeOK, NEW frame \in OutFrames, Send(frame)
    PROVE  /\ chan' \in Seq(OutFrames) /\ Len(chan') <= Capacity
           /\ ChannelClosed => chan' = chan
           /\ ~ChannelClosed =>
                 \A kind : Carries(chan', kind) <=> Carries(chan, kind) \/ frame.kind = kind
           /\ Updates(chan') \in Nat /\ Updates(chan') <= Updates(chan) + Count(frame)
           /\ UNCHANGED <<sink, wsClosed, sock, toClient>>
<1>1. chan \in Seq(OutFrames) /\ Len(chan) <= Capacity /\ UNCHANGED <<sink, wsClosed, sock, toClient>>
  BY DEF TypeOK, OutboundOK, Send
<1>2. Updates(chan) \in Nat /\ Count(frame) \in Nat
  BY <1>1, CountFacts DEF Count
<1>3. CASE ChannelClosed
  BY <1>1, <1>2, <1>3 DEF Send, Count
<1>4. CASE ~ChannelClosed
  <2>1. chan' = Append(chan, frame) /\ Len(chan) < Capacity
    BY <1>4 DEF Send, CanSend
  <2>2. chan' \in Seq(OutFrames) /\ Len(chan') = Len(chan) + 1
    BY <1>1, <2>1, AppendProperties
  <2>3. \A kind : Carries(chan', kind) <=> Carries(chan, kind) \/ frame.kind = kind
    BY <1>1, <2>1, CarriesFacts
  <2>4. Updates(chan') = Updates(chan) + Count(frame)
    BY <1>1, <2>1, CountFacts
  <2> QED BY <1>1, <1>2, <1>4, <2>1, <2>2, <2>3, <2>4, CapacityAssumption
<1> QED BY <1>3, <1>4

LEMMA SinkRecvFacts ==
    ASSUME TypeOK, SinkRecv
    PROVE  /\ sink'.at = "send" /\ sink'.frame \in OutFrames
           /\ sink.frame.kind = "none" /\ ~ChannelClosed /\ ~ChannelClosed'
           /\ chan' \in Seq(OutFrames) /\ Len(chan') <= Capacity
           /\ \A kind : Carries(chan, kind) <=> sink'.frame.kind = kind \/ Carries(chan', kind)
           /\ Updates(chan) = Count(sink'.frame) + Updates(chan')
<1>1. /\ chan \in Seq(OutFrames) /\ Len(chan) <= Capacity /\ chan # <<>>
      /\ sink' = [at |-> "send", frame |-> Head(chan)] /\ chan' = Tail(chan)
  BY DEF TypeOK, OutboundOK, SinkRecv
<1>2. /\ Head(chan) \in OutFrames /\ Tail(chan) \in Seq(OutFrames)
      /\ Len(chan) \in Nat /\ Len(Tail(chan)) = Len(chan) - 1
  BY <1>1, HeadTail
<1>3. sink.frame.kind = "none" /\ ~ChannelClosed /\ ~ChannelClosed'
  BY <1>1, FrameFacts DEF TypeOK, OutboundOK, SinkRecv, ChannelClosed
<1>4. \A kind : Carries(chan, kind) <=> Head(chan).kind = kind \/ Carries(Tail(chan), kind)
  BY <1>1, CarriesFacts
<1>5. Updates(chan) = Count(Head(chan)) + Updates(Tail(chan))
  BY <1>1, CountFacts
<1> QED BY <1>1, <1>2, <1>3, <1>4, <1>5, CapacityAssumption

LEMMA SinkSendFacts ==
    ASSUME TypeOK, SinkSend
    PROVE  /\ sink.frame \in OutFrames /\ sink' = [at |-> "recv", frame |-> Ctl("none")]
           /\ ~ChannelClosed /\ ~ChannelClosed'
           /\ sock' \in Seq(OutFrames) /\ Len(sock') <= SockCap /\ toClient' \in Seq(OutFrames)
           /\ \A kind : Carries(sock', kind) <=> Carries(sock, kind) \/ sink.frame.kind = kind
           /\ \A kind : Carries(toClient', kind) <=>
                 \/ Carries(toClient, kind)
                 \/ sink.frame.kind = kind /\ kind \notin {"ping", "pong"}
           /\ Updates(toClient') = Updates(toClient) + Count(sink.frame)
<1>1. /\ sink.frame \in OutFrames /\ sink.at = "send"
      /\ sock \in Seq(OutFrames) /\ Len(sock) < SockCap /\ toClient \in Seq(OutFrames)
      /\ sock' = Append(sock, sink.frame)
      /\ sink' = [at |-> "recv", frame |-> Ctl("none")]
      /\ toClient' = IF sink.frame.kind \in {"ping", "pong"} THEN toClient
                     ELSE Append(toClient, sink.frame)
  BY DEF TypeOK, OutboundOK, SinkSend
<1>2. sock' \in Seq(OutFrames) /\ Len(sock') = Len(sock) + 1 /\ toClient' \in Seq(OutFrames)
  BY <1>1, AppendProperties
<1>3. \A kind : Carries(sock', kind) <=> Carries(sock, kind) \/ sink.frame.kind = kind
  BY <1>1, CarriesFacts
<1>4. \A kind : Carries(toClient', kind) <=>
          \/ Carries(toClient, kind)
          \/ sink.frame.kind = kind /\ kind \notin {"ping", "pong"}
  BY <1>1, CarriesFacts
<1>5. Updates(toClient') = Updates(toClient) + Count(sink.frame)
  BY <1>1, CountFacts DEF Count
<1>6. ~ChannelClosed /\ ~ChannelClosed'
  BY <1>1 DEF ChannelClosed
<1> QED BY <1>1, <1>2, <1>3, <1>4, <1>5, <1>6, CapacityAssumption
-------------------------------------------------------------------------------
(* Typing.                                                                  *)

(* A step that leaves the variables of a part alone leaves the part alone. *)
LEMMA TypesUnchanged ==
    ASSUME TypeOK
    PROVE  /\ UNCHANGED task => TaskOK'
           /\ UNCHANGED timer => TimerOK'
           /\ UNCHANGED outbound => OutboundOK'
           /\ UNCHANGED peer => PeerOK'
           /\ UNCHANGED copilot => CopilotOK'
           /\ UNCHANGED session => mode' \in Modes /\ told' \in BOOLEAN
           /\ UNCHANGED reader => reader' \in [at : {"none", "read", "send", "ended"},
                                               line : Frame(LineKinds \cup {"none"})]
           /\ UNCHANGED counts => prompts' \in Nat /\ messages' \in Nat
  BY SMTT(30) DEF TypeOK, TaskOK, TimerOK, OutboundOK, PeerOK, CopilotOK,
         task, timer, outbound, peer, copilot, session, counts

LEMMA EndSelectTyped ==
    ASSUME NEW next \in {"idleClose", "cleanup"},
           NEW reason \in {"peer", "error", "write", "pong", "idle"},
           EndSelect(next, reason)
    PROVE  TaskOK'
<1>1. Ctl("none") \in Frame(TextKinds \cup {"none", "error", "pong"})
  BY FrameFacts
<1> QED BY <1>1 DEF EndSelect, NotReading, TaskOK

LEMMA ReadTyped ==
    ASSUME TypeOK, NEW at \in {"next", "count", "open", "write", "error", "pong"},
           NEW frame \in Frame(TextKinds \cup {"none", "error", "pong"}), Read(at, frame)
    PROVE  TaskOK'
  BY DEF Read, TaskOK, TypeOK

LEMMA SendTyped ==
    ASSUME TypeOK, NEW frame \in OutFrames, Send(frame)
    PROVE  OutboundOK'
  BY SendFacts DEF TypeOK, OutboundOK

LEMMA OutCtl == \A kind \in {"error", "ping", "pong", "close"} : Ctl(kind) \in OutFrames
  BY FrameFacts DEF OutFrames

(* The frame the read branch takes from the client. *)
LEMMA ClientHead ==
    ASSUME TypeOK, wsIn # <<>>
    PROVE  /\ Head(wsIn) \in Frame(TextKinds \cup {"ping", "pong", "close"})
           /\ Tail(wsIn) \in Seq(Frame(TextKinds \cup {"ping", "pong", "close"}))
           /\ Head(wsIn).kind \in TextKinds => Head(wsIn) \in Frame(TextKinds)
           /\ Head(wsIn).kind \in TextKinds => Head(wsIn) \in Frame(TextKinds \cup {"none", "error", "pong"})
<1>1. /\ Head(wsIn) \in Frame(TextKinds \cup {"ping", "pong", "close"})
      /\ Tail(wsIn) \in Seq(Frame(TextKinds \cup {"ping", "pong", "close"}))
  BY HeadTail DEF TypeOK, PeerOK
<1> QED BY <1>1, FrameFacts

LEMMA ReadBranchTyped ==
    ASSUME TypeOK, FramesMatch, ReadBranch
    PROVE  TypeOK'
<1> USE TypesUnchanged DEF TypeOK
<1>c. \A kind \in {"none", "pong", "error"} : Ctl(kind) \in Frame(TextKinds \cup {"none", "error", "pong"})
  BY FrameFacts
<1>f. rd.frame \in Frame(TextKinds \cup {"none", "error", "pong"})
  BY DEF TaskOK
<1>1. CASE RecvText
  <2>1. TaskOK'
    BY <1>1, <1>c, ClientHead, ReadTyped DEF RecvText, ReadNext
  <2>2. PeerOK'
    BY <1>1, ClientHead DEF RecvText, PeerOK
  <2> QED BY <1>1, <2>1, <2>2 DEF RecvText
<1>2. CASE RecvPing
  <2>1. TaskOK'
    BY <1>2, <1>c, ReadTyped DEF RecvPing
  <2>2. PeerOK'
    BY <1>2, ClientHead DEF RecvPing, PeerOK
  <2> QED BY <1>2, <2>1, <2>2 DEF RecvPing
<1>3. CASE RecvPong
  <2>1. TimerOK'
    BY <1>3 DEF RecvPong, TimerOK
  <2>2. PeerOK'
    BY <1>3, ClientHead DEF RecvPong, PeerOK
  <2> QED BY <1>3, <2>1, <2>2 DEF RecvPong
<1>4. CASE RecvClose
  <2>1. TaskOK'
    BY <1>4, EndSelectTyped DEF RecvClose
  <2>2. PeerOK'
    BY <1>4, ClientHead DEF RecvClose, PeerOK
  <2>3. OutboundOK'
    BY <1>4 DEF RecvClose, OutboundOK
  <2> QED BY <1>4, <2>1, <2>2, <2>3 DEF RecvClose
<1>5. CASE RecvEnd
  <2>1. TaskOK'
    BY <1>5, EndSelectTyped DEF RecvEnd
  <2> QED BY <1>5, <2>1 DEF RecvEnd
<1>6. CASE CountText
  <2>1. TaskOK'
    BY <1>6, <1>f, ReadTyped DEF CountText
  <2>2. prompts' \in Nat /\ messages' \in Nat
    BY <1>6 DEF CountText
  <2> QED BY <1>6, <2>1, <2>2 DEF CountText
<1>7. CASE OpenCli
  <2>1. TaskOK'
    BY <1>7, <1>f, ReadTyped DEF OpenCli
  <2>2. CopilotOK'
    BY <1>7 DEF OpenCli, CopilotOK
  <2>3. reader' = [at |-> "read", line |-> reader.line]
    BY <1>7 DEF OpenCli
  <2> QED BY <1>7, <2>1, <2>2, <2>3 DEF OpenCli
<1>8. CASE OpenFails
  <2>1. TaskOK'
    BY <1>8, <1>c, ReadTyped DEF OpenFails
  <2>2. CopilotOK'
    BY <1>8 DEF OpenFails, CopilotOK
  <2> QED BY <1>8, <2>1, <2>2 DEF OpenFails
<1>9. CASE SendError
  <2>1. TaskOK'
    BY <1>9, EndSelectTyped DEF SendError
  <2>2. rd.frame \in OutFrames
    BY <1>9, <1>f, FrameFacts DEF SendError, Reading, FramesMatch, OutFrames
  <2>3. OutboundOK'
    BY <1>9, <2>2, SendTyped DEF SendError
  <2> QED BY <1>9, <2>1, <2>3 DEF SendError
<1>10. CASE SendPong
  <2>1. TaskOK'
    BY <1>10, <1>c, ReadTyped DEF SendPong, ReadNext
  <2>2. rd.frame \in OutFrames
    BY <1>10, <1>f, FrameFacts DEF SendPong, Reading, FramesMatch, OutFrames
  <2>3. OutboundOK'
    BY <1>10, <2>2, SendTyped DEF SendPong
  <2> QED BY <1>10, <2>1, <2>3 DEF SendPong
<1>11. CASE WriteInvalid
  <2>1. TaskOK'
    BY <1>11, <1>c, ReadTyped, EndSelectTyped DEF WriteInvalid, ReadNext
  <2> QED BY <1>11, <2>1 DEF WriteInvalid
<1>12. CASE WriteLine
  <2>1. TaskOK'
    BY <1>12, <1>c, ReadTyped DEF WriteLine, ReadNext
  <2>2. rd.frame \in Frame(TextKinds)
    BY <1>12, <1>f, FrameFacts DEF WriteLine, Reading, FramesMatch, TextKinds
  <2>3. CopilotOK'
    BY <1>12, <2>2 DEF WriteLine, CopilotOK
  <2> QED BY <1>12, <2>1, <2>3 DEF WriteLine
<1>13. CASE WriteFails
  <2>1. TaskOK'
    BY <1>13, <1>c, ReadTyped, EndSelectTyped DEF WriteFails, ReadNext
  <2> QED BY <1>13, <2>1 DEF WriteFails
<1> QED
  BY <1>1, <1>2, <1>3, <1>4, <1>5, <1>6, <1>7, <1>8, <1>9, <1>10, <1>11, <1>12, <1>13 DEF ReadBranch

LEMMA OtherBranchesTyped ==
    ASSUME TypeOK, PingBranch \/ ShutdownSeen \/ Finish
    PROVE  TypeOK'
<1> USE TypesUnchanged DEF TypeOK
<1>1. CASE PingTick
  <2>1. TaskOK' /\ TimerOK'
    BY <1>1 DEF PingTick, TaskOK, TimerOK
  <2> QED BY <1>1, <2>1 DEF PingTick
<1>2. CASE SendPing
  <2>1. TaskOK'
    BY <1>2, EndSelectTyped DEF SendPing, TaskOK
  <2>2. OutboundOK'
    BY <1>2, SendTyped, OutCtl DEF SendPing
  <2> QED BY <1>2, <2>1, <2>2 DEF SendPing
<1>3. CASE SendPongTimeout
  <2>1. TaskOK'
    BY <1>3, EndSelectTyped DEF SendPongTimeout
  <2>2. OutboundOK'
    BY <1>3, SendTyped, OutCtl DEF SendPongTimeout
  <2> QED BY <1>3, <2>1, <2>2 DEF SendPongTimeout
<1>4. CASE ShutdownSeen
  <2>1. TaskOK'
    BY <1>4, EndSelectTyped DEF ShutdownSeen
  <2> QED BY <1>4, <2>1 DEF ShutdownSeen
<1>5. CASE SendIdleClose
  <2>1. TaskOK'
    BY <1>5 DEF SendIdleClose, TaskOK
  <2>2. OutboundOK'
    BY <1>5, SendTyped, OutCtl DEF SendIdleClose
  <2> QED BY <1>5, <2>1, <2>2 DEF SendIdleClose
<1>6. CASE IdleSleepEnds
  <2>1. TaskOK'
    BY <1>6 DEF IdleSleepEnds, TaskOK
  <2> QED BY <1>6, <2>1 DEF IdleSleepEnds
<1>7. CASE Return
  <2>1. TaskOK'
    BY <1>7 DEF Return, TaskOK
  <2>2. CopilotOK'
    <3>1. <<>> \in Seq(Frame(TextKinds))
      OBVIOUS
    <3>2. stdin' = stdin \/ stdin' = <<>>
      BY <1>7 DEF Return
    <3>3. cli' = cli \/ cli' = "killed"
      BY <1>7 DEF Return
    <3> QED BY <1>7, <3>1, <3>2, <3>3 DEF Return, CopilotOK
  <2> QED BY <1>7, <2>1, <2>2 DEF Return
<1> QED BY <1>1, <1>2, <1>3, <1>4, <1>5, <1>6, <1>7 DEF PingBranch, Finish

LEMMA SinkTyped ==
    ASSUME TypeOK, Sink
    PROVE  TypeOK'
<1> USE TypesUnchanged DEF TypeOK
<1>c. Ctl("none") \in Frame({"none"})
  BY FrameFacts
<1>1. CASE SinkRecv
  <2>1. OutboundOK'
    BY <1>1, SinkRecvFacts DEF SinkRecv, OutboundOK
  <2> QED BY <1>1, <2>1 DEF SinkRecv
<1>2. CASE SinkSend
  <2>1. OutboundOK'
    BY <1>2, <1>c, SinkSendFacts DEF SinkSend, OutboundOK
  <2> QED BY <1>2, <2>1 DEF SinkSend
<1>3. CASE SinkFails
  <2>1. OutboundOK'
    BY <1>3, <1>c, CapacityAssumption DEF SinkFails, OutboundOK
  <2> QED BY <1>3, <2>1 DEF SinkFails
<1>4. CASE SinkLoses
  <2>1. OutboundOK'
    BY <1>4, <1>c DEF SinkLoses, OutboundOK
  <2> QED BY <1>4, <2>1 DEF SinkLoses
<1>5. CASE SinkEnds
  <2>1. sink' = [at |-> "ended", frame |-> sink.frame] /\ sink.frame \in Frame({"none"})
    BY <1>5 DEF SinkEnds, OutboundOK
  <2>2. OutboundOK'
    BY <1>5, <2>1 DEF SinkEnds, OutboundOK
  <2> QED BY <1>5, <2>2 DEF SinkEnds
<1> QED BY <1>1, <1>2, <1>3, <1>4, <1>5 DEF Sink

LEMMA ReaderTyped ==
    ASSUME TypeOK, FramesMatch, Reader
    PROVE  TypeOK'
<1> USE TypesUnchanged DEF TypeOK
<1>c. Ctl("none") \in Frame(LineKinds \cup {"none"})
  BY FrameFacts
<1>1. CASE ReadLine
  <2> DEFINE line == Head(stdout)
  <2>1. line \in Frame(LineKinds) /\ Tail(stdout) \in Seq(Frame(LineKinds))
    BY <1>1, HeadTail DEF ReadLine, CopilotOK
  <2>2. line \in Frame(LineKinds \cup {"none"})
    BY <2>1, FrameFacts
  <2>3. reader' \in {reader, [at |-> "ended", line |-> Ctl("none")], [at |-> "send", line |-> line]}
    BY <1>1 DEF ReadLine, ReaderStops
  <2>4. CopilotOK'
    BY <1>1, <2>1 DEF ReadLine, CopilotOK
  <2>5. prompts' \in Nat /\ messages' \in Nat
    BY <1>1 DEF ReadLine
  <2>6. UNCHANGED <<task, timer, session, outbound, peer>>
    BY <1>1 DEF ReadLine
  <2> HIDE DEF line
  <2> QED BY <1>c, <2>2, <2>3, <2>4, <2>5, <2>6
<1>2. CASE ReadEof
  BY <1>2, <1>c DEF ReadEof, ReaderStops
<1>3. CASE SendLine
  <2>1. reader.line \in OutFrames
    BY <1>3, FrameFacts DEF SendLine, FramesMatch, OutFrames
  <2>2. OutboundOK'
    BY <1>3, <2>1, SendTyped DEF SendLine
  <2>3. reader' \in {[at |-> "ended", line |-> Ctl("none")], [at |-> "read", line |-> Ctl("none")]}
    BY <1>3 DEF SendLine, ReaderStops
  <2> QED BY <1>3, <1>c, <2>2, <2>3 DEF SendLine
<1> QED BY <1>1, <1>2, <1>3 DEF Reader

LEMMA EnvironmentTyped ==
    ASSUME TypeOK, Environment
    PROVE  TypeOK'
<1> USE TypesUnchanged DEF TypeOK
<1>1. ASSUME NEW kind \in ClientFrames, Asks(kind) PROVE TypeOK'
  <2> DEFINE frame == [kind |-> kind, n |-> Len(asked) + 1]
  <2>1. Len(asked) + 1 \in Nat /\ kind \in TextKinds \cup {"ping", "close"}
    BY KindsAssumption DEF PeerOK
  <2>2. /\ frame \in Frame(TextKinds \cup {"ping", "close"})
        /\ frame \in Frame(TextKinds \cup {"ping", "pong", "close"})
    BY <2>1 DEF Frame
  <2>3. asked' = Append(asked, frame) /\ wsIn' = Append(wsIn, frame) /\ client' = client
    BY <1>1 DEF Asks
  <2> HIDE DEF frame
  <2>4. PeerOK'
    BY <2>2, <2>3 DEF PeerOK
  <2> QED BY <1>1, <2>4 DEF Asks
<1>2. ASSUME NEW kind \in CliLines, Says(kind) PROVE TypeOK'
  <2> DEFINE line == [kind |-> kind, n |-> Len(said) + 1]
  <2>1. Len(said) + 1 \in Nat /\ kind \in LineKinds
    BY KindsAssumption DEF CopilotOK
  <2>2. line \in Frame(LineKinds)
    BY <2>1 DEF Frame
  <2>3. said' = Append(said, line) /\ stdout' = Append(stdout, line) /\ UNCHANGED <<cli, writer, stdin, toCli>>
    BY <1>2 DEF Says
  <2> HIDE DEF line
  <2>4. CopilotOK'
    BY <2>2, <2>3 DEF CopilotOK
  <2> QED BY <1>2, <2>4 DEF Says
<1>3. CASE ClientReads
  <2>1. Ctl("pong") \in Frame(TextKinds \cup {"ping", "pong", "close"})
    BY FrameFacts
  <2>2. PeerOK'
    BY <1>3, <2>1 DEF ClientReads, PeerOK
  <2>3. /\ sock \in Seq(OutFrames) /\ Tail(sock) \in Seq(OutFrames) /\ Len(sock) \in Nat
        /\ Len(sock) <= SockCap /\ Len(Tail(sock)) = Len(sock) - 1
    BY <1>3, HeadTail DEF ClientReads, OutboundOK
  <2>4. OutboundOK'
    BY <1>3, <2>3, CapacityAssumption DEF ClientReads, OutboundOK
  <2> QED BY <1>3, <2>2, <2>4 DEF ClientReads
<1>4. CASE ClientLeaves
  <2>1. PeerOK'
    BY <1>4 DEF ClientLeaves, PeerOK
  <2> QED BY <1>4, <2>1 DEF ClientLeaves
<1>5. CASE CliReads \/ CliExits
  <2>1. CopilotOK'
    <3>1. <<>> \in Seq(Frame(TextKinds))
      OBVIOUS
    <3>2. stdin # <<>> => Tail(stdin) \in Seq(Frame(TextKinds))
      BY HeadTail DEF CopilotOK
    <3> QED BY <1>5, <3>1, <3>2 DEF CliReads, CliExits, CopilotOK
  <2> QED BY <1>5, <2>1 DEF CliReads, CliExits
<1>6. CASE SessionTells
  BY <1>6 DEF SessionTells
<1>7. CASE Tick
  <2>1. TimerOK'
    BY <1>7 DEF Tick, TimerOK, Holdup
  <2> QED BY <1>7, <2>1 DEF Tick
<1> QED BY <1>1, <1>2, <1>3, <1>4, <1>5, <1>6, <1>7 DEF Environment

LEMMA TypeStep ==
    ASSUME TypeOK, FramesMatch, [Next]_vars
    PROVE  TypeOK'
<1>1. CASE UNCHANGED vars
  BY <1>1, TypesUnchanged DEF vars, TypeOK
<1>2. CASE Next
  BY <1>2, ReadBranchTyped, OtherBranchesTyped, SinkTyped, ReaderTyped, EnvironmentTyped DEF Next
<1> QED BY <1>1, <1>2

(* Every step keeps what the tasks hold, and how far the CLI is opened. *)
LEMMA FramesStep ==
    ASSUME Typing, [Next]_vars
    PROVE  FramesMatch' /\ CliState'
<1> DEFINE Kept == UNCHANGED <<main, rd, reader, cli, writer>>
<1> USE CtlKind
        DEF Typing, FramesMatch, CliState, Reading, InSelect, Read, ReadNext, NotReading, EndSelect,
            task, copilot
<1>1. CASE Kept
  BY <1>1
<1>2. CASE RecvText
  <2>1. Head(wsIn).kind \in {"prompt", "request", "bad", "blank"}
    BY <1>2 DEF RecvText, TextKinds
  <2>2. CASE Head(wsIn).kind = "blank"
    BY <1>2, <2>2 DEF RecvText
  <2>3. CASE Head(wsIn).kind # "blank"
    <3>1. rd' = [at |-> "count", frame |-> Head(wsIn)]
      BY <1>2, <2>3 DEF RecvText
    <3>2. rd'.at = "count" /\ rd'.frame.kind \in {"prompt", "request", "bad"}
      BY <2>1, <2>3, <3>1
    <3> QED BY <1>2, <3>2 DEF RecvText
  <2> QED BY <2>2, <2>3
<1>3. CASE RecvPing
  BY <1>3 DEF RecvPing
<1>4. CASE RecvClose \/ RecvEnd
  BY <1>4 DEF RecvClose, RecvEnd
<1>5. CASE CountText
  BY <1>5 DEF CountText
<1>6. CASE OpenCli
  BY <1>6 DEF OpenCli
<1>7. CASE OpenFails
  BY <1>7 DEF OpenFails
<1>8. CASE SendError \/ SendPong
  BY <1>8 DEF SendError, SendPong
<1>9. CASE WriteInvalid \/ WriteLine
  BY <1>9 DEF WriteInvalid, WriteLine
<1>10. CASE WriteFails
  BY <1>10 DEF WriteFails
<1>11. CASE SendPing \/ SendPongTimeout
  BY <1>11 DEF SendPing, SendPongTimeout
<1>12. CASE ShutdownSeen
  BY <1>12 DEF ShutdownSeen
<1>13. CASE Finish
  BY <1>13 DEF Finish, SendIdleClose, IdleSleepEnds, Return
<1>14. CASE ReadLine
  <2>1. reader.at = "read" /\ UNCHANGED <<main, rd, cli, writer>>
    BY <1>14 DEF ReadLine
  <2>2. Head(stdout).kind \in {"blank", "bad", "garbled", "update", "reply"}
    BY <1>14, HeadTail, FrameFacts DEF ReadLine, TypeOK, CopilotOK, LineKinds
  <2>3. \/ reader' = reader
        \/ reader' = [at |-> "ended", line |-> Ctl("none")]
        \/ /\ reader' = [at |-> "send", line |-> Head(stdout)]
           /\ Head(stdout).kind \in {"update", "reply"}
    BY <1>14, <2>2 DEF ReadLine, ReaderStops, Stops
  <2> QED BY <2>1, <2>3
<1>15. CASE ReadEof \/ SendLine
  BY <1>15 DEF ReadEof, SendLine, ReaderStops
<1>16. CASE CliExits
  BY <1>16 DEF CliExits
<1>17. CASE Sink
  BY <1>1, <1>17 DEF Sink, SinkRecv, SinkSend, SinkFails, SinkLoses, SinkEnds
<1>18. CASE RecvPong \/ PingTick \/ ClientReads \/ ClientLeaves \/ CliReads \/ SessionTells \/ Tick
  BY <1>1, <1>18 DEF RecvPong, PingTick, ClientReads, ClientLeaves, CliReads, SessionTells, Tick
<1>19. CASE \/ \E kind \in ClientFrames : Asks(kind)
            \/ \E kind \in CliLines : Says(kind)
  BY <1>1, <1>19 DEF Asks, Says
<1>20. CASE UNCHANGED vars
  BY <1>1, <1>20 DEF vars
<1> HIDE DEF Kept, FramesMatch, CliState
<1> QED
  BY <1>2, <1>3, <1>4, <1>5, <1>6, <1>7, <1>8, <1>9, <1>10, <1>11, <1>12, <1>13, <1>14, <1>15,
     <1>16, <1>17, <1>18, <1>19, <1>20
  DEF Next, ReadBranch, PingBranch, Reader, Environment

LEMMA TypingStep ==
    ASSUME Typing, [Next]_vars
    PROVE  Typing'
  BY TypeStep, FramesStep DEF Typing

LEMMA TypingInit == Init => Typing
<1> SUFFICES ASSUME Init PROVE Typing
  OBVIOUS
<1>1. /\ Ctl("none") \in Frame(TextKinds \cup {"none", "error", "pong"})
      /\ Ctl("none") \in Frame({"none"}) /\ Ctl("none") \in Frame(LineKinds \cup {"none"})
  BY FrameFacts
<1>2. \A K : <<>> \in Seq(Frame(K))
  OBVIOUS
<1>3. TaskOK /\ TimerOK
  BY <1>1 DEF Init, TaskOK, TimerOK, NotReading
<1>4. OutboundOK
  <2>1. chan = <<>> /\ sock = <<>> /\ toClient = <<>> /\ wsClosed = FALSE
    BY DEF Init
  <2>2. sink \in [at : {"recv", "ended", "failed"}, frame : Frame({"none"})]
    BY <1>1 DEF Init
  <2>3. Len(chan) <= Capacity /\ Len(sock) <= SockCap
    BY <2>1, CapacityAssumption
  <2> QED BY <1>2, <2>1, <2>2, <2>3 DEF OutboundOK, OutFrames
<1>5. PeerOK /\ CopilotOK
  BY <1>2 DEF Init, PeerOK, CopilotOK
<1>6. TypeOK
  BY <1>1, <1>3, <1>4, <1>5 DEF Init, TypeOK
<1>7. FramesMatch /\ CliState
  BY CtlKind DEF Init, FramesMatch, CliState, NotReading, InSelect
<1> QED BY <1>6, <1>7 DEF Typing
-------------------------------------------------------------------------------
(* The other parts of the invariant, each kept by every step.               *)

LEMMA PhasesStep ==
    ASSUME Typing, Phases, [Next]_vars
    PROVE  Phases'
<1> DEFINE Kept == UNCHANGED <<main, why, sink, mode, cli>>
<1> USE DEF Typing, Phases, InSelect, Reading, EndSelect, Read, ReadNext,
            ChannelClosed, Send, Stdio, task, session, outbound, copilot
<1>1. CASE Kept
  BY <1>1
<1>2. CASE RecvClose \/ RecvEnd \/ SendError \/ WriteInvalid \/ WriteFails
  BY <1>2 DEF RecvClose, RecvEnd, SendError, WriteInvalid, WriteFails
<1>3. CASE OpenCli \/ OpenFails
  BY <1>3 DEF OpenCli, OpenFails
<1>4. CASE SendPing \/ SendPongTimeout \/ ShutdownSeen
  BY <1>4 DEF SendPing, SendPongTimeout, ShutdownSeen
<1>5. CASE SendIdleClose \/ IdleSleepEnds
  BY <1>5 DEF SendIdleClose, IdleSleepEnds
<1>6. CASE Return
  BY <1>6 DEF Return
<1>7. CASE Sink
  BY <1>7 DEF Sink, SinkRecv, SinkSend, SinkFails, SinkLoses, SinkEnds, TypeOK, OutboundOK
<1>8. CASE CliExits
  BY <1>8 DEF CliExits
<1>9. CASE Next /\ ~Sink /\ ~OpenCli /\ ~OpenFails /\ ~CliExits /\ ~PingBranch /\ ~ShutdownSeen /\ ~Finish
           /\ ~RecvClose /\ ~RecvEnd /\ ~SendError /\ ~WriteInvalid /\ ~WriteFails
  <2>1. CASE RecvText \/ RecvPing \/ RecvPong \/ CountText \/ SendPong \/ WriteLine
    BY <1>1, <2>1 DEF RecvText, RecvPing, RecvPong, CountText, SendPong, WriteLine
  <2>2. CASE Reader
    BY <1>1, <2>2 DEF Reader, ReadLine, ReadEof, SendLine
  <2>3. CASE Environment /\ ~CliExits
    BY <1>1, <2>3 DEF Environment, Asks, Says, ClientReads, ClientLeaves, CliReads, SessionTells, Tick
  <2> QED BY <1>9, <2>1, <2>2, <2>3 DEF Next, ReadBranch
<1>10. CASE PingTick \/ UNCHANGED vars
  BY <1>1, <1>10 DEF PingTick, vars
<1> HIDE DEF Kept, Phases
<1> QED
  BY <1>2, <1>3, <1>4, <1>5, <1>6, <1>7, <1>8, <1>9, <1>10 DEF Next, ReadBranch, PingBranch, Finish

LEMMA ChannelStep ==
    ASSUME Typing, Phases, ChannelInOrder, [Next]_vars
    PROVE  ChannelInOrder'
<1> DEFINE Kept == UNCHANGED <<main, why, outbound, client, reader>>
<1> USE OutCtl, CtlKind
        DEF Typing, Phases, ChannelInOrder, InSelect, Reading, EndSelect, Read, ReadNext,
            ChannelClosed, SendersAlive, task, session, outbound, peer, copilot
<1>1. CASE Kept
  BY <1>1
<1>2. CASE RecvClose \/ RecvEnd \/ WriteInvalid \/ WriteFails \/ ShutdownSeen
  BY <1>2 DEF RecvClose, RecvEnd, WriteInvalid, WriteFails, ShutdownSeen
<1>3. CASE OpenCli
  BY <1>3 DEF OpenCli, CliState
<1>4. CASE SendError \/ SendPong
  <2>1. rd.frame.kind = rd.at /\ rd.at \in {"error", "pong"}
    BY <1>4 DEF SendError, SendPong, FramesMatch
  <2>2. rd.frame \in OutFrames
    BY <1>4, <2>1, FrameFacts DEF TypeOK, TaskOK, OutFrames
  <2>3. Send(rd.frame)
    BY <1>4 DEF SendError, SendPong
  <2> QED BY <1>4, <2>1, <2>2, <2>3, SendFacts DEF SendError, SendPong
<1>5. CASE SendPing
  BY <1>5, SendFacts DEF SendPing
<1>6. CASE SendPongTimeout \/ SendIdleClose
  BY <1>6, SendFacts DEF SendPongTimeout, SendIdleClose
<1>7. CASE IdleSleepEnds \/ Return
  BY <1>7 DEF IdleSleepEnds, Return
<1>8. CASE SendLine
  <2>1. reader.line \in OutFrames /\ reader.line.kind \in {"update", "reply"} /\ Send(reader.line)
    BY <1>8, FrameFacts DEF SendLine, FramesMatch, TypeOK, OutFrames
  <2> QED BY <1>8, <2>1, SendFacts DEF SendLine, ReaderStops
<1>9. CASE ReadLine \/ ReadEof
  BY <1>9 DEF ReadLine, ReadEof, ReaderStops
<1>10. CASE SinkRecv
  BY <1>10, SinkRecvFacts DEF SinkRecv
<1>11. CASE SinkSend
  BY <1>11, SinkSendFacts DEF SinkSend
<1>12. CASE SinkFails \/ SinkLoses \/ SinkEnds
  BY <1>12, CarriesFacts DEF SinkFails, SinkLoses, SinkEnds, TypeOK, OutboundOK
<1>13. CASE ClientReads \/ ClientLeaves
  BY <1>13 DEF ClientReads, ClientLeaves
<1>14. CASE RecvText \/ RecvPing \/ RecvPong \/ CountText \/ OpenFails \/ WriteLine \/ PingTick
  BY <1>1, <1>14 DEF RecvText, RecvPing, RecvPong, CountText, OpenFails, WriteLine, PingTick
<1>15. CASE CliReads \/ CliExits \/ SessionTells \/ Tick \/ UNCHANGED vars
            \/ (\E kind \in ClientFrames : Asks(kind)) \/ \E kind \in CliLines : Says(kind)
  BY <1>1, <1>15 DEF CliReads, CliExits, SessionTells, Tick, Asks, Says, vars
<1> HIDE DEF Kept, ChannelInOrder
<1> QED
  BY <1>2, <1>3, <1>4, <1>5, <1>6, <1>7, <1>8, <1>9, <1>10, <1>11, <1>12, <1>13, <1>14, <1>15
  DEF Next, ReadBranch, PingBranch, Finish, Sink, Reader, Environment

LEMMA FarewellStep ==
    ASSUME Typing, Phases, ChannelInOrder, Farewell, [Next]_vars
    PROVE  Farewell'
<1> DEFINE Kept == UNCHANGED <<main, why, outbound, client>>
<1> USE OutCtl, CtlKind
        DEF Typing, Phases, Farewell, OnItsWay, InSelect, Reading, EndSelect, Read, ReadNext,
            task, session, outbound, peer, copilot
<1>1. CASE Kept
  BY <1>1
<1>2. CASE RecvClose \/ RecvEnd \/ WriteInvalid \/ WriteFails \/ ShutdownSeen
  BY <1>2 DEF RecvClose, RecvEnd, WriteInvalid, WriteFails, ShutdownSeen
<1>3. CASE SendError \/ SendPong
  <2>1. rd.frame.kind = rd.at /\ rd.at \in {"error", "pong"}
    BY <1>3 DEF SendError, SendPong, FramesMatch
  <2>2. rd.frame \in OutFrames /\ Send(rd.frame)
    BY <1>3, <2>1, FrameFacts DEF SendError, SendPong, TypeOK, TaskOK, OutFrames
  <2> QED BY <1>3, <2>1, <2>2, SendFacts DEF SendError, SendPong, ChannelInOrder, ChannelClosed, SendersAlive
<1>4. CASE SendPing \/ SendPongTimeout \/ SendIdleClose
  BY <1>4, SendFacts
  DEF SendPing, SendPongTimeout, SendIdleClose, ChannelInOrder, ChannelClosed, SendersAlive
<1>5. CASE IdleSleepEnds \/ Return
  BY <1>5 DEF IdleSleepEnds, Return
<1>6. CASE SendLine
  <2>1. reader.line \in OutFrames /\ Send(reader.line)
    BY <1>6, FrameFacts DEF SendLine, FramesMatch, TypeOK, OutFrames
  <2> QED BY <1>6, <2>1, SendFacts DEF SendLine
<1>7. CASE SinkRecv
  BY <1>7, SinkRecvFacts DEF SinkRecv
<1>8. CASE SinkSend
  BY <1>8, SinkSendFacts DEF SinkSend
<1>9. CASE SinkFails
  BY <1>9 DEF SinkFails, ChannelInOrder
<1>10. CASE SinkLoses \/ SinkEnds
  BY <1>10 DEF SinkLoses, SinkEnds, TypeOK, OutboundOK
<1>11. CASE ClientReads \/ ClientLeaves
  BY <1>11 DEF ClientReads, ClientLeaves
<1>12. CASE RecvText \/ RecvPing \/ RecvPong \/ CountText \/ OpenFails \/ WriteLine \/ PingTick
            \/ OpenCli \/ ReadLine \/ ReadEof
  BY <1>1, <1>12
  DEF RecvText, RecvPing, RecvPong, CountText, OpenFails, WriteLine, PingTick, OpenCli, ReadLine, ReadEof
<1>13. CASE CliReads \/ CliExits \/ SessionTells \/ Tick \/ UNCHANGED vars
            \/ (\E kind \in ClientFrames : Asks(kind)) \/ \E kind \in CliLines : Says(kind)
  BY <1>1, <1>13 DEF CliReads, CliExits, SessionTells, Tick, Asks, Says, vars
<1> HIDE DEF Kept, Farewell
<1> QED
  BY <1>2, <1>3, <1>4, <1>5, <1>6, <1>7, <1>8, <1>9, <1>10, <1>11, <1>12, <1>13
  DEF Next, ReadBranch, PingBranch, Finish, Sink, Reader, Environment

LEMMA KeepaliveStep ==
    ASSUME Typing, Phases, ChannelInOrder, Keepalive, [Next]_vars
    PROVE  Keepalive'
<1> DEFINE Kept == UNCHANGED <<main, why, ping, timer, client, wsIn, outbound>>
<1> USE OutCtl, CtlKind
        DEF Typing, Phases, Keepalive, ResponsiveNeverDropped, PingOnItsWay, InSelect, Reading,
            EndSelect, Read, ReadNext, task, timer, session, outbound, peer, copilot
<1>1. CASE Kept
  BY <1>1
<1>2. CASE RecvText \/ RecvPing \/ RecvClose
  <2>1. /\ wsIn \in Seq(Frame(TextKinds \cup {"ping", "pong", "close"})) /\ wsIn # <<>>
        /\ Head(wsIn).kind # "pong" /\ wsIn' = Tail(wsIn)
    BY <1>2 DEF RecvText, RecvPing, RecvClose, TextKinds, TypeOK, PeerOK
  <2>2. Carries(wsIn, "pong") <=> Carries(wsIn', "pong")
    BY <2>1, CarriesFacts
  <2> QED BY <1>2, <2>2 DEF RecvText, RecvPing, RecvClose
<1>3. CASE RecvPong
  BY <1>3, BoundsAssumption DEF RecvPong
<1>4. CASE RecvEnd \/ WriteInvalid \/ WriteFails \/ ShutdownSeen
  BY <1>4 DEF RecvEnd, WriteInvalid, WriteFails, ShutdownSeen
<1>5. CASE SendError \/ SendPong
  <2>1. rd.frame.kind = rd.at /\ rd.at \in {"error", "pong"}
    BY <1>5 DEF SendError, SendPong, FramesMatch
  <2>2. rd.frame \in OutFrames /\ Send(rd.frame)
    BY <1>5, <2>1, FrameFacts DEF SendError, SendPong, TypeOK, TaskOK, OutFrames
  <2>3. UNCHANGED <<sink, sock>> /\ (Carries(chan, "ping") => Carries(chan', "ping"))
    BY <2>2, SendFacts
  <2> QED BY <1>5, <2>3 DEF SendError, SendPong
<1>6. CASE PingTick
  BY <1>6 DEF PingTick, TypeOK, TimerOK
<1>7. CASE SendPing
  <2>1. UNCHANGED <<sink, sock>> /\ (~ChannelClosed => Carries(chan', "ping"))
    BY <1>7, SendFacts DEF SendPing
  <2> QED BY <1>7, <2>1 DEF SendPing
<1>8. CASE SendPongTimeout
  BY <1>8 DEF SendPongTimeout, TypeOK, PeerOK
<1>9. CASE SendIdleClose \/ IdleSleepEnds \/ Return
  BY <1>9 DEF SendIdleClose, IdleSleepEnds, Return
<1>10. CASE SendLine
  <2>1. reader.line \in OutFrames /\ Send(reader.line)
    BY <1>10, FrameFacts DEF SendLine, FramesMatch, TypeOK, OutFrames
  <2>2. UNCHANGED <<sink, sock>> /\ (Carries(chan, "ping") => Carries(chan', "ping"))
    BY <2>1, SendFacts
  <2> QED BY <1>10, <2>2 DEF SendLine
<1>11. CASE SinkRecv
  BY <1>11, SinkRecvFacts DEF SinkRecv
<1>12. CASE SinkSend
  BY <1>12, SinkSendFacts DEF SinkSend
<1>13. CASE SinkFails \/ SinkLoses \/ SinkEnds
  BY <1>13 DEF SinkFails, SinkLoses, SinkEnds, ChannelInOrder, TypeOK, OutboundOK
<1>14. CASE ClientReads
  <2> DEFINE FromClient == Frame(TextKinds \cup {"ping", "pong", "close"})
             pong == Ctl("pong")
  <2>1. sock \in Seq(OutFrames) /\ sock # <<>> /\ sock' = Tail(sock)
    BY <1>14 DEF ClientReads, TypeOK, OutboundOK
  <2>2. /\ wsIn \in Seq(FromClient) /\ pong \in FromClient /\ pong.kind = "pong"
        /\ wsIn' = IF Head(sock).kind = "ping" THEN Append(wsIn, pong) ELSE wsIn
    BY <1>14, FrameFacts DEF ClientReads, TypeOK, PeerOK
  <2> HIDE DEF FromClient, pong
  <2>3. Carries(sock, "ping") <=> Head(sock).kind = "ping" \/ Carries(sock', "ping")
    BY <2>1, CarriesFacts
  <2>4. Carries(Append(wsIn, pong), "pong")
    BY <2>2, CarriesFacts
  <2>5. Carries(wsIn, "pong") \/ Head(sock).kind = "ping" => Carries(wsIn', "pong")
    BY <2>2, <2>4
  <2> QED BY <1>14, <2>3, <2>5 DEF ClientReads
<1>15. CASE ClientLeaves
  BY <1>15 DEF ClientLeaves
<1>16. ASSUME NEW kind \in ClientFrames, Asks(kind)
       PROVE  Keepalive'
  <2> DEFINE frame == [kind |-> kind, n |-> Len(asked) + 1]
  <2>1. /\ wsIn \in Seq(Frame(TextKinds \cup {"ping", "pong", "close"}))
        /\ frame \in Frame(TextKinds \cup {"ping", "pong", "close"})
        /\ wsIn' = Append(wsIn, frame)
    BY <1>16, KindsAssumption DEF Asks, TypeOK, PeerOK, Frame
  <2> HIDE DEF frame
  <2>2. Carries(wsIn, "pong") => Carries(wsIn', "pong")
    BY <2>1, CarriesFacts
  <2> QED BY <1>16, <2>2 DEF Asks
<1>17. CASE Tick
  <2>1. Carries(sock, "ping") => sock # <<>>
    BY CarriesFacts
  <2>2. Carries(chan, "ping") => chan # <<>>
    BY CarriesFacts
  <2>3. Carries(wsIn, "pong") => wsIn # <<>>
    BY CarriesFacts
  <2>4. sink.frame.kind = "ping" => sink.at = "send"
    BY FrameFacts DEF TypeOK, OutboundOK
  <2>5. InSelect /\ client = "open" /\ age' >= PongTicks /\ PongTicks >= 2 => Holdup # "none"
    BY <1>17, <2>1, <2>2, <2>3, <2>4, BoundsAssumption DEF Tick, Holdup, Settled, TypeOK, TimerOK
  <2>6. due' > 0
    BY <1>17 DEF Tick, TypeOK, TimerOK
  <2> QED BY <1>17, <2>5, <2>6, BoundsAssumption DEF Tick, TypeOK, TimerOK
<1>18. CASE CountText \/ OpenFails \/ WriteLine \/ OpenCli \/ ReadLine \/ ReadEof
  BY <1>1, <1>18 DEF CountText, OpenFails, WriteLine, OpenCli, ReadLine, ReadEof
<1>19. CASE CliReads \/ CliExits \/ SessionTells \/ UNCHANGED vars
            \/ \E kind \in CliLines : Says(kind)
  BY <1>1, <1>19 DEF CliReads, CliExits, SessionTells, Says, vars
<1> HIDE DEF Kept, Keepalive
<1> QED
  BY <1>2, <1>3, <1>4, <1>5, <1>6, <1>7, <1>8, <1>9, <1>10, <1>11, <1>12, <1>13, <1>14, <1>15,
     <1>16, <1>17, <1>18, <1>19
  DEF Next, ReadBranch, PingBranch, Finish, Sink, Reader, Environment

LEMMA CountsStep ==
    ASSUME Typing, CountsAhead, [Next]_vars
    PROVE  CountsAhead'
<1> DEFINE Kept == UNCHANGED <<rd, toCli, outbound, reader, counts>>
<1> USE OutCtl, CtlKind
        DEF Typing, CountsAhead, Reading, InSelect, EndSelect, NotReading, Read, ReadNext,
            task, session, outbound, peer, copilot, counts
<1>1. /\ prompts \in Nat /\ messages \in Nat /\ Number(toCli, "prompt") \in Nat
      /\ Updates(toClient) \in Nat /\ Updates(chan) \in Nat
  BY CountFacts, NumberFacts DEF TypeOK, CopilotOK, OutboundOK
<1>2. \A f : Count(f) \in {0, 1}
  BY DEF Count
<1>3. CASE Kept
  BY <1>3
<1>4. CASE RecvText \/ RecvPing \/ OpenFails
  BY <1>4 DEF RecvText, RecvPing, OpenFails
<1>5. CASE RecvClose \/ RecvEnd \/ WriteInvalid \/ WriteFails \/ ShutdownSeen
  BY <1>5 DEF RecvClose, RecvEnd, WriteInvalid, WriteFails, ShutdownSeen
<1>6. CASE CountText
  BY <1>1, <1>6 DEF CountText
<1>7. CASE OpenCli
  BY <1>7 DEF OpenCli, TypeOK
<1>8. CASE SendError \/ SendPong
  <2>1. rd.frame.kind = rd.at /\ rd.at \in {"error", "pong"}
    BY <1>8 DEF SendError, SendPong, FramesMatch
  <2>2. rd.frame \in OutFrames /\ Send(rd.frame) /\ Count(rd.frame) = 0
    BY <1>8, <2>1, FrameFacts DEF SendError, SendPong, TypeOK, TaskOK, OutFrames, Count
  <2>3. /\ UNCHANGED <<sink, toClient>>
        /\ Updates(chan') \in Nat /\ Updates(chan') <= Updates(chan)
    BY <1>1, <2>2, SendFacts
  <2> QED BY <1>1, <1>2, <1>8, <2>3 DEF SendError, SendPong
<1>9. CASE SendPing \/ SendPongTimeout \/ SendIdleClose
  <2>1. PICK frame \in OutFrames : Send(frame) /\ Count(frame) = 0
    BY <1>9 DEF SendPing, SendPongTimeout, SendIdleClose, Count
  <2>2. /\ UNCHANGED <<sink, toClient>>
        /\ Updates(chan') \in Nat /\ Updates(chan') <= Updates(chan)
    BY <1>1, <2>1, SendFacts
  <2> QED BY <1>1, <1>2, <1>9, <2>2 DEF SendPing, SendPongTimeout, SendIdleClose
<1>10. CASE WriteLine
  <2>1. /\ rd.frame.kind \in {"prompt", "request"} /\ rd.frame \in Frame(TextKinds)
        /\ toCli \in Seq(Frame(TextKinds)) /\ toCli' = Append(toCli, rd.frame)
    BY <1>10, FrameFacts DEF WriteLine, FramesMatch, TypeOK, TaskOK, CopilotOK, TextKinds
  <2>2. Number(toCli', "prompt") = Number(toCli, "prompt") + IF rd.frame.kind = "prompt" THEN 1 ELSE 0
    BY <2>1, NumberFacts DEF One
  <2> QED BY <1>1, <1>10, <2>1, <2>2 DEF WriteLine
<1>11. CASE ReadLine
  <2>1. reader.line.kind = "none"
    BY <1>11 DEF ReadLine, FramesMatch
  <2>2. /\ reader'.line = Head(stdout) \/ reader'.line.kind = "none"
        /\ messages' = IF Head(stdout).kind = "update" THEN messages + 1 ELSE messages
    BY <1>11, <2>1 DEF ReadLine, ReaderStops
  <2>3. Count(reader'.line) <= messages' - messages
    BY <1>1, <2>2 DEF Count
  <2> QED BY <1>1, <1>2, <1>11, <2>1, <2>2, <2>3 DEF ReadLine, Count
<1>12. CASE ReadEof
  BY <1>1, <1>2, <1>12 DEF ReadEof, ReaderStops, Count
<1>13. CASE SendLine
  <2>1. reader.line \in OutFrames /\ Send(reader.line)
    BY <1>13, FrameFacts DEF SendLine, FramesMatch, TypeOK, OutFrames
  <2>2. /\ UNCHANGED <<sink, toClient>>
        /\ Updates(chan') \in Nat /\ Updates(chan') <= Updates(chan) + Count(reader.line)
    BY <2>1, SendFacts
  <2>3. Count(reader'.line) = 0
    BY <1>13 DEF SendLine, ReaderStops, Count
  <2> QED BY <1>1, <1>2, <1>13, <2>2, <2>3 DEF SendLine
<1>14. CASE SinkRecv
  <2>1. Count(sink.frame) = 0
    BY <1>14, SinkRecvFacts DEF Count
  <2>2. /\ Updates(chan) = Count(sink'.frame) + Updates(chan')
        /\ Updates(chan') \in Nat
    BY <1>14, SinkRecvFacts, CountFacts
  <2> QED BY <1>1, <1>2, <1>14, <2>1, <2>2 DEF SinkRecv
<1>15. CASE SinkSend
  <2>1. /\ Updates(toClient') = Updates(toClient) + Count(sink.frame)
        /\ sink'.frame = Ctl("none")
    BY <1>15, SinkSendFacts
  <2>2. Count(sink'.frame) = 0
    BY <2>1 DEF Count
  <2>3. UNCHANGED <<rd, toCli, prompts, messages, chan, reader>>
    BY <1>15 DEF SinkSend
  <2>4. messages' >= Updates(toClient') + Updates(chan') + Count(sink'.frame) + Count(reader'.line)
    BY <1>1, <1>2, <2>1, <2>2, <2>3
  <2> QED BY <2>3, <2>4
<1>16. CASE SinkFails \/ SinkLoses \/ SinkEnds
  <2>1. Updates(chan') \in Nat /\ Updates(chan') <= Updates(chan)
    BY <1>1, <1>16, CountFacts DEF SinkFails, SinkLoses, SinkEnds
  <2>2. Count(sink'.frame) <= Count(sink.frame)
    BY <1>2, <1>16 DEF SinkFails, SinkLoses, SinkEnds, Count, TypeOK, OutboundOK
  <2> QED BY <1>1, <1>2, <1>16, <2>1, <2>2 DEF SinkFails, SinkLoses, SinkEnds
<1>17. CASE RecvPong \/ PingTick \/ IdleSleepEnds \/ Return
  BY <1>3, <1>17 DEF RecvPong, PingTick, IdleSleepEnds, Return
<1>18. CASE ClientReads \/ ClientLeaves
  BY <1>18 DEF ClientReads, ClientLeaves
<1>19. CASE CliReads \/ CliExits \/ SessionTells \/ Tick \/ UNCHANGED vars
            \/ (\E kind \in ClientFrames : Asks(kind)) \/ \E kind \in CliLines : Says(kind)
  BY <1>3, <1>19 DEF CliReads, CliExits, SessionTells, Tick, Asks, Says, vars
<1> HIDE DEF Kept, CountsAhead
<1> QED
  BY <1>4, <1>5, <1>6, <1>7, <1>8, <1>9, <1>10, <1>11, <1>12, <1>13, <1>14, <1>15, <1>16,
     <1>17, <1>18, <1>19
  DEF Next, ReadBranch, PingBranch, Finish, Sink, Reader, Environment

LEMMA RelayInvInit == Init => IInv
<1> SUFFICES ASSUME Init PROVE IInv
  OBVIOUS
<1>1. Typing
  BY TypingInit
<1>2. Phases /\ Farewell
  BY DEF Init, Phases, Farewell, InSelect
<1>3. ChannelInOrder /\ Keepalive
  BY CarriesFacts, CtlKind, BoundsAssumption
  DEF Init, ChannelInOrder, ChannelClosed, Keepalive, ResponsiveNeverDropped
<1>4. CountsAhead
  <2>1. Updates(<<>>) = 0 /\ Number(<<>>, "prompt") = 0 /\ Count(Ctl("none")) = 0
    BY CountFacts, NumberFacts, CtlKind DEF Count
  <2> QED BY <2>1 DEF Init, CountsAhead, NotReading
<1> QED BY <1>1, <1>2, <1>3, <1>4 DEF IInv

LEMMA RelayInvStep ==
    ASSUME IInv, [Next]_vars
    PROVE  IInv'
  BY TypingStep, PhasesStep, ChannelStep, FarewellStep, KeepaliveStep, CountsStep DEF IInv

LEMMA RelayInv == Spec => []IInv
<1>1. IInv /\ [Next]_vars => IInv'
  BY RelayInvStep
<1> QED BY <1>1, RelayInvInit, PTL DEF Spec
-------------------------------------------------------------------------------
(* Every variable keeps its type: what a task holds is a frame it may hold, *)
(* the channel never exceeds its capacity.                                  *)
THEOREM RelayTypeCorrect == Spec => []TypeOK
<1>1. IInv => TypeOK
  BY DEF IInv, Typing
<1> QED BY <1>1, RelayInv, PTL

(* A client that stays has received the error or the Close that tells why it *)
(* lost its session before the relay returns.                               *)
THEOREM LastWordBeforeReturn == Spec => []LastWordDelivered
<1>1. ASSUME IInv PROVE LastWordDelivered
  <2> SUFFICES ASSUME main = "returned", client = "open", why \in {"error", "pong", "idle"}
               PROVE  Carries(toClient, IF why = "error" THEN "error" ELSE "close")
    BY DEF LastWordDelivered, Carries
  <2>1. ChannelClosed /\ chan = <<>>
    BY <1>1 DEF IInv, Phases, ChannelInOrder
  <2>2. sink.frame.kind = "none"
    BY <1>1, <2>1, FrameFacts DEF IInv, Typing, TypeOK, OutboundOK, ChannelClosed
  <2> QED BY <1>1, <2>1, <2>2, CarriesFacts DEF IInv, Farewell, OnItsWay
<1> QED BY <1>1, RelayInv, PTL

(* A client is dropped for a pong timeout only when something held its       *)
(* answer up at the moment it became overdue.                               *)
THEOREM OnlySilentClientsDropped == Spec => []ResponsiveNeverDropped
<1>1. IInv => ResponsiveNeverDropped
  BY DEF IInv, Keepalive
<1> QED BY <1>1, RelayInv, PTL

(* prompt_count and message_count never fall behind what was delivered.     *)
THEOREM CountersNeverBehind == Spec => []CountsCoverDelivery
<1>1. ASSUME IInv PROVE CountsCoverDelivery
  <2>1. messages >= Updates(toClient) + Updates(chan) + Count(sink.frame) + Count(reader.line)
    BY <1>1 DEF IInv, CountsAhead
  <2>2. /\ Updates(toClient) \in Nat /\ Updates(chan) \in Nat /\ messages \in Nat
        /\ Count(sink.frame) \in Nat /\ Count(reader.line) \in Nat
    BY <1>1, CountFacts DEF IInv, Typing, TypeOK, OutboundOK, Count
  <2> QED BY <1>1, <2>1, <2>2 DEF IInv, CountsAhead, CountsCoverDelivery, Updates, Number
<1> QED BY <1>1, RelayInv, PTL
===============================================================================
