------------------------------ MODULE ScbrProofs ------------------------------
(***************************************************************************)
(* The two threads of the client library, for any number of clients and    *)
(* messages and any capacity of the sockets: the frames of the messages    *)
(* stay in step with the polling thread that forwards them one by one, and *)
(* terminate ends cleanly.                                                 *)
(***************************************************************************)
EXTENDS Scbr, NetworkProofs

Msg == Sub \cup Pub
Frame == {Delimiter, Die} \cup Msg

-----------------------------------------------------------------------------
(* Sequences of frames.                                                    *)

\* In a sequence of frames that may begin in the middle of a message, every
\* delimiter is followed by its body and every body preceded by its delimiter,
\* and nothing follows the order to stop.
InStep(q) ==
    \A i \in 1 .. Len(q) :
        /\ q[i] = Delimiter => i < Len(q) /\ q[i + 1] \in Msg
        /\ i > 1 /\ q[i] \in Msg => q[i - 1] = Delimiter
        /\ q[i] = Die => i = Len(q)

NoOrder(q) == \A i \in 1 .. Len(q) : q[i] # Die

Among(q, x) == \E i \in 1 .. Len(q) : q[i] = x

LEMMA PushedFrames ==
    ASSUME NEW q \in Seq(Frame), NEW m \in Msg
    PROVE  LET r == q \o <<Delimiter, m>> IN
           /\ r \in Seq(Frame) /\ Len(r) = Len(q) + 2 /\ Len(q) \in Nat
           /\ \A i \in 1 .. Len(q) : r[i] = q[i]
           /\ r[Len(q) + 1] = Delimiter /\ r[Len(q) + 2] = m
BY DEF Frame

\* The two frames of a message.
LEMMA MessageFrames ==
    ASSUME NEW m \in Msg
    PROVE  Append(<<Delimiter>>, m) = <<Delimiter, m>> /\ <<Delimiter, m>> \in Seq(Frame)
<1>1. Delimiter \in Frame /\ m \in Frame
  BY DEF Frame
<1>2. <<Delimiter, m>> \in Seq(Frame)
  BY <1>1
<1>3. Append(<<Delimiter>>, m) = <<Delimiter, m>>
  <2> DEFINE r == Append(<<Delimiter>>, m)
  <2>1. <<Delimiter>> \in Seq(Frame) /\ Len(<<Delimiter>>) = 1
    BY <1>1
  <2>2. r \in Seq(Frame) /\ Len(r) = 2 /\ r[1] = Delimiter /\ r[2] = m
    BY <1>1, <2>1
  <2>3. Len(<<Delimiter, m>>) = 2 /\ <<Delimiter, m>>[1] = Delimiter /\ <<Delimiter, m>>[2] = m
    OBVIOUS
  <2>4. \A i \in 1 .. 2 : i = 1 \/ i = 2
    OBVIOUS
  <2> HIDE DEF r
  <2>5. r = <<Delimiter, m>>
    BY <1>2, <2>2, <2>3, <2>4, SeqEqual
  <2> QED
    BY <2>5 DEF r
<1> QED
  BY <1>2, <1>3

LEMMA InStepPush ==
    ASSUME NEW q \in Seq(Frame), NEW m \in Msg, InStep(q), NoOrder(q)
    PROVE  InStep(q \o <<Delimiter, m>>) /\ NoOrder(q \o <<Delimiter, m>>)
<1> DEFINE r == q \o <<Delimiter, m>>
           n == Len(q)
<1>1. /\ Len(r) = n + 2 /\ n \in Nat
      /\ \A i \in 1 .. n : r[i] = q[i]
      /\ r[n + 1] = Delimiter /\ r[n + 2] = m
  BY PushedFrames
<1>2. /\ Delimiter # Die /\ m # Die /\ m # Delimiter /\ Delimiter \notin Msg
  BY FramesDistinct DEF Msg
<1>3. /\ \A i \in 1 .. n : /\ q[i] = Delimiter => i < n /\ q[i + 1] \in Msg
                           /\ i > 1 /\ q[i] \in Msg => q[i - 1] = Delimiter
                           /\ q[i] # Die
  BY DEF InStep, NoOrder
<1> HIDE DEF r, n
<1>4. ASSUME NEW i \in 1 .. Len(r)
      PROVE  /\ r[i] = Delimiter => i < Len(r) /\ r[i + 1] \in Msg
             /\ i > 1 /\ r[i] \in Msg => r[i - 1] = Delimiter
             /\ r[i] # Die
  <2>1. CASE i \in 1 .. n
    BY <1>1, <1>3, <2>1
  <2>2. CASE i = n + 1
    BY <1>1, <1>2, <2>2
  <2>3. CASE i = n + 2
    BY <1>1, <1>2, <2>3
  <2> QED
    BY <1>1, <2>1, <2>2, <2>3
<1>5. InStep(r) /\ NoOrder(r)
  BY <1>4 DEF InStep, NoOrder
<1> QED
  BY <1>5 DEF r

LEMMA InStepOrder ==
    ASSUME NEW q \in Seq(Frame), InStep(q), NoOrder(q)
    PROVE  /\ InStep(q \o <<Die>>) /\ q \o <<Die>> \in Seq(Frame)
           /\ Len(q \o <<Die>>) = Len(q) + 1 /\ Len(q) \in Nat
           /\ \A i \in 1 .. Len(q) : (q \o <<Die>>)[i] = q[i]
           /\ (q \o <<Die>>)[Len(q) + 1] = Die
<1> DEFINE r == q \o <<Die>>
           n == Len(q)
<1>1. /\ r \in Seq(Frame) /\ Len(r) = n + 1 /\ n \in Nat
      /\ \A i \in 1 .. n : r[i] = q[i]
      /\ r[n + 1] = Die
  BY DEF Frame
<1>2. Die # Delimiter /\ Die \notin Msg
  BY FramesDistinct DEF Msg
<1>3. /\ \A i \in 1 .. n : /\ q[i] = Delimiter => i < n /\ q[i + 1] \in Msg
                           /\ i > 1 /\ q[i] \in Msg => q[i - 1] = Delimiter
                           /\ q[i] # Die
  BY DEF InStep, NoOrder
<1> HIDE DEF r, n
<1>4. ASSUME NEW i \in 1 .. Len(r)
      PROVE  /\ r[i] = Delimiter => i < Len(r) /\ r[i + 1] \in Msg
             /\ i > 1 /\ r[i] \in Msg => r[i - 1] = Delimiter
             /\ r[i] = Die => i = Len(r)
  <2>1. CASE i \in 1 .. n
    BY <1>1, <1>3, <2>1
  <2>2. CASE i = n + 1
    BY <1>1, <1>2, <2>2
  <2> QED
    BY <1>1, <2>1, <2>2
<1>5. InStep(r)
  BY <1>4 DEF InStep
<1> QED
  BY <1>1, <1>5 DEF r, n

LEMMA InStepTail ==
    ASSUME NEW q \in Seq(Frame), q # <<>>, InStep(q)
    PROVE  /\ InStep(Tail(q)) /\ Tail(q) \in Seq(Frame)
           /\ Len(Tail(q)) = Len(q) - 1 /\ Len(q) \in Nat \ {0}
           /\ \A i \in 1 .. Len(Tail(q)) : Tail(q)[i] = q[i + 1]
           /\ Head(q) = q[1]
<1> DEFINE r == Tail(q)
           n == Len(q)
<1>1. /\ r \in Seq(Frame) /\ Len(r) = n - 1 /\ n \in Nat \ {0}
      /\ \A i \in 1 .. Len(r) : r[i] = q[i + 1]
      /\ Head(q) = q[1]
  OBVIOUS
<1>2. \A i \in 1 .. n : /\ q[i] = Delimiter => i < n /\ q[i + 1] \in Msg
                        /\ i > 1 /\ q[i] \in Msg => q[i - 1] = Delimiter
                        /\ q[i] = Die => i = n
  BY DEF InStep
<1> HIDE DEF r, n
<1>3. ASSUME NEW i \in 1 .. Len(r)
      PROVE  /\ r[i] = Delimiter => i < Len(r) /\ r[i + 1] \in Msg
             /\ i > 1 /\ r[i] \in Msg => r[i - 1] = Delimiter
             /\ r[i] = Die => i = Len(r)
  <2>1. i + 1 \in 1 .. n /\ r[i] = q[i + 1] /\ i \in Nat /\ (i + 1) - 1 = i
    BY <1>1
  <2>2. r[i] = Delimiter => i < Len(r) /\ r[i + 1] \in Msg
    <3> SUFFICES ASSUME r[i] = Delimiter
                 PROVE  i < Len(r) /\ r[i + 1] \in Msg
      OBVIOUS
    <3>1. i + 1 < n /\ q[(i + 1) + 1] \in Msg
      BY <1>2, <2>1
    <3>2. i + 1 \in 1 .. Len(r)
      BY <1>1, <2>1, <3>1
    <3> QED
      BY <1>1, <3>1, <3>2
  <2>3. i > 1 /\ r[i] \in Msg => r[i - 1] = Delimiter
    <3> SUFFICES ASSUME i > 1, r[i] \in Msg
                 PROVE  r[i - 1] = Delimiter
      OBVIOUS
    <3>1. q[i] = Delimiter
      BY <1>2, <2>1
    <3>2. i - 1 \in 1 .. Len(r) /\ (i - 1) + 1 = i
      BY <1>1, <2>1
    <3> QED
      BY <1>1, <3>1, <3>2
  <2>4. r[i] = Die => i = Len(r)
    BY <1>1, <1>2, <2>1
  <2> QED
    BY <2>2, <2>3, <2>4
<1>4. InStep(r)
  BY <1>3 DEF InStep
<1> QED
  BY <1>1, <1>4 DEF r, n

-----------------------------------------------------------------------------
(* The invariant.                                                          *)

UserPlaces == {"constructing", "opening", "idle", "sent", "registering", "joining",
               "terminated", "aborted"}
PollerPlaces == {"starting", "polling", "forwarding", "exited", "aborted"}

Typed ==
    /\ user \in [Client -> UserPlaces]
    /\ poller \in [Client -> PollerPlaces]
    /\ sent \in [Client -> Seq(Msg)]
    /\ pipe \in [Client -> Seq(Frame)]
    /\ held \in [Client -> Frame \cup {Nothing}]
    /\ parts \in [Client -> Seq({Delimiter})]
    /\ toRouter \in [Client -> Seq(Seq(Frame))]
    /\ DOMAIN called = Client

\* The polling thread has passed on the delimiter of a message, and not yet
\* taken its body from the pipe.
Expecting(c) == held[c] = Delimiter \/ (parts[c] # <<>> /\ held[c] = Nothing)

\* What is left in the pipe begins with the frame that the thread expects.
PipeFits(c) ==
    /\ InStep(pipe[c])
    /\ user[c] # "joining" => NoOrder(pipe[c])
    /\ Expecting(c) => pipe[c] # <<>>
    /\ pipe[c] # <<>> => (Expecting(c) <=> pipe[c][1] \in Msg)

\* The frame in hand goes with those sent before it.
HandFits(c) ==
    /\ poller[c] = "forwarding" <=> held[c] # Nothing
    /\ parts[c] \in {<<>>, <<Delimiter>>}
    /\ held[c] = Delimiter => parts[c] = <<>>
    /\ held[c] \in Msg => parts[c] = <<Delimiter>>
    /\ held[c] # Die

\* Nothing is on its way but what the user has sent.
OnlySent(c) ==
    /\ \A i \in 1 .. Len(pipe[c]) : pipe[c][i] \in Msg => WasSent(c, pipe[c][i])
    /\ held[c] \in Msg => WasSent(c, held[c])

\* When the thread has ended it has left nothing behind; terminate waits for it.
EndFits(c) ==
    /\ poller[c] = "exited" =>
          /\ user[c] \in {"joining", "terminated"}
          /\ pipe[c] = <<>> /\ held[c] = Nothing /\ parts[c] = <<>>
    /\ user[c] = "terminated" => poller[c] = "exited"

Framed(c) ==
    \A i \in 1 .. Len(toRouter[c]) :
        /\ Len(toRouter[c][i]) = 2
        /\ toRouter[c][i][1] = Delimiter
        /\ WasSent(c, toRouter[c][i][2])

Flow(c) == PipeFits(c) /\ HandFits(c) /\ OnlySent(c) /\ EndFits(c) /\ Framed(c)

Inv == Typed /\ \A c \in Client : Flow(c)

LEMMA InvInit == Init => Inv
<1> SUFFICES ASSUME Init
             PROVE  Inv
  OBVIOUS
<1>1. Typed
  BY DEF Init, MatcherInit, NetworkInit, Typed, UserPlaces, PollerPlaces
<1>2. ASSUME NEW c \in Client
      PROVE  Flow(c)
  <2>1. /\ user[c] = "constructing" /\ poller[c] = "starting"
        /\ pipe[c] = <<>> /\ held[c] = Nothing /\ parts[c] = <<>> /\ toRouter[c] = <<>>
    BY DEF Init, MatcherInit, NetworkInit
  <2>2. Nothing # Delimiter /\ Nothing \notin Msg /\ Nothing # Die
    BY FramesDistinct DEF Msg, Nothing, Die
  <2>3. Len(<<>>) = 0 /\ 1 .. 0 = {}
    OBVIOUS
  <2>4. PipeFits(c)
    BY <2>1, <2>2, <2>3 DEF PipeFits, Expecting, InStep, NoOrder
  <2>5. HandFits(c) /\ OnlySent(c) /\ EndFits(c) /\ Framed(c)
    BY <2>1, <2>2, <2>3 DEF HandFits, OnlySent, EndFits, Framed
  <2> QED
    BY <2>4, <2>5 DEF Flow
<1> QED
  BY <1>1, <1>2 DEF Inv

\* A client is not concerned by the steps that leave its own state alone.
LEMMA Elsewhere ==
    ASSUME NEW d, Flow(d), user'[d] = user[d], poller'[d] = poller[d], sent'[d] = sent[d],
           pipe'[d] = pipe[d], held'[d] = held[d], parts'[d] = parts[d],
           toRouter'[d] = toRouter[d]
    PROVE  Flow(d)'
BY DEF Flow, PipeFits, HandFits, OnlySent, EndFits, Framed, Expecting, InStep, NoOrder, WasSent

\* What was sent stays sent.
LEMMA SentStays ==
    ASSUME Typed, NEW c \in Client, NEW m \in Msg, sent' = [sent EXCEPT ![c] = Append(@, m)]
    PROVE  /\ sent' \in [Client -> Seq(Msg)]
           /\ Among(sent'[c], m)
           /\ \A x : Among(sent[c], x) => Among(sent'[c], x)
<1>1. sent[c] \in Seq(Msg) /\ sent'[c] = Append(sent[c], m)
  BY DEF Typed
<1>2. /\ Len(sent'[c]) = Len(sent[c]) + 1 /\ Len(sent[c]) \in Nat
      /\ sent'[c][Len(sent[c]) + 1] = m
      /\ \A i \in 1 .. Len(sent[c]) : sent'[c][i] = sent[c][i]
  BY <1>1
<1>3. sent' \in [Client -> Seq(Msg)]
  BY <1>1 DEF Typed
<1> QED
  BY <1>2, <1>3 DEF Among

-----------------------------------------------------------------------------
(* The user's thread.                                                      *)

\* A user's thread that is idle has not given the order to stop, and hands a
\* message over as its two frames.
LEMMA SendStep ==
    ASSUME Inv, NEW c \in Client, NEW m \in Msg, user[c] = "idle",
           Push(c, <<Delimiter, m>>),
           sent' = [sent EXCEPT ![c] = Append(@, m)],
           user' = user \/ user' = [user EXCEPT ![c] = "sent"],
           UNCHANGED <<pollerVars, toRouter>>
    PROVE  Inv'
<1> DEFINE q == pipe[c]
           r == q \o <<Delimiter, m>>
<1>1. Typed /\ Flow(c) /\ q \in Seq(Frame)
  BY DEF Inv, Typed
<1>2. pipe' = [pipe EXCEPT ![c] = r] /\ poller[c] \in {"polling", "forwarding"}
  BY DEF Push
<1>3. /\ r \in Seq(Frame) /\ Len(r) = Len(q) + 2 /\ Len(q) \in Nat
      /\ \A i \in 1 .. Len(q) : r[i] = q[i]
      /\ r[Len(q) + 1] = Delimiter /\ r[Len(q) + 2] = m
  BY <1>1, PushedFrames
<1>4. InStep(r) /\ NoOrder(r)
  BY <1>1, InStepPush DEF Flow, PipeFits
<1>5. pipe'[c] = r
  BY <1>1, <1>2 DEF Typed
<1>6. /\ user'[c] \in {"idle", "sent"} /\ user' \in [Client -> UserPlaces]
      /\ \A d \in Client \ {c} : user'[d] = user[d]
  BY <1>1 DEF Typed, UserPlaces
<1>7. /\ sent' \in [Client -> Seq(Msg)] /\ Among(sent'[c], m)
      /\ \A x : Among(sent[c], x) => Among(sent'[c], x)
  BY <1>1, SentStays
<1>8. Typed'
  BY <1>1, <1>2, <1>3, <1>6, <1>7 DEF Typed, pollerVars
<1> HIDE DEF q, r
<1>9. Flow(c)'
  <2>1. Delimiter \notin Msg
    BY FramesDistinct DEF Msg
  <2>2. PipeFits(c)'
    <3>1. r # <<>>
      BY <1>3
    <3>2. Expecting(c)' = Expecting(c)
      BY DEF Expecting, pollerVars
    <3>3. r[1] = IF q = <<>> THEN Delimiter ELSE q[1]
      BY <1>1, <1>3
    <3>4. (Expecting(c) => q # <<>>) /\ (q # <<>> => (Expecting(c) <=> q[1] \in Msg))
      BY <1>1 DEF Flow, PipeFits, q
    <3> QED
      BY <1>4, <1>5, <2>1, <3>1, <3>2, <3>3, <3>4 DEF PipeFits
  <2>3. HandFits(c)'
    BY <1>1 DEF Flow, HandFits, pollerVars
  <2>4. OnlySent(c)'
    <3>1. \A i \in 1 .. Len(q) : q[i] \in Msg => Among(sent[c], q[i])
      BY <1>1 DEF Flow, OnlySent, WasSent, Among, q
    <3>2. ASSUME NEW i \in 1 .. Len(r), r[i] \in Msg
          PROVE  Among(sent'[c], r[i])
      <4>1. i \in 1 .. Len(q) \/ i = Len(q) + 1 \/ i = Len(q) + 2
        BY <1>3
      <4> QED
        BY <1>3, <1>7, <2>1, <3>1, <3>2, <4>1
    <3>3. held'[c] \in Msg => Among(sent'[c], held'[c])
      BY <1>1, <1>7 DEF Flow, OnlySent, WasSent, Among, pollerVars
    <3> QED
      BY <1>5, <3>2, <3>3 DEF OnlySent, WasSent, Among
  <2>5. EndFits(c)'
    BY <1>2, <1>6 DEF EndFits, pollerVars
  <2>6. Framed(c)'
    BY <1>1, <1>7 DEF Flow, Framed, WasSent, Among
  <2> QED
    BY <2>2, <2>3, <2>4, <2>5, <2>6 DEF Flow
<1>10. ASSUME NEW d \in Client \ {c}
       PROVE  Flow(d)'
  BY <1>1, <1>2, <1>6, Elsewhere DEF Inv, Typed, pollerVars
<1> QED
  BY <1>8, <1>9, <1>10 DEF Inv

LEMMA TerminateStep ==
    ASSUME Inv, NEW c \in Client, Terminate(c)
    PROVE  Inv'
<1> DEFINE q == pipe[c]
           r == q \o <<Die>>
<1>1. Typed /\ Flow(c) /\ q \in Seq(Frame)
  BY DEF Inv, Typed
<1>2. /\ pipe' = [pipe EXCEPT ![c] = r] /\ poller[c] \in {"polling", "forwarding"}
      /\ user[c] = "idle" /\ user' = [user EXCEPT ![c] = "joining"]
  BY DEF Terminate, Push
<1>3. NoOrder(q) /\ InStep(q)
  BY <1>1, <1>2 DEF Flow, PipeFits
<1>4. /\ InStep(r) /\ r \in Seq(Frame)
      /\ Len(r) = Len(q) + 1 /\ Len(q) \in Nat
      /\ \A i \in 1 .. Len(q) : r[i] = q[i]
      /\ r[Len(q) + 1] = Die
  BY <1>1, <1>3, InStepOrder
<1>5. pipe'[c] = r /\ user'[c] = "joining"
  BY <1>1, <1>2 DEF Typed
<1>6. Typed'
  BY <1>1, <1>2, <1>4 DEF Typed, Terminate, pollerVars, network, UserPlaces
<1> HIDE DEF q, r
<1>7. Flow(c)'
  <2>1. Die \notin Msg
    BY FramesDistinct DEF Msg
  <2>2. PipeFits(c)'
    <3>1. r # <<>>
      BY <1>4
    <3>2. Expecting(c)' = Expecting(c)
      BY DEF Expecting, Terminate, pollerVars
    <3>3. r[1] = IF q = <<>> THEN Die ELSE q[1]
      BY <1>1, <1>4
    <3>4. (Expecting(c) => q # <<>>) /\ (q # <<>> => (Expecting(c) <=> q[1] \in Msg))
      BY <1>1 DEF Flow, PipeFits, q
    <3> QED
      BY <1>4, <1>5, <2>1, <3>1, <3>2, <3>3, <3>4 DEF PipeFits
  <2>3. HandFits(c)'
    BY <1>1 DEF Flow, HandFits, Terminate, pollerVars
  <2>4. OnlySent(c)'
    <3>1. \A i \in 1 .. Len(q) : q[i] \in Msg => Among(sent[c], q[i])
      BY <1>1 DEF Flow, OnlySent, WasSent, Among, q
    <3>2. ASSUME NEW i \in 1 .. Len(r), r[i] \in Msg
          PROVE  Among(sent[c], r[i])
      <4>1. i \in 1 .. Len(q) \/ i = Len(q) + 1
        BY <1>4
      <4> QED
        BY <1>4, <2>1, <3>1, <3>2, <4>1
    <3>3. sent' = sent /\ held' = held
      BY DEF Terminate, pollerVars
    <3> QED
      BY <1>1, <1>5, <3>2, <3>3 DEF Flow, OnlySent, WasSent, Among
  <2>5. EndFits(c)'
    BY <1>2, <1>5 DEF EndFits, Terminate, pollerVars
  <2>6. Framed(c)'
    BY <1>1 DEF Flow, Framed, WasSent, Terminate, network
  <2> QED
    BY <2>2, <2>3, <2>4, <2>5, <2>6 DEF Flow
<1>8. ASSUME NEW d \in Client \ {c}
      PROVE  Flow(d)'
  BY <1>1, <1>2, Elsewhere DEF Inv, Typed, Terminate, pollerVars, network
<1> QED
  BY <1>6, <1>7, <1>8 DEF Inv

\* The steps of a user's thread that neither send nor stop only move it on;
\* terminate returns only when the polling thread has ended.
LEMMA UserMoves ==
    ASSUME Inv, NEW c \in Client,
           ConstructContext(c) \/ Construct(c) \/ BeginRegister(c) \/ EndRegister(c) \/ Joined(c)
    PROVE  Inv'
<1>1. Typed /\ Flow(c)
  BY DEF Inv
<1>2. /\ UNCHANGED <<pollerVars, sent, pipe, toRouter>>
      /\ \E place \in UserPlaces :
            /\ user' = [user EXCEPT ![c] = place]
            /\ place # "joining" /\ (place = "terminated" => poller[c] = "exited")
      /\ user[c] # "joining" \/ poller[c] = "exited"
      /\ poller[c] = "exited" => user[c] = "joining" /\ user' = [user EXCEPT ![c] = "terminated"]
  BY <1>1 DEF ConstructContext, Construct, BeginRegister, EndRegister, Joined, network, UserPlaces, Flow, EndFits
<1>3. Typed' /\ \A d \in Client \ {c} : user'[d] = user[d]
  BY <1>1, <1>2 DEF Typed, pollerVars
<1>4. Flow(c)'
  <2>1. /\ user'[c] = "terminated" => poller[c] = "exited"
        /\ poller[c] = "exited" => user'[c] = "terminated"
    BY <1>1, <1>2 DEF Typed
  <2>2. PipeFits(c)'
    <3>1. NoOrder(pipe[c])
      <4>1. CASE poller[c] = "exited"
        BY <1>1, <4>1 DEF Flow, EndFits, NoOrder
      <4>2. CASE poller[c] # "exited"
        BY <1>1, <1>2, <4>2 DEF Flow, PipeFits
      <4> QED
        BY <4>1, <4>2
    <3> QED
      BY <1>1, <1>2, <3>1 DEF Flow, PipeFits, Expecting, InStep, NoOrder, pollerVars
  <2>3. HandFits(c)' /\ OnlySent(c)' /\ Framed(c)'
    BY <1>1, <1>2 DEF Flow, HandFits, OnlySent, Framed, WasSent, pollerVars
  <2>4. EndFits(c)'
    BY <1>1, <1>2, <2>1 DEF Flow, EndFits, pollerVars
  <2> QED
    BY <2>2, <2>3, <2>4 DEF Flow
<1>5. ASSUME NEW d \in Client \ {c}
      PROVE  Flow(d)'
  BY <1>2, <1>3, Elsewhere DEF Inv, pollerVars
<1> QED
  BY <1>3, <1>4, <1>5 DEF Inv

-----------------------------------------------------------------------------
(* The polling thread.                                                     *)

LEMMA OpenSocketsStep ==
    ASSUME Inv, NEW c \in Client, OpenSockets(c)
    PROVE  Inv'
<1>1. Typed /\ Flow(c)
  BY DEF Inv
<1>2. /\ UNCHANGED <<sent, held, parts, called, pipe, toRouter>> /\ poller[c] = "starting"
      /\ \/ /\ poller' = [poller EXCEPT ![c] = "aborted"]
            /\ user' = [user EXCEPT ![c] = "aborted"] /\ user[c] = "constructing"
         \/ poller' = [poller EXCEPT ![c] = "polling"] /\ user' = user
  BY DEF OpenSockets, network
<1>3. Typed'
  BY <1>1, <1>2 DEF Typed, UserPlaces, PollerPlaces
<1>4. /\ poller'[c] \in {"aborted", "polling"}
      /\ user'[c] = user[c] \/ (user'[c] = "aborted" /\ user[c] = "constructing")
  BY <1>1, <1>2 DEF Typed
<1>5. Flow(c)'
  <2>1. PipeFits(c)'
    BY <1>1, <1>2, <1>4 DEF Flow, PipeFits, Expecting, InStep, NoOrder
  <2>2. HandFits(c)'
    BY <1>1, <1>2, <1>4 DEF Flow, HandFits
  <2>3. OnlySent(c)' /\ Framed(c)'
    BY <1>1, <1>2 DEF Flow, OnlySent, Framed, WasSent
  <2>4. EndFits(c)'
    BY <1>1, <1>2, <1>4 DEF Flow, EndFits
  <2> QED
    BY <2>1, <2>2, <2>3, <2>4 DEF Flow
<1>6. ASSUME NEW d \in Client \ {c}
      PROVE  Flow(d)'
  BY <1>1, <1>2, Elsewhere DEF Inv, Typed
<1> QED
  BY <1>3, <1>5, <1>6 DEF Inv

\* Steps that touch nothing of what Inv is about, but for the callbacks made.
LEMMA NothingMoves ==
    ASSUME Inv, UNCHANGED <<user, poller, sent, pipe, held, parts, toRouter>>,
           DOMAIN called' = DOMAIN called
    PROVE  Inv'
BY Elsewhere DEF Inv, Typed

LEMMA PollInsideStep ==
    ASSUME Inv, NEW c \in Client, PollInside(c)
    PROVE  Inv'
<1> DEFINE q == pipe[c]
<1>1. Typed /\ Flow(c) /\ q \in Seq(Frame)
  BY DEF Inv, Typed
<1>2. /\ poller[c] = "polling" /\ q # <<>> /\ Head(q) # Die
      /\ pipe' = [pipe EXCEPT ![c] = Tail(q)] /\ held' = [held EXCEPT ![c] = Head(q)]
      /\ poller' = [poller EXCEPT ![c] = "forwarding"]
      /\ UNCHANGED <<user, sent, parts, called, toRouter>>
  BY DEF PollInside, userVars, network
<1>3. InStep(q) /\ (user[c] # "joining" => NoOrder(q)) /\ (Expecting(c) <=> q[1] \in Msg)
  BY <1>1, <1>2 DEF Flow, PipeFits
<1>4. /\ InStep(Tail(q)) /\ Tail(q) \in Seq(Frame)
      /\ Len(Tail(q)) = Len(q) - 1 /\ Len(q) \in Nat \ {0}
      /\ \A i \in 1 .. Len(Tail(q)) : Tail(q)[i] = q[i + 1]
      /\ Head(q) = q[1]
  BY <1>1, <1>2, <1>3, InStepTail
<1>5. q[1] \in Msg \cup {Delimiter}
  BY <1>1, <1>2, <1>4 DEF Frame
<1>6. pipe'[c] = Tail(q) /\ held'[c] = q[1] /\ poller'[c] = "forwarding"
  BY <1>1, <1>2, <1>4 DEF Typed
<1>7. Typed'
  BY <1>1, <1>2, <1>4, <1>5 DEF Typed, PollerPlaces, Frame
<1>8. Delimiter \notin Msg /\ Nothing \notin Msg /\ Delimiter # Nothing
      /\ Die \notin Msg /\ Delimiter # Die
  BY FramesDistinct DEF Msg
<1>9. held[c] = Nothing /\ (Expecting(c) <=> parts[c] = <<Delimiter>>)
      /\ parts[c] \in {<<>>, <<Delimiter>>}
  <2>1. <<>> # <<Delimiter>>
    OBVIOUS
  <2>2. held[c] = Nothing /\ parts[c] \in {<<>>, <<Delimiter>>}
    BY <1>1, <1>2 DEF Flow, HandFits
  <2> QED
    BY <1>8, <2>1, <2>2 DEF Expecting
<1>10. /\ Tail(q) # <<>> => 2 \in 1 .. Len(q) /\ Tail(q)[1] = q[2]
       /\ Len(q) > 1 => Tail(q) # <<>>
  <2> DEFINE r == Tail(q)
  <2>1. r \in Seq(Frame) /\ Len(r) \in Nat /\ (r # <<>> => Len(r) # 0) /\ Len(<<>>) = 0
    BY <1>4, EmptySeq, LenProperties
  <2>2. Len(r) = Len(q) - 1 /\ Len(q) \in Nat /\ \A i \in 1 .. Len(r) : r[i] = q[i + 1]
    BY <1>4
  <2> HIDE DEF r
  <2>3. ASSUME r # <<>>
        PROVE  2 \in 1 .. Len(q) /\ r[1] = q[2]
    <3>1. 1 \in 1 .. Len(r) /\ 1 + 1 = 2
      BY <2>1, <2>3
    <3> QED
      BY <2>2, <3>1
  <2>4. Len(q) > 1 => r # <<>>
    BY <2>1, <2>2
  <2> QED
    BY <2>3, <2>4 DEF r
<1>11. /\ q[1] = Delimiter => Len(q) > 1 /\ q[2] \in Msg
       /\ 2 \in 1 .. Len(q) /\ q[2] \in Msg => q[1] = Delimiter
  <2>1. \A i \in 1 .. Len(q) : /\ q[i] = Delimiter => i < Len(q) /\ q[i + 1] \in Msg
                               /\ i > 1 /\ q[i] \in Msg => q[i - 1] = Delimiter
    BY <1>3 DEF InStep
  <2>2. 1 \in 1 .. Len(q) /\ 1 + 1 = 2 /\ 2 - 1 = 1
    BY <1>4
  <2>3. q[1] = Delimiter => Len(q) > 1 /\ q[2] \in Msg
    BY <2>1, <2>2
  <2>4. 2 \in 1 .. Len(q) /\ q[2] \in Msg => q[1] = Delimiter
    BY <2>1, <2>2
  <2> QED
    BY <2>3, <2>4
<1> HIDE DEF q
<1>12. Flow(c)'
  <2>1. Expecting(c)' <=> q[1] = Delimiter
    BY <1>2, <1>5, <1>6, <1>8 DEF Expecting
  <2>2. PipeFits(c)'
    <3>1. NoOrder(q) => NoOrder(Tail(q))
      BY <1>4 DEF NoOrder
    <3>2. /\ q[1] = Delimiter => Tail(q) # <<>>
          /\ Tail(q) # <<>> => (q[1] = Delimiter <=> Tail(q)[1] \in Msg)
      BY <1>10, <1>11
    <3> QED
      BY <1>2, <1>3, <1>4, <1>6, <2>1, <3>1, <3>2 DEF PipeFits
  <2>3. HandFits(c)'
    BY <1>2, <1>3, <1>5, <1>6, <1>8, <1>9 DEF HandFits
  <2>4. OnlySent(c)'
    <3>1. \A i \in 1 .. Len(q) : q[i] \in Msg => Among(sent[c], q[i])
      BY <1>1 DEF Flow, OnlySent, WasSent, Among, q
    <3>2. ASSUME NEW i \in 1 .. Len(Tail(q)), Tail(q)[i] \in Msg
          PROVE  Among(sent[c], Tail(q)[i])
      <4>1. i + 1 \in 1 .. Len(q)
        BY <1>4
      <4> QED
        BY <1>4, <3>1, <3>2, <4>1
    <3>3. q[1] \in Msg => Among(sent[c], q[1])
      BY <1>4, <3>1
    <3> QED
      BY <1>2, <1>6, <3>2, <3>3 DEF OnlySent, WasSent, Among
  <2>5. EndFits(c)'
    BY <1>1, <1>2, <1>6 DEF Flow, EndFits
  <2>6. Framed(c)'
    BY <1>1, <1>2 DEF Flow, Framed, WasSent
  <2> QED
    BY <2>2, <2>3, <2>4, <2>5, <2>6 DEF Flow
<1>13. ASSUME NEW d \in Client \ {c}
       PROVE  Flow(d)'
  BY <1>1, <1>2, Elsewhere DEF Inv, Typed
<1> QED
  BY <1>7, <1>12, <1>13 DEF Inv

LEMMA ForwardStep ==
    ASSUME Inv, NEW c \in Client, Forward(c)
    PROVE  Inv'
<1>1. Typed /\ Flow(c)
  BY DEF Inv
<1>2. Delimiter \notin Msg /\ Nothing \notin Msg /\ Delimiter # Nothing
  BY FramesDistinct DEF Msg
<1>3. /\ poller[c] = "forwarding"
      /\ held' = [held EXCEPT ![c] = Nothing] /\ poller' = [poller EXCEPT ![c] = "polling"]
      /\ UNCHANGED <<user, sent, called, pipe>>
  BY DEF Forward, userVars
<1>4. held'[c] = Nothing /\ poller'[c] = "polling"
  BY <1>1, <1>3 DEF Typed
<1>5. held[c] \in {Delimiter} \cup Msg /\ (held[c] \in Msg => Among(sent[c], held[c]))
  BY <1>1, <1>3 DEF Flow, HandFits, OnlySent, Typed, Frame, WasSent, Among
<1>6. CASE held[c] = Delimiter
  <2>1. parts[c] = <<>> /\ parts' = [parts EXCEPT ![c] = Append(<<>>, Delimiter)] /\ toRouter' = toRouter
    BY <1>1, <1>6 DEF Forward, Flow, HandFits
  <2>2. Append(<<>>, Delimiter) = <<Delimiter>> /\ <<Delimiter>> # <<>> /\ <<Delimiter>> \in Seq({Delimiter})
    OBVIOUS
  <2>3. parts'[c] = <<Delimiter>>
    BY <1>1, <2>1, <2>2 DEF Typed
  <2>4. Typed'
    BY <1>1, <1>3, <2>1, <2>2 DEF Typed, PollerPlaces
  <2>5. Flow(c)'
    <3>1. Expecting(c) /\ Expecting(c)'
      BY <1>4, <1>6, <2>2, <2>3 DEF Expecting
    <3>2. PipeFits(c)'
      BY <1>1, <1>3, <3>1 DEF Flow, PipeFits, InStep, NoOrder
    <3>3. HandFits(c)'
      BY <1>2, <1>4, <2>3, FramesDistinct DEF HandFits, Nothing, Die
    <3>4. OnlySent(c)' /\ Framed(c)'
      BY <1>1, <1>2, <1>3, <1>4, <2>1 DEF Flow, OnlySent, Framed, WasSent
    <3>5. EndFits(c)'
      BY <1>1, <1>3, <1>4 DEF Flow, EndFits
    <3> QED
      BY <3>2, <3>3, <3>4, <3>5 DEF Flow
  <2>6. ASSUME NEW d \in Client \ {c}
        PROVE  Flow(d)'
    BY <1>1, <1>3, <2>1, Elsewhere DEF Inv, Typed
  <2> QED
    BY <2>4, <2>5, <2>6 DEF Inv
<1>7. CASE held[c] \in Msg
  <2> DEFINE m == held[c]
             queue == toRouter[c]
  <2>1. parts[c] = <<Delimiter>> /\ m # Delimiter
    BY <1>1, <1>2, <1>7 DEF Flow, HandFits
  <2>2. /\ toRouter' = [toRouter EXCEPT ![c] = Append(queue, Append(<<Delimiter>>, m))]
        /\ parts' = [parts EXCEPT ![c] = <<>>]
    BY <2>1 DEF Forward
  <2>3. Append(<<Delimiter>>, m) = <<Delimiter, m>> /\ <<Delimiter, m>> \in Seq(Frame)
    BY <1>7, MessageFrames
  <2>4. /\ queue \in Seq(Seq(Frame)) /\ toRouter'[c] = Append(queue, <<Delimiter, m>>)
        /\ parts'[c] = <<>>
    BY <1>1, <2>2, <2>3 DEF Typed
  <2>5. Typed'
    <3>1. toRouter' \in [Client -> Seq(Seq(Frame))]
      BY <1>1, <2>2, <2>3, <2>4 DEF Typed
    <3>2. parts' \in [Client -> Seq({Delimiter})]
      BY <1>1, <2>2 DEF Typed
    <3> QED
      BY <1>1, <1>3, <3>1, <3>2 DEF Typed, PollerPlaces
  <2>6. Flow(c)'
    <3>1. ~Expecting(c) /\ ~Expecting(c)'
      BY <1>2, <1>4, <1>7, <2>4 DEF Expecting
    <3>2. PipeFits(c)'
      BY <1>1, <1>3, <3>1 DEF Flow, PipeFits, InStep, NoOrder
    <3>3. HandFits(c)'
      BY <1>2, <1>4, <2>4, FramesDistinct DEF HandFits, Nothing, Die
    <3>4. OnlySent(c)'
      BY <1>1, <1>2, <1>3, <1>4 DEF Flow, OnlySent, WasSent
    <3>5. EndFits(c)'
      BY <1>1, <1>3, <1>4 DEF Flow, EndFits
    <3>6. Framed(c)'
      <4> DEFINE now == Append(queue, <<Delimiter, m>>)
      <4>1. \A i \in 1 .. Len(queue) :
              Len(queue[i]) = 2 /\ queue[i][1] = Delimiter /\ Among(sent[c], queue[i][2])
        BY <1>1 DEF Flow, Framed, WasSent, Among
      <4>2. /\ Len(now) = Len(queue) + 1 /\ Len(queue) \in Nat
            /\ \A i \in 1 .. Len(queue) : now[i] = queue[i]
            /\ now[Len(queue) + 1] = <<Delimiter, m>>
        BY <2>3, <2>4
      <4>3. Len(<<Delimiter, m>>) = 2 /\ <<Delimiter, m>>[1] = Delimiter /\ <<Delimiter, m>>[2] = m
        OBVIOUS
      <4> HIDE DEF now, queue, m
      <4>4. ASSUME NEW i \in 1 .. Len(now)
            PROVE  Len(now[i]) = 2 /\ now[i][1] = Delimiter /\ Among(sent[c], now[i][2])
        <5>1. i \in 1 .. Len(queue) \/ i = Len(queue) + 1
          BY <4>2
        <5>2. Among(sent[c], m)
          BY <1>5, <1>7 DEF m
        <5> QED
          BY <4>1, <4>2, <4>3, <5>1, <5>2
      <4>5. toRouter'[c] = now /\ sent' = sent
        BY <1>3, <2>4 DEF now
      <4> QED
        BY <4>4, <4>5 DEF Framed, WasSent, Among
    <3> QED
      BY <3>2, <3>3, <3>4, <3>5, <3>6 DEF Flow
  <2>7. ASSUME NEW d \in Client \ {c}
        PROVE  Flow(d)'
    BY <1>1, <1>3, <2>2, Elsewhere DEF Inv, Typed
  <2> QED
    BY <2>5, <2>6, <2>7 DEF Inv
<1> QED
  BY <1>5, <1>6, <1>7

\* The order to stop is the last frame, so that nothing is left behind it; what
\* the socket had not transmitted may be dropped, from its end.
LEMMA ExitStep ==
    ASSUME Inv, NEW c \in Client, Exit(c)
    PROVE  Inv'
<1> DEFINE q == pipe[c]
           queue == toRouter[c]
<1>1. Typed /\ Flow(c) /\ q \in Seq(Frame) /\ queue \in Seq(Seq(Frame))
  BY DEF Inv, Typed
<1>2. PICK k \in 0 .. Len(queue) : toRouter' = [toRouter EXCEPT ![c] = SubSeq(queue, 1, k)]
  BY DEF Exit, ConnectionClosed
<1>3. /\ poller[c] = "polling" /\ q # <<>> /\ Head(q) = Die
      /\ pipe' = [pipe EXCEPT ![c] = Tail(q)]
      /\ poller' = [poller EXCEPT ![c] = "exited"]
      /\ UNCHANGED <<user, sent, held, parts, called>>
  BY DEF Exit, userVars
<1>4. InStep(q) /\ (user[c] # "joining" => NoOrder(q)) /\ (Expecting(c) <=> q[1] \in Msg)
  BY <1>1, <1>3 DEF Flow, PipeFits
<1>5. /\ Tail(q) \in Seq(Frame) /\ Len(Tail(q)) = Len(q) - 1
      /\ Len(q) \in Nat \ {0} /\ q[1] = Die
  BY <1>1, <1>3, <1>4, InStepTail
<1>6. Len(q) = 1 /\ user[c] = "joining"
  <2>1. 1 \in 1 .. Len(q)
    BY <1>5
  <2> QED
    BY <1>4, <1>5, <2>1 DEF InStep, NoOrder
<1>7. Tail(q) = <<>>
  <2> DEFINE r == Tail(q)
  <2>1. r \in Seq(Frame) /\ Len(r) = 0
    BY <1>5, <1>6
  <2> HIDE DEF r
  <2>2. r = <<>>
    BY <2>1, EmptySeq
  <2> QED
    BY <2>2 DEF r
<1>8. /\ \A x \in 1 .. k : SubSeq(queue, 1, k)[x] = queue[x]
      /\ SubSeq(queue, 1, k) \in Seq(Seq(Frame)) /\ Len(SubSeq(queue, 1, k)) = k
      /\ k \in Nat /\ Len(queue) \in Nat /\ k <= Len(queue)
  BY <1>1
<1>9. /\ pipe'[c] = <<>> /\ poller'[c] = "exited" /\ held[c] = Nothing /\ parts[c] = <<>>
      /\ toRouter'[c] = SubSeq(queue, 1, k)
  <2>1. Die \notin Msg
    BY FramesDistinct DEF Msg
  <2>2. held[c] = Nothing /\ parts[c] = <<>>
    BY <1>1, <1>3, <1>4, <1>5, <2>1 DEF Flow, HandFits, Expecting
  <2> QED
    BY <1>1, <1>2, <1>3, <1>7, <2>2 DEF Typed
<1>10. Typed'
  BY <1>1, <1>2, <1>3, <1>5, <1>8 DEF Typed, PollerPlaces
<1> HIDE DEF q, queue
<1>11. Flow(c)'
  <2>1. Len(<<>>) = 0 /\ 1 .. 0 = {} /\ Nothing # Delimiter /\ Nothing \notin Msg
    BY FramesDistinct DEF Msg
  <2>2. PipeFits(c)'
    BY <1>3, <1>9, <2>1 DEF PipeFits, Expecting, InStep, NoOrder
  <2>3. HandFits(c)'
    BY <1>1, <1>3, <1>9 DEF Flow, HandFits
  <2>4. OnlySent(c)'
    BY <1>3, <1>9, <2>1 DEF OnlySent
  <2>5. EndFits(c)'
    BY <1>3, <1>6, <1>9 DEF EndFits
  <2>6. Framed(c)'
    <3>1. \A i \in 1 .. Len(queue) :
            Len(queue[i]) = 2 /\ queue[i][1] = Delimiter /\ WasSent(c, queue[i][2])
      BY <1>1 DEF Flow, Framed, queue
    <3>2. ASSUME NEW i \in 1 .. Len(toRouter'[c])
          PROVE  i \in 1 .. Len(queue) /\ toRouter'[c][i] = queue[i]
      BY <1>8, <1>9
    <3>3. sent' = sent
      BY <1>3
    <3> QED
      BY <3>1, <3>2, <3>3 DEF Framed, WasSent
  <2> QED
    BY <2>2, <2>3, <2>4, <2>5, <2>6 DEF Flow
<1>12. ASSUME NEW d \in Client \ {c}
       PROVE  Flow(d)'
  BY <1>1, <1>2, <1>3, Elsewhere DEF Inv, Typed
<1> QED
  BY <1>10, <1>11, <1>12 DEF Inv

-----------------------------------------------------------------------------
(* The system.                                                             *)

LEMMA RouterStepInv ==
    ASSUME Inv, NEW c \in Client, RouterStep(c)
    PROVE  Inv'
<1> DEFINE q == toRouter[c]
<1>1. Typed /\ Flow(c) /\ q \in Seq(Seq(Frame))
  BY DEF Inv, Typed
<1>2. /\ q # <<>> /\ toRouter' = [toRouter EXCEPT ![c] = Tail(q)]
      /\ UNCHANGED <<user, poller, sent, pipe, held, parts, called>>
  BY DEF RouterStep, R!Receive, matcher, userVars, pollerVars
<1>3. /\ Tail(q) \in Seq(Seq(Frame)) /\ Len(Tail(q)) = Len(q) - 1 /\ Len(q) \in Nat \ {0}
      /\ \A i \in 1 .. Len(Tail(q)) : Tail(q)[i] = q[i + 1]
  BY <1>1, <1>2
<1>4. toRouter'[c] = Tail(q) /\ Typed'
  BY <1>1, <1>2, <1>3 DEF Typed
<1> HIDE DEF q
<1>5. Flow(c)'
  <2>1. PipeFits(c)' /\ HandFits(c)' /\ OnlySent(c)' /\ EndFits(c)'
    BY <1>1, <1>2 DEF Flow, PipeFits, HandFits, OnlySent, EndFits, Expecting, InStep, NoOrder, WasSent
  <2>2. Framed(c)'
    <3>1. \A i \in 1 .. Len(q) :
            Len(q[i]) = 2 /\ q[i][1] = Delimiter /\ WasSent(c, q[i][2])
      BY <1>1 DEF Flow, Framed, q
    <3>2. ASSUME NEW i \in 1 .. Len(Tail(q))
          PROVE  i + 1 \in 1 .. Len(q) /\ Tail(q)[i] = q[i + 1]
      BY <1>3
    <3>3. sent' = sent
      BY <1>2
    <3> QED
      BY <1>4, <3>1, <3>2, <3>3 DEF Framed, WasSent
  <2> QED
    BY <2>1, <2>2 DEF Flow
<1>6. ASSUME NEW d \in Client \ {c}
      PROVE  Flow(d)'
  BY <1>1, <1>2, Elsewhere DEF Inv, Typed
<1> QED
  BY <1>4, <1>5, <1>6 DEF Inv

LEMMA UserStepInv ==
    ASSUME Inv, NEW c \in Client, UserStep(c)
    PROVE  Inv'
<1>1. ASSUME NEW s \in Sub, SendSubscription(c, s)
      PROVE  Inv'
  <2>1. /\ s \in Msg /\ user[c] = "idle" /\ Push(c, <<Delimiter, s>>)
        /\ sent' = [sent EXCEPT ![c] = Append(@, s)] /\ user' = [user EXCEPT ![c] = "sent"]
        /\ UNCHANGED <<pollerVars, toRouter>>
    BY <1>1 DEF SendSubscription, Msg, network
  <2> QED
    BY <2>1, SendStep
<1>2. ASSUME NEW p \in Pub, SendPublication(c, p)
      PROVE  Inv'
  <2>1. /\ p \in Msg /\ user[c] = "idle" /\ Push(c, <<Delimiter, p>>)
        /\ sent' = [sent EXCEPT ![c] = Append(@, p)] /\ user' = user
        /\ UNCHANGED <<pollerVars, toRouter>>
    BY <1>2 DEF SendPublication, Msg, network
  <2> QED
    BY <2>1, SendStep
<1> QED
  BY <1>1, <1>2, UserMoves, TerminateStep DEF UserStep

LEMMA PollOutsideStep ==
    ASSUME Inv, NEW c \in Client, PollOutside(c)
    PROVE  Inv'
<1>1. UNCHANGED <<user, poller, sent, pipe, held, parts, toRouter>>
  BY DEF PollOutside, userVars
<1>2. DOMAIN called' = DOMAIN called
  BY DEF PollOutside, CallBack
<1> QED
  BY <1>1, <1>2, NothingMoves

LEMMA InvStep == Inv /\ [Next]_vars => Inv'
<1> SUFFICES ASSUME Inv, [Next]_vars
             PROVE  Inv'
  OBVIOUS
<1>1. CASE UNCHANGED vars
  BY <1>1, NothingMoves DEF vars, matcher, userVars, pollerVars, network
<1>2. ASSUME NEW c \in Client, UserStep(c)
      PROVE  Inv'
  BY <1>2, UserStepInv
<1>3. ASSUME NEW c \in Client, PollerStep(c)
      PROVE  Inv'
  BY <1>3, OpenSocketsStep, PollOutsideStep, PollInsideStep, ForwardStep, ExitStep DEF PollerStep
<1>4. ASSUME NEW c \in Client, Connect(c)
      PROVE  Inv'
  BY <1>4, NothingMoves DEF Connect, ConnectionUp, matcher, userVars, pollerVars
<1>5. ASSUME NEW c \in Client, RouterStep(c)
      PROVE  Inv'
  BY <1>5, RouterStepInv
<1> QED
  BY <1>1, <1>2, <1>3, <1>4, <1>5 DEF Next, ClientStep

LEMMA InvAlways == Spec => []Inv
BY InvInit, InvStep, PTL DEF Spec

\* For any number of clients, messages and any capacity of the sockets, every
\* message reaches the router whole: a delimiter and a body that was sent.
THEOREM FramesAlwaysAligned == Spec => []FramesAligned
<1>1. Inv => FramesAligned
  BY DEF Inv, Flow, Framed, FramesAligned
<1> QED
  BY <1>1, InvAlways, PTL

\* When terminate returns, nothing that the user has sent is left in the pipe,
\* in the hand of the polling thread, or half sent.
THEOREM AlwaysFlushed == Spec => []FlushedOnReturn
<1>1. Inv => FlushedOnReturn
  BY DEF Inv, Flow, EndFits, FlushedOnReturn
<1> QED
  BY <1>1, InvAlways, PTL

\* No callback runs once terminate has returned.
THEOREM AlwaysQuiet == Spec => QuietAfterTerminate
<1>1. Inv /\ [Next]_vars =>
        [\A c \in Client : user[c] = "terminated" => called'[c] = called[c]]_vars
  <2> SUFFICES ASSUME Inv, Next, NEW d \in Client, user[d] = "terminated"
               PROVE  called'[d] = called[d]
    OBVIOUS
  <2>1. poller[d] = "exited" /\ DOMAIN called = Client
    BY DEF Inv, Flow, EndFits, Typed
  <2>2. ASSUME NEW c \in Client, PollOutside(c)
        PROVE  called'[d] = called[d]
    <3>1. c # d
      BY <2>1, <2>2 DEF PollOutside
    <3> QED
      BY <2>1, <2>2, <3>1 DEF PollOutside, CallBack
  <2>3. ASSUME NEW c \in Client, UserStep(c)
        PROVE  called' = called
    BY <2>3 DEF UserStep, ConstructContext, Construct, BeginRegister, EndRegister, Terminate, Joined,
                SendSubscription, SendPublication, pollerVars
  <2>4. ASSUME NEW c \in Client, OpenSockets(c) \/ PollInside(c) \/ Forward(c) \/ Exit(c)
        PROVE  called' = called
    BY <2>4 DEF OpenSockets, PollInside, Forward, Exit
  <2>5. ASSUME NEW c \in Client, Connect(c) \/ RouterStep(c)
        PROVE  called' = called
    BY <2>5 DEF Connect, RouterStep, matcher, pollerVars
  <2> QED
    BY <2>2, <2>3, <2>4, <2>5 DEF Next, ClientStep, PollerStep
<1> QED
  BY <1>1, InvAlways, PTL DEF Spec, QuietAfterTerminate

-----------------------------------------------------------------------------
(* Each message passes once, and in order.                                 *)

\* The router's answers.
Note == [hash : Sub, payload : Pub]
Answer == {Delimiter} \cup Note

Served ==
    /\ sealedSubs \subseteq Sub /\ IsFiniteSet(sealedSubs)
    /\ DOMAIN dataTable = R!Headers
    /\ routed \subseteq Pub
    /\ toClient \in Queues(Answer)
    /\ called \in [Client -> Seq(Sub \X Pub)]

\* Client c sends x before it sends y.
Earlier(c, x, y) ==
    \E i, j \in 1 .. Len(sent[c]) : i < j /\ sent[c][i] = x /\ sent[c][j] = y

\* A client sends its own messages, each of them once.
SentOnce(c) ==
    /\ \A i \in 1 .. Len(sent[c]) :
          /\ sent[c][i] \in Sub => Owner[sent[c][i]] = c
          /\ sent[c][i] \in Pub => Publisher[sent[c][i]] = c
    /\ \A i, j \in 1 .. Len(sent[c]) : i # j => sent[c][i] # sent[c][j]

\* Where the messages of client c are: handled by the router, on their way to
\* it, in the hand of the polling thread, in the pipe.
Passed(c) == {p \in routed : Publisher[p] = c}
Queued(c) == {toRouter[c][i][2] : i \in 1 .. Len(toRouter[c])}
InHand(c) == {held[c]} \cap Msg
Piped(c) == {pipe[c][i] : i \in 1 .. Len(pipe[c])} \cap Msg

\* What is further on its way was sent earlier.
Upward(c) ==
    /\ \A x \in Passed(c) : Among(sent[c], x)
    /\ \A x \in Passed(c), y \in Queued(c) \cup InHand(c) \cup Piped(c) : Earlier(c, x, y)
    /\ \A x \in Queued(c), y \in InHand(c) \cup Piped(c) : Earlier(c, x, y)
    /\ \A x \in InHand(c), y \in Piped(c) : Earlier(c, x, y)
    /\ \A i, j \in 1 .. Len(toRouter[c]) :
          i < j => Earlier(c, toRouter[c][i][2], toRouter[c][j][2])
    /\ \A i, j \in 1 .. Len(pipe[c]) :
          i < j /\ pipe[c][i] \in Msg /\ pipe[c][j] \in Msg => Earlier(c, pipe[c][i], pipe[c][j])

\* The answers s, p and t, q are not about two publications of one client to
\* one subscription, or those publications were sent in this order.
InTurn(s, p, t, q) ==
    s = t /\ Publisher[p] = Publisher[q] => Earlier(Publisher[p], p, q)

\* What a client was told and will be told is its own, of publications that the
\* router has handled, and in turn.
Downward(c) ==
    /\ \A n \in Note : Among(toClient[c], n) /\ n # Delimiter => Owner[n.hash] = c /\ n.payload \in routed
    /\ \A i \in 1 .. Len(called[c]) : called[c][i][2] \in routed
    /\ \A i, j \in 1 .. Len(toClient[c]) :
          i < j /\ toClient[c][i] # Delimiter /\ toClient[c][j] # Delimiter
          => InTurn(toClient[c][i].hash, toClient[c][i].payload,
                    toClient[c][j].hash, toClient[c][j].payload)
    /\ \A i \in 1 .. Len(called[c]), j \in 1 .. Len(toClient[c]) :
          toClient[c][j] # Delimiter
          => InTurn(called[c][i][1], called[c][i][2],
                    toClient[c][j].hash, toClient[c][j].payload)
    /\ \A i, j \in 1 .. Len(called[c]) :
          i < j => InTurn(called[c][i][1], called[c][i][2], called[c][j][1], called[c][j][2])

Order == Served /\ \A c \in Client : SentOnce(c) /\ Upward(c) /\ Downward(c)

LEMMA OrderInit == Init => Order
<1> SUFFICES ASSUME Init
             PROVE  Order
  OBVIOUS
<1> USE DEF Init, MatcherInit, NetworkInit, R!RouterInit
<1>1. Served
  <2>1. /\ sealedSubs = {} /\ routed = {} /\ DOMAIN dataTable = R!Headers
        /\ toClient = [c \in Client |-> <<>>] /\ called = [c \in Client |-> <<>>]
    OBVIOUS
  <2>2. <<>> \in Seq(Answer) /\ <<>> \in Seq(Sub \X Pub)
    BY EmptySeq
  <2> QED
    BY <2>1, <2>2, FS_EmptySet DEF Served, Queues
<1>2. ASSUME NEW c \in Client
      PROVE  SentOnce(c) /\ Upward(c) /\ Downward(c)
  <2>1. /\ sent[c] = <<>> /\ pipe[c] = <<>> /\ held[c] = Nothing /\ toRouter[c] = <<>>
        /\ toClient[c] = <<>> /\ called[c] = <<>> /\ routed = {}
    OBVIOUS
  <2>2. Len(<<>>) = 0 /\ 1 .. 0 = {} /\ Nothing \notin Msg
    BY FramesDistinct DEF Msg
  <2>3. SentOnce(c)
    BY <2>1, <2>2 DEF SentOnce
  <2>4. Upward(c)
    BY <2>1, <2>2 DEF Upward, Passed, Queued, InHand, Piped
  <2>5. Downward(c)
    BY <2>1, <2>2 DEF Downward, Among
  <2> QED
    BY <2>3, <2>4, <2>5
<1> QED
  BY <1>1, <1>2 DEF Order

\* The order of what was sent does not change, and what is sent now is last.
LEMMA EarlierStays ==
    ASSUME Typed, NEW c \in Client, NEW m \in Msg, sent' = [sent EXCEPT ![c] = Append(@, m)]
    PROVE  /\ \A d \in Client : \A x, y : Earlier(d, x, y) => Earlier(d, x, y)'
           /\ \A d \in Client : \A x : Among(sent[d], x) => Among(sent'[d], x)
           /\ \A x : Among(sent[c], x) => Earlier(c, x, m)'
<1>1. sent[c] \in Seq(Msg) /\ sent'[c] = Append(sent[c], m)
      /\ \A d \in Client \ {c} : sent'[d] = sent[d]
  BY DEF Typed
<1>2. /\ Len(sent'[c]) = Len(sent[c]) + 1 /\ Len(sent[c]) \in Nat
      /\ sent'[c][Len(sent[c]) + 1] = m
      /\ \A i \in 1 .. Len(sent[c]) : sent'[c][i] = sent[c][i]
  BY <1>1
<1>3. \A x, y : Earlier(c, x, y) => Earlier(c, x, y)'
  BY <1>2 DEF Earlier
<1>4. \A d \in Client \ {c} : \A x, y : Earlier(d, x, y) => Earlier(d, x, y)'
  BY <1>1 DEF Earlier
<1>5. ASSUME NEW x, Among(sent[c], x)
      PROVE  Earlier(c, x, m)'
  <2>1. PICK i \in 1 .. Len(sent[c]) : sent[c][i] = x
    BY <1>5 DEF Among
  <2>2. i \in 1 .. Len(sent'[c]) /\ Len(sent[c]) + 1 \in 1 .. Len(sent'[c]) /\ i < Len(sent[c]) + 1
    BY <1>2
  <2> QED
    BY <1>2, <2>1, <2>2 DEF Earlier
<1>6. \A d \in Client : \A x : Among(sent[d], x) => Among(sent'[d], x)
  BY <1>1, <1>2 DEF Among
<1> QED
  BY <1>3, <1>4, <1>5, <1>6

\* No message is earlier than itself.
LEMMA NotTwice ==
    ASSUME NEW c, SentOnce(c), NEW x
    PROVE  ~Earlier(c, x, x)
BY DEF SentOnce, Earlier

LEMMA UpwardStays ==
    ASSUME NEW d \in Client, Upward(d), toRouter'[d] = toRouter[d], held'[d] = held[d],
           pipe'[d] = pipe[d], Passed(d)' = Passed(d),
           \A x, y : Earlier(d, x, y) => Earlier(d, x, y)',
           \A x : Among(sent[d], x) => Among(sent'[d], x)
    PROVE  Upward(d)'
<1>1. Queued(d)' = Queued(d) /\ InHand(d)' = InHand(d) /\ Piped(d)' = Piped(d)
  BY DEF Queued, InHand, Piped
<1> QED
  BY <1>1 DEF Upward

LEMMA DownwardStays ==
    ASSUME Served, NEW d \in Client, Downward(d), toClient'[d] = toClient[d], called'[d] = called[d],
           routed \subseteq routed',
           \A e \in Client : \A x, y : Earlier(e, x, y) => Earlier(e, x, y)'
    PROVE  Downward(d)'
<1>1. \A p \in routed : Publisher[p] \in Client
  BY MatcherAssumption DEF Served
<1>2. ASSUME NEW s, NEW t, NEW p \in routed, NEW q, InTurn(s, p, t, q)
      PROVE  InTurn(s, p, t, q)'
  BY <1>1, <1>2 DEF InTurn
<1>3. \A i \in 1 .. Len(called[d]) : called[d][i][2] \in routed
  BY DEF Downward
<1>4. ASSUME NEW i \in 1 .. Len(toClient[d]), toClient[d][i] # Delimiter
      PROVE  toClient[d][i].payload \in routed
  <2>1. toClient[d][i] \in Note
    BY <1>4 DEF Served, Queues, Answer
  <2> QED
    BY <1>4, <2>1 DEF Downward, Among
<1> QED
  BY <1>2, <1>3, <1>4 DEF Downward

\* Everything on its way was sent.
LEMMA OnItsWay ==
    ASSUME Inv, NEW c \in Client, Upward(c)
    PROVE  \A x \in Passed(c) \cup Queued(c) \cup InHand(c) \cup Piped(c) : Among(sent[c], x)
<1>1. Flow(c)
  BY DEF Inv
<1>2. \A x \in Passed(c) : Among(sent[c], x)
  BY DEF Upward
<1>3. \A x \in Queued(c) : Among(sent[c], x)
  BY <1>1 DEF Flow, Framed, WasSent, Among, Queued
<1>4. \A x \in InHand(c) \cup Piped(c) : Among(sent[c], x)
  BY <1>1 DEF Flow, OnlySent, WasSent, Among, InHand, Piped
<1> QED
  BY <1>2, <1>3, <1>4

\* A client's own new message comes behind all that it has sent.
LEMMA SendOrder ==
    ASSUME Inv, Order, NEW c \in Client, NEW m \in Msg, ~WasSent(c, m),
           m \in Sub => Owner[m] = c, m \in Pub => Publisher[m] = c,
           Push(c, <<Delimiter, m>>),
           sent' = [sent EXCEPT ![c] = Append(@, m)],
           UNCHANGED <<held, toRouter, toClient, called, sealedSubs, dataTable, routed>>
    PROVE  Order'
<1> DEFINE q == pipe[c]
           r == q \o <<Delimiter, m>>
           Later(x, y) == \E i, j \in 1 .. Len(sent'[c]) : i < j /\ sent'[c][i] = x /\ sent'[c][j] = y
<1>1. Typed /\ Served /\ q \in Seq(Frame) /\ Delimiter \notin Msg
  BY FramesDistinct DEF Inv, Typed, Order, Msg
<1>2. pipe' = [pipe EXCEPT ![c] = r]
  BY DEF Push
<1>3. /\ r \in Seq(Frame) /\ Len(r) = Len(q) + 2 /\ Len(q) \in Nat
      /\ \A i \in 1 .. Len(q) : r[i] = q[i]
      /\ r[Len(q) + 1] = Delimiter /\ r[Len(q) + 2] = m
  BY <1>1, PushedFrames
<1>4. pipe'[c] = r /\ \A d \in Client \ {c} : pipe'[d] = pipe[d]
  BY <1>1, <1>2 DEF Typed
<1>5. /\ \A d \in Client : \A x, y : Earlier(d, x, y) => Earlier(d, x, y)'
      /\ \A d \in Client : \A x : Among(sent[d], x) => Among(sent'[d], x)
      /\ \A x : Among(sent[c], x) => Earlier(c, x, m)'
  BY <1>1, EarlierStays
<1> /\ \A x, y : Earlier(c, x, y) => Later(x, y)
    /\ \A x : Among(sent[c], x) => Later(x, m)
  BY <1>5 DEF Earlier
<1>6. Served'
  BY <1>1 DEF Served
<1>7. \A d \in Client : Downward(d)'
  BY <1>1, <1>5, DownwardStays DEF Order
<1>8. \A d \in Client : Passed(d)' = Passed(d)
  BY DEF Passed
<1>9. \A d \in Client \ {c} : Upward(d)'
  BY <1>4, <1>5, <1>8, UpwardStays DEF Order
<1>10. \A x \in Passed(c) \cup Queued(c) \cup InHand(c) \cup Piped(c) : Among(sent[c], x)
  BY OnItsWay DEF Order
<1> HIDE DEF r, Later
<1>11. Upward(c)'
  <2>1. Queued(c)' = Queued(c) /\ InHand(c)' = InHand(c)
    BY DEF Queued, InHand
  <2>2. Piped(c)' = Piped(c) \cup {m}
    <3>1. \A i \in 1 .. Len(r) : i \in 1 .. Len(q) \/ i = Len(q) + 1 \/ i = Len(q) + 2
      BY <1>3
    <3>2. \A i \in 1 .. Len(q) : i \in 1 .. Len(r)
      BY <1>3
    <3>3. Len(q) + 2 \in 1 .. Len(r)
      BY <1>3
    <3>4. \A x \in Msg : (\E i \in 1 .. Len(r) : r[i] = x) <=> x = m \/ \E i \in 1 .. Len(q) : q[i] = x
      BY <1>1, <1>3, <3>1, <3>2, <3>3
    <3> QED
      BY <1>4, <3>4 DEF Piped
  <2>3. \A i, j \in 1 .. Len(q) :
           i < j /\ q[i] \in Msg /\ q[j] \in Msg => Earlier(c, q[i], q[j])
    BY DEF Order, Upward
  <2>4. ASSUME NEW i \in 1 .. Len(r), NEW j \in 1 .. Len(r), i < j, r[i] \in Msg, r[j] \in Msg
        PROVE  Later(r[i], r[j])
    <3>1. i \in 1 .. Len(q) /\ q[i] = r[i]
      BY <1>1, <1>3, <2>4
    <3>2. CASE j \in 1 .. Len(q)
      BY <1>3, <1>5, <2>3, <2>4, <3>1, <3>2
    <3>3. CASE j = Len(q) + 2
      <4>1. q[i] \in Piped(c)
        BY <2>4, <3>1 DEF Piped
      <4> QED
        BY <1>3, <1>5, <1>10, <3>1, <3>3, <4>1
    <3>4. j \in 1 .. Len(q) \/ j = Len(q) + 2
      BY <1>1, <1>3, <2>4
    <3> QED
      BY <3>2, <3>3, <3>4
  <2>5. Upward(c)
    BY DEF Order
  <2>6. \A x \in Passed(c)' : Among(sent'[c], x)
    BY <1>5, <1>8, <2>5 DEF Upward
  <2>7. /\ \A x \in Passed(c)', y \in Queued(c)' \cup InHand(c)' \cup Piped(c)' : Later(x, y)
        /\ \A x \in Queued(c)', y \in InHand(c)' \cup Piped(c)' : Later(x, y)
        /\ \A x \in InHand(c)', y \in Piped(c)' : Later(x, y)
    BY <1>8, <1>10, <2>1, <2>2, <2>5 DEF Upward
  <2>8. \A i, j \in 1 .. Len(toRouter'[c]) :
           i < j => Later(toRouter'[c][i][2], toRouter'[c][j][2])
    BY <2>5 DEF Upward
  <2>9. \A i, j \in 1 .. Len(pipe'[c]) :
           i < j /\ pipe'[c][i] \in Msg /\ pipe'[c][j] \in Msg => Later(pipe'[c][i], pipe'[c][j])
    BY <1>4, <2>4
  <2> QED
    BY <2>6, <2>7, <2>8, <2>9 DEF Upward, Earlier, Later
<1>12. ASSUME NEW d \in Client
       PROVE  SentOnce(d)'
  <2>1. SentOnce(d)
    BY DEF Order
  <2>2. CASE d # c
    BY <1>1, <2>1, <2>2 DEF Typed, SentOnce
  <2>3. CASE d = c
    <3> DEFINE u == sent[c]
               v == sent'[c]
    <3>1. u \in Seq(Msg) /\ v = Append(u, m)
      BY <1>1 DEF Typed
    <3>2. /\ Len(v) = Len(u) + 1 /\ Len(u) \in Nat /\ v[Len(u) + 1] = m
          /\ \A i \in 1 .. Len(u) : v[i] = u[i]
      BY <3>1
    <3>3. \A i \in 1 .. Len(u) : u[i] # m
      BY DEF WasSent
    <3>4. \A i \in 1 .. Len(v) : i \in 1 .. Len(u) \/ i = Len(u) + 1
      BY <3>2
    <3>5. /\ \A i \in 1 .. Len(u) : (u[i] \in Sub => Owner[u[i]] = c) /\ (u[i] \in Pub => Publisher[u[i]] = c)
          /\ \A i, j \in 1 .. Len(u) : i # j => u[i] # u[j]
      BY <2>1, <2>3 DEF SentOnce
    <3> HIDE DEF u, v
    <3>6. \A i \in 1 .. Len(v) : (v[i] \in Sub => Owner[v[i]] = c) /\ (v[i] \in Pub => Publisher[v[i]] = c)
      BY <3>2, <3>4, <3>5
    <3>7. \A i, j \in 1 .. Len(v) : i # j => v[i] # v[j]
      BY <3>2, <3>3, <3>4, <3>5
    <3> QED
      BY <2>3, <3>6, <3>7 DEF SentOnce, v
  <2> QED
    BY <2>2, <2>3
<1> QED
  BY <1>6, <1>7, <1>9, <1>11, <1>12 DEF Order

\* The steps in which nothing is sent, handled or answered.
LEMMA OrderElsewhere ==
    ASSUME Inv, Order, NEW c \in Client,
           UNCHANGED <<sent, toClient, called, sealedSubs, dataTable, routed>>,
           \A d \in Client \ {c} : /\ toRouter'[d] = toRouter[d] /\ held'[d] = held[d]
                                   /\ pipe'[d] = pipe[d],
           Upward(c)'
    PROVE  Order'
<1>1. \A d \in Client : \A x, y : Earlier(d, x, y)' <=> Earlier(d, x, y)
  BY DEF Earlier
<1>2. \A d \in Client : Passed(d)' = Passed(d)
  BY DEF Passed
<1>3. Served' /\ \A d \in Client : SentOnce(d)'
  BY DEF Order, Served, SentOnce
<1>4. \A d \in Client : Downward(d)'
  BY <1>1, DownwardStays DEF Order
<1>5. \A d \in Client \ {c} : Upward(d)'
  BY <1>1, <1>2, UpwardStays DEF Order
<1> QED
  BY <1>3, <1>4, <1>5 DEF Order

\* The polling thread takes a frame: it was sent before the rest of the pipe.
LEMMA PollInsideOrder ==
    ASSUME Inv, Order, NEW c \in Client, PollInside(c), UNCHANGED <<routerVars, routed>>
    PROVE  Order'
<1> DEFINE q == pipe[c]
           t == Tail(q)
<1>1. Typed /\ Flow(c) /\ q \in Seq(Frame) /\ Upward(c)
  BY DEF Inv, Typed, Order
<1>2. /\ poller[c] = "polling" /\ q # <<>>
      /\ pipe' = [pipe EXCEPT ![c] = t] /\ held' = [held EXCEPT ![c] = Head(q)]
      /\ UNCHANGED <<sent, called, toRouter, toClient, sealedSubs, dataTable, routed>>
  BY DEF PollInside, userVars, network, routerVars
<1>3. /\ Len(t) = Len(q) - 1 /\ Len(q) \in Nat \ {0} /\ Head(q) = q[1]
      /\ \A i \in 1 .. Len(t) : t[i] = q[i + 1]
  BY <1>1, <1>2
<1>4. pipe'[c] = t /\ held'[c] = q[1]
  BY <1>1, <1>2, <1>3 DEF Typed
<1>5. \A i, j \in 1 .. Len(q) :
         i < j /\ q[i] \in Msg /\ q[j] \in Msg => Earlier(c, q[i], q[j])
  BY <1>1 DEF Upward
<1>6. \A d \in Client \ {c} : held'[d] = held[d] /\ pipe'[d] = pipe[d]
  BY <1>1, <1>2 DEF Typed
<1> HIDE DEF t
<1>7. \A i \in 1 .. Len(t) : i + 1 \in 1 .. Len(q)
  BY <1>3
<1>8. InHand(c)' \subseteq {q[1]} \cap Msg /\ Passed(c)' = Passed(c) /\ Queued(c)' = Queued(c)
  BY <1>2, <1>4 DEF InHand, Passed, Queued
<1>9. Piped(c)' \subseteq Piped(c) /\ {q[1]} \cap Msg \subseteq Piped(c)
  <2>1. 1 \in 1 .. Len(q)
    BY <1>3
  <2> QED
    BY <1>3, <1>4, <1>7, <2>1 DEF Piped
<1>10. \A x, y : Earlier(c, x, y)' <=> Earlier(c, x, y)
  BY <1>2 DEF Earlier
<1>11. \A x \in InHand(c)', y \in Piped(c)' : Earlier(c, x, y)
  <2>1. ASSUME NEW i \in 1 .. Len(t), q[1] \in Msg, t[i] \in Msg
        PROVE  Earlier(c, q[1], t[i])
    <3>1. 1 \in 1 .. Len(q) /\ i + 1 \in 1 .. Len(q) /\ 1 < i + 1
      BY <1>3
    <3> QED
      BY <1>3, <1>5, <2>1, <3>1
  <2> QED
    BY <1>4, <1>8, <2>1 DEF Piped
<1>12. ASSUME NEW i \in 1 .. Len(t), NEW j \in 1 .. Len(t), i < j, t[i] \in Msg, t[j] \in Msg
       PROVE  Earlier(c, t[i], t[j])
  <2>1. i + 1 \in 1 .. Len(q) /\ j + 1 \in 1 .. Len(q) /\ i + 1 < j + 1
    BY <1>3, <1>12
  <2> QED
    BY <1>3, <1>5, <1>12, <2>1
<1>13. Upward(c)'
  <2>1. /\ \A x \in Passed(c)' : Among(sent'[c], x)
        /\ \A x \in Passed(c)', y \in Queued(c)' \cup InHand(c)' \cup Piped(c)' : Earlier(c, x, y)
        /\ \A x \in Queued(c)', y \in InHand(c)' \cup Piped(c)' : Earlier(c, x, y)
    BY <1>1, <1>2, <1>8, <1>9 DEF Upward
  <2>2. /\ \A i, j \in 1 .. Len(toRouter'[c]) :
              i < j => Earlier(c, toRouter'[c][i][2], toRouter'[c][j][2])
        /\ \A i, j \in 1 .. Len(pipe'[c]) :
              i < j /\ pipe'[c][i] \in Msg /\ pipe'[c][j] \in Msg => Earlier(c, pipe'[c][i], pipe'[c][j])
    BY <1>1, <1>2, <1>4, <1>12 DEF Upward
  <2> QED
    BY <1>2, <1>11, <2>1, <2>2 DEF Upward, Earlier
<1> QED
  BY <1>2, <1>6, <1>13, OrderElsewhere

\* The thread sends the frame in its hand on, behind what it sent before.
LEMMA ForwardOrder ==
    ASSUME Inv, Order, NEW c \in Client, Forward(c), UNCHANGED <<routerVars, routed>>
    PROVE  Order'
<1> DEFINE m == held[c]
           q == toRouter[c]
           r == Append(q, <<Delimiter, m>>)
<1>1. Typed /\ Flow(c) /\ Upward(c)
  BY DEF Inv, Order
<1>2. /\ poller[c] = "forwarding"
      /\ held' = [held EXCEPT ![c] = Nothing]
      /\ UNCHANGED <<sent, called, pipe, toClient, sealedSubs, dataTable, routed>>
  BY DEF Forward, userVars, routerVars
<1>3. held'[c] = Nothing /\ \A d \in Client \ {c} : held'[d] = held[d]
  BY <1>1, <1>2 DEF Typed
<1>4. Nothing \notin Msg /\ Delimiter \notin Msg
  BY FramesDistinct DEF Msg
<1>5. m \in {Delimiter} \cup Msg
  BY <1>1, <1>2 DEF Flow, HandFits, Typed, Frame
<1>6. Passed(c)' = Passed(c) /\ Piped(c)' = Piped(c) /\ InHand(c)' = {}
  BY <1>2, <1>3, <1>4 DEF Passed, Piped, InHand
<1>7. CASE m = Delimiter
  <2>1. toRouter' = toRouter
    BY <1>7 DEF Forward
  <2>2. Queued(c)' = Queued(c)
    BY <2>1 DEF Queued
  <2>3. Upward(c)'
    BY <1>1, <1>2, <1>6, <2>1, <2>2 DEF Upward, Earlier
  <2> QED
    BY <1>2, <1>3, <2>1, <2>3, OrderElsewhere
<1>8. CASE m \in Msg
  <2>1. parts[c] = <<Delimiter>> /\ m # Delimiter
    BY <1>1, <1>4, <1>8 DEF Flow, HandFits
  <2>2. toRouter' = [toRouter EXCEPT ![c] = Append(q, Append(<<Delimiter>>, m))]
    BY <2>1 DEF Forward
  <2>3. Append(<<Delimiter>>, m) = <<Delimiter, m>> /\ <<Delimiter, m>> \in Seq(Frame)
    BY <1>8, MessageFrames
  <2>4. q \in Seq(Seq(Frame)) /\ toRouter'[c] = r /\ \A d \in Client \ {c} : toRouter'[d] = toRouter[d]
    BY <1>1, <2>2, <2>3 DEF Typed
  <2>5. /\ Len(r) = Len(q) + 1 /\ Len(q) \in Nat
        /\ \A i \in 1 .. Len(q) : r[i] = q[i]
        /\ r[Len(q) + 1][2] = m
    BY <2>3, <2>4
  <2>6. \A i, j \in 1 .. Len(q) : i < j => Earlier(c, q[i][2], q[j][2])
    BY <1>1 DEF Upward
  <2>7. \A i \in 1 .. Len(q) : q[i][2] \in Queued(c)
    BY DEF Queued
  <2>8. m \in InHand(c)
    BY <1>8 DEF InHand
  <2> HIDE DEF m, q, r
  <2>9. \A i \in 1 .. Len(r) : i \in 1 .. Len(q) \/ i = Len(q) + 1
    BY <2>5
  <2>10. Queued(c)' \subseteq Queued(c) \cup {m}
    <3>1. SUFFICES ASSUME NEW i \in 1 .. Len(r)
                   PROVE  r[i][2] \in Queued(c) \cup {m}
      BY <2>4 DEF Queued
    <3> QED
      BY <2>5, <2>7, <2>9
  <2>11. ASSUME NEW i \in 1 .. Len(r), NEW j \in 1 .. Len(r), i < j
         PROVE  Earlier(c, r[i][2], r[j][2])
    <3>1. i \in 1 .. Len(q)
      BY <2>5, <2>11
    <3>2. CASE j \in 1 .. Len(q)
      BY <2>5, <2>6, <2>11, <3>1, <3>2
    <3>3. CASE j = Len(q) + 1
      BY <1>1, <2>5, <2>7, <2>8, <3>1, <3>3 DEF Upward
    <3> QED
      BY <2>9, <3>2, <3>3
  <2>12. Upward(c)'
    <3>1. /\ \A x \in Passed(c)' : Among(sent'[c], x)
          /\ \A x \in Passed(c)', y \in Queued(c)' \cup InHand(c)' \cup Piped(c)' : Earlier(c, x, y)
          /\ \A x \in Queued(c)', y \in InHand(c)' \cup Piped(c)' : Earlier(c, x, y)
          /\ \A x \in InHand(c)', y \in Piped(c)' : Earlier(c, x, y)
      BY <1>1, <1>2, <1>6, <2>8, <2>10 DEF Upward
    <3>2. /\ \A i, j \in 1 .. Len(toRouter'[c]) :
                i < j => Earlier(c, toRouter'[c][i][2], toRouter'[c][j][2])
          /\ \A i, j \in 1 .. Len(pipe'[c]) :
                i < j /\ pipe'[c][i] \in Msg /\ pipe'[c][j] \in Msg => Earlier(c, pipe'[c][i], pipe'[c][j])
      BY <1>1, <1>2, <2>4, <2>11 DEF Upward
    <3> QED
      BY <1>2, <3>1, <3>2 DEF Upward, Earlier
  <2> QED
    BY <1>2, <1>3, <2>4, <2>12, OrderElsewhere
<1> QED
  BY <1>5, <1>7, <1>8

\* What the socket drops as the thread ends is the end of its queue.
LEMMA ExitOrder ==
    ASSUME Inv, Order, NEW c \in Client, Exit(c), UNCHANGED <<routerVars, routed>>
    PROVE  Order'
<1> DEFINE q == toRouter[c]
           t == Tail(pipe[c])
<1>1. Typed /\ Upward(c) /\ Served
  BY DEF Inv, Order
<1>2. PICK k \in 0 .. Len(q) : toRouter' = [toRouter EXCEPT ![c] = SubSeq(q, 1, k)]
  BY DEF Exit, ConnectionClosed
<1>3. /\ pipe[c] # <<>> /\ toClient[c] = <<>>
      /\ pipe' = [pipe EXCEPT ![c] = t] /\ toClient' = [toClient EXCEPT ![c] = <<>>]
      /\ UNCHANGED <<sent, held, called, sealedSubs, dataTable, routed>>
  BY DEF Exit, ConnectionClosed, userVars, routerVars
<1>4. toClient' = toClient
  BY <1>1, <1>3 DEF Served, Queues
<1>5. /\ Len(t) = Len(pipe[c]) - 1 /\ Len(pipe[c]) \in Nat
      /\ \A i \in 1 .. Len(t) : t[i] = pipe[c][i + 1]
  <2>1. pipe[c] \in Seq(Frame)
    BY <1>1 DEF Typed
  <2> QED
    BY <1>3, <2>1
<1>6. Len(q) \in Nat /\ Len(SubSeq(q, 1, k)) = k /\ \A i \in 1 .. k : SubSeq(q, 1, k)[i] = q[i]
  <2>1. q \in Seq(Seq(Frame))
    BY <1>1 DEF Typed
  <2> QED
    BY <2>1
<1>7. /\ pipe'[c] = t /\ toRouter'[c] = SubSeq(q, 1, k)
      /\ \A d \in Client \ {c} : pipe'[d] = pipe[d] /\ toRouter'[d] = toRouter[d]
  BY <1>1, <1>2, <1>3 DEF Typed
<1> HIDE DEF t
<1>8. /\ \A i \in 1 .. Len(t) : i + 1 \in 1 .. Len(pipe[c])
      /\ \A i \in 1 .. k : i \in 1 .. Len(q)
  BY <1>5, <1>6
<1>9. Piped(c)' \subseteq Piped(c) /\ Queued(c)' \subseteq Queued(c)
  <2>1. ASSUME NEW i \in 1 .. Len(t), t[i] \in Msg
        PROVE  t[i] \in Piped(c)
    BY <1>5, <1>8, <2>1 DEF Piped
  <2>2. Piped(c)' \subseteq Piped(c)
    BY <1>7, <2>1 DEF Piped
  <2>3. ASSUME NEW i \in 1 .. k
        PROVE  SubSeq(q, 1, k)[i][2] \in Queued(c)
    BY <1>6, <1>8 DEF Queued
  <2>4. Queued(c)' \subseteq Queued(c)
    BY <1>6, <1>7, <2>3 DEF Queued
  <2> QED
    BY <2>2, <2>4
<1>10. InHand(c)' = InHand(c) /\ Passed(c)' = Passed(c)
  BY <1>3 DEF InHand, Passed
<1>11. \A i, j \in 1 .. Len(toRouter'[c]) :
          i < j => Earlier(c, toRouter'[c][i][2], toRouter'[c][j][2])
  BY <1>1, <1>6, <1>7, <1>8 DEF Upward
<1>12. ASSUME NEW i \in 1 .. Len(t), NEW j \in 1 .. Len(t), i < j, t[i] \in Msg, t[j] \in Msg
       PROVE  Earlier(c, t[i], t[j])
  <2>1. i + 1 \in 1 .. Len(pipe[c]) /\ j + 1 \in 1 .. Len(pipe[c]) /\ i + 1 < j + 1
    BY <1>8, <1>12
  <2> QED
    BY <1>1, <1>5, <1>12, <2>1 DEF Upward
<1>13. Upward(c)'
  <2>1. /\ \A x \in Passed(c)' : Among(sent'[c], x)
        /\ \A x \in Passed(c)', y \in Queued(c)' \cup InHand(c)' \cup Piped(c)' : Earlier(c, x, y)
        /\ \A x \in Queued(c)', y \in InHand(c)' \cup Piped(c)' : Earlier(c, x, y)
        /\ \A x \in InHand(c)', y \in Piped(c)' : Earlier(c, x, y)
    BY <1>1, <1>3, <1>9, <1>10 DEF Upward
  <2>2. \A i, j \in 1 .. Len(pipe'[c]) :
           i < j /\ pipe'[c][i] \in Msg /\ pipe'[c][j] \in Msg => Earlier(c, pipe'[c][i], pipe'[c][j])
    BY <1>7, <1>12
  <2> QED
    BY <1>3, <1>11, <2>1, <2>2 DEF Upward, Earlier
<1> QED
  BY <1>3, <1>4, <1>7, <1>13, OrderElsewhere

\* The order to stop is no message.
LEMMA TerminateOrder ==
    ASSUME Inv, Order, NEW c \in Client, Terminate(c), UNCHANGED <<routerVars, routed>>
    PROVE  Order'
<1> DEFINE q == pipe[c]
           r == q \o <<Die>>
<1>1. Typed /\ Flow(c) /\ q \in Seq(Frame) /\ Upward(c) /\ Die \notin Msg
  BY FramesDistinct DEF Inv, Typed, Order, Msg
<1>2. /\ user[c] = "idle" /\ pipe' = [pipe EXCEPT ![c] = r]
      /\ UNCHANGED <<sent, held, called, toRouter, toClient, sealedSubs, dataTable, routed>>
  BY DEF Terminate, Push, pollerVars, network, routerVars
<1>3. InStep(q) /\ NoOrder(q)
  BY <1>1, <1>2 DEF Flow, PipeFits
<1>4. /\ Len(r) = Len(q) + 1 /\ Len(q) \in Nat
      /\ \A i \in 1 .. Len(q) : r[i] = q[i]
      /\ r[Len(q) + 1] = Die
  BY <1>1, <1>3, InStepOrder
<1>5. pipe'[c] = r /\ \A d \in Client \ {c} : pipe'[d] = pipe[d]
  BY <1>1, <1>2 DEF Typed
<1> HIDE DEF r
<1>6. \A i \in 1 .. Len(r) : r[i] \in Msg => i \in 1 .. Len(q) /\ r[i] = q[i]
  BY <1>1, <1>4
<1>7. Piped(c)' \subseteq Piped(c)
  <2>1. SUFFICES ASSUME NEW i \in 1 .. Len(r), r[i] \in Msg
                 PROVE  r[i] \in Piped(c)
    BY <1>5 DEF Piped
  <2>2. i \in 1 .. Len(q) /\ r[i] = q[i]
    BY <1>6, <2>1
  <2> QED
    BY <2>1, <2>2 DEF Piped
<1>8. Queued(c)' = Queued(c) /\ InHand(c)' = InHand(c) /\ Passed(c)' = Passed(c)
  BY <1>2 DEF Queued, InHand, Passed
<1>9. Upward(c)'
  <2>1. /\ \A x \in Passed(c)' : Among(sent'[c], x)
        /\ \A x \in Passed(c)', y \in Queued(c)' \cup InHand(c)' \cup Piped(c)' : Earlier(c, x, y)
        /\ \A x \in Queued(c)', y \in InHand(c)' \cup Piped(c)' : Earlier(c, x, y)
        /\ \A x \in InHand(c)', y \in Piped(c)' : Earlier(c, x, y)
    BY <1>1, <1>2, <1>7, <1>8 DEF Upward
  <2>2. /\ \A i, j \in 1 .. Len(toRouter'[c]) :
              i < j => Earlier(c, toRouter'[c][i][2], toRouter'[c][j][2])
        /\ \A i, j \in 1 .. Len(pipe'[c]) :
              i < j /\ pipe'[c][i] \in Msg /\ pipe'[c][j] \in Msg => Earlier(c, pipe'[c][i], pipe'[c][j])
    BY <1>1, <1>2, <1>5, <1>6 DEF Upward
  <2> QED
    BY <1>2, <2>1, <2>2 DEF Upward, Earlier
<1> QED
  BY <1>2, <1>5, <1>9, OrderElsewhere

\* Downward, for a client whose queue becomes t and whose callbacks become r.
LEMMA DownwardBecomes ==
    ASSUME NEW c \in Client, NEW t, NEW r, toClient'[c] = t, called'[c] = r, UNCHANGED sent,
           \A n \in Note : Among(t, n) /\ n # Delimiter => Owner[n.hash] = c /\ n.payload \in routed',
           \A i \in 1 .. Len(r) : r[i][2] \in routed',
           \A i, j \in 1 .. Len(t) :
              i < j /\ t[i] # Delimiter /\ t[j] # Delimiter
              => InTurn(t[i].hash, t[i].payload, t[j].hash, t[j].payload),
           \A i \in 1 .. Len(r), j \in 1 .. Len(t) :
              t[j] # Delimiter => InTurn(r[i][1], r[i][2], t[j].hash, t[j].payload),
           \A i, j \in 1 .. Len(r) : i < j => InTurn(r[i][1], r[i][2], r[j][1], r[j][2])
    PROVE  Downward(c)'
<1>1. \A i, j \in 1 .. Len(toClient'[c]) :
          i < j /\ toClient'[c][i] # Delimiter /\ toClient'[c][j] # Delimiter
          => InTurn(toClient'[c][i].hash, toClient'[c][i].payload,
                    toClient'[c][j].hash, toClient'[c][j].payload)
  OBVIOUS
<1>2. \A i \in 1 .. Len(called'[c]), j \in 1 .. Len(toClient'[c]) :
          toClient'[c][j] # Delimiter
          => InTurn(called'[c][i][1], called'[c][i][2],
                    toClient'[c][j].hash, toClient'[c][j].payload)
  OBVIOUS
<1>3. \A i, j \in 1 .. Len(called'[c]) :
          i < j => InTurn(called'[c][i][1], called'[c][i][2], called'[c][j][1], called'[c][j][2])
  OBVIOUS
<1> QED
  BY <1>1, <1>2, <1>3 DEF Downward, InTurn, Earlier

\* A frame read from the router leads to a callback or to none: the callbacks
\* come in the order of the answers.
LEMMA PollOutsideOrder ==
    ASSUME Inv, Order, NEW c \in Client, PollOutside(c), UNCHANGED <<routerVars, routed>>
    PROVE  Order'
<1> DEFINE q == toClient[c]
           t == Tail(q)
           done == called[c]
           n == Head(q)
<1>1. Typed /\ Served /\ Downward(c)
  BY DEF Inv, Order
<1>2. q \in Seq(Answer) /\ done \in Seq(Sub \X Pub)
  BY <1>1 DEF Served, Queues
<1>3. /\ q # <<>> /\ toClient' = [toClient EXCEPT ![c] = t]
      /\ IF n = Delimiter THEN UNCHANGED <<called, missed>> ELSE CallBack(c, n)
      /\ UNCHANGED <<sent, held, pipe, toRouter, sealedSubs, dataTable, routed>>
  BY DEF PollOutside, userVars, routerVars
<1>4. /\ t \in Seq(Answer) /\ Len(t) = Len(q) - 1 /\ Len(q) \in Nat \ {0} /\ n = q[1]
      /\ \A i \in 1 .. Len(t) : t[i] = q[i + 1]
  BY <1>2, <1>3
<1>5. n \in Answer /\ (n # Delimiter => n \in Note)
  BY <1>2, <1>4 DEF Answer
<1>6. /\ toClient'[c] = t /\ toClient' \in Queues(Answer)
      /\ \A d \in Client \ {c} : toClient'[d] = toClient[d]
  BY <1>1, <1>3, <1>4 DEF Served, Queues
<1>7. \/ called' = called
      \/ n \in Note /\ n # Delimiter /\ called' = [called EXCEPT ![c] = Append(done, <<n.hash, n.payload>>)]
  BY <1>3, <1>5 DEF CallBack
<1>8. \A x, y : \A d : Earlier(d, x, y)' <=> Earlier(d, x, y)
  BY <1>3 DEF Earlier
<1> HIDE DEF t
<1>9. \A i \in 1 .. Len(t) : i + 1 \in 1 .. Len(q) /\ 1 < i + 1
  BY <1>4
<1>10. \A d \in Client : SentOnce(d)' /\ Upward(d)'
  <2>1. ASSUME NEW d \in Client
        PROVE  Passed(d)' = Passed(d)
    BY <1>3 DEF Passed
  <2>2. \A d \in Client : \A x : Among(sent[d], x) => Among(sent'[d], x)
    BY <1>3
  <2>3. \A d \in Client : Upward(d)'
    BY <1>3, <1>8, <2>1, <2>2, UpwardStays DEF Order
  <2> QED
    BY <1>3, <2>3 DEF Order, SentOnce
<1>11. /\ \A x \in Note : Among(t, x) /\ x # Delimiter => Owner[x.hash] = c /\ x.payload \in routed
       /\ \A i, j \in 1 .. Len(t) :
             i < j /\ t[i] # Delimiter /\ t[j] # Delimiter
             => InTurn(t[i].hash, t[i].payload, t[j].hash, t[j].payload)
       /\ \A i \in 1 .. Len(done), j \in 1 .. Len(t) :
             t[j] # Delimiter => InTurn(done[i][1], done[i][2], t[j].hash, t[j].payload)
  <2>1. ASSUME NEW x, Among(t, x)
        PROVE  Among(q, x)
    BY <1>4, <1>9, <2>1 DEF Among
  <2>2. \A x \in Note : Among(t, x) /\ x # Delimiter => Owner[x.hash] = c /\ x.payload \in routed
    BY <1>1, <2>1 DEF Downward
  <2>3. ASSUME NEW i \in 1 .. Len(t), NEW j \in 1 .. Len(t), i < j, t[i] # Delimiter, t[j] # Delimiter
        PROVE  InTurn(t[i].hash, t[i].payload, t[j].hash, t[j].payload)
    <3>1. i + 1 \in 1 .. Len(q) /\ j + 1 \in 1 .. Len(q) /\ i + 1 < j + 1
      BY <1>9, <2>3
    <3> QED
      BY <1>1, <1>4, <2>3, <3>1 DEF Downward
  <2>4. ASSUME NEW i \in 1 .. Len(done), NEW j \in 1 .. Len(t), t[j] # Delimiter
        PROVE  InTurn(done[i][1], done[i][2], t[j].hash, t[j].payload)
    BY <1>1, <1>4, <1>9, <2>4 DEF Downward
  <2> QED
    BY <2>2, <2>3, <2>4
<1>12. /\ \A i \in 1 .. Len(done) : done[i][2] \in routed
       /\ \A i, j \in 1 .. Len(done) : i < j => InTurn(done[i][1], done[i][2], done[j][1], done[j][2])
  BY <1>1 DEF Downward
<1>13. CASE called' = called
  <2>1. Served'
    BY <1>1, <1>3, <1>6, <1>13 DEF Served
  <2>2. Downward(c)'
    <3>1. called'[c] = done /\ routed' = routed
      BY <1>3, <1>13
    <3> HIDE DEF done, n, q
    <3> QED
      BY <1>3, <1>6, <1>11, <1>12, <3>1, DownwardBecomes
  <2>3. \A d \in Client \ {c} : Downward(d)'
    BY <1>1, <1>3, <1>6, <1>8, <1>13, DownwardStays DEF Order
  <2> QED
    BY <1>10, <2>1, <2>2, <2>3 DEF Order
<1>14. CASE n \in Note /\ n # Delimiter /\ called' = [called EXCEPT ![c] = Append(done, <<n.hash, n.payload>>)]
  <2> DEFINE r == Append(done, <<n.hash, n.payload>>)
  <2>1. <<n.hash, n.payload>> \in Sub \X Pub
    BY <1>14 DEF Note
  <2>2. /\ r \in Seq(Sub \X Pub) /\ Len(r) = Len(done) + 1 /\ Len(done) \in Nat
        /\ r[Len(done) + 1] = <<n.hash, n.payload>>
        /\ \A i \in 1 .. Len(done) : r[i] = done[i]
    BY <1>2, <2>1
  <2>3. /\ called' \in [Client -> Seq(Sub \X Pub)] /\ called'[c] = r
        /\ \A d \in Client \ {c} : called'[d] = called[d]
    BY <1>1, <1>14, <2>2 DEF Served
  <2>4. Served'
    BY <1>1, <1>3, <1>6, <2>3 DEF Served
  <2>5. \A d \in Client \ {c} : Downward(d)'
    BY <1>1, <1>3, <1>6, <1>8, <2>3, DownwardStays DEF Order
  <2>6. 1 \in 1 .. Len(q) /\ q[1] = n
    BY <1>4
  <2>7. n.payload \in routed
    BY <1>1, <1>14, <2>6 DEF Downward, Among
  <2>8. \A j \in 1 .. Len(t) : t[j] # Delimiter => InTurn(n.hash, n.payload, t[j].hash, t[j].payload)
    BY <1>1, <1>4, <1>9, <1>14, <2>6 DEF Downward
  <2>9. \A i \in 1 .. Len(done) : InTurn(done[i][1], done[i][2], n.hash, n.payload)
    BY <1>1, <1>14, <2>6 DEF Downward
  <2> HIDE DEF n, r, q, done
  <2>10. \A i \in 1 .. Len(r) :
            \/ i \in 1 .. Len(done) /\ r[i] = done[i]
            \/ i = Len(done) + 1 /\ r[i] = <<n.hash, n.payload>>
    BY <2>2
  <2>11. \A i \in 1 .. Len(r) : r[i][2] \in routed
    BY <1>12, <2>7, <2>10
  <2>12. ASSUME NEW i \in 1 .. Len(r), NEW j \in 1 .. Len(t), t[j] # Delimiter
         PROVE  InTurn(r[i][1], r[i][2], t[j].hash, t[j].payload)
    <3>1. CASE i \in 1 .. Len(done) /\ r[i] = done[i]
      BY <1>11, <2>12, <3>1
    <3>2. CASE r[i] = <<n.hash, n.payload>>
      <4>1. r[i][1] = n.hash /\ r[i][2] = n.payload
        BY <3>2
      <4> QED
        BY <2>8, <2>12, <4>1
    <3> QED
      BY <2>10, <3>1, <3>2
  <2>13. ASSUME NEW i \in 1 .. Len(r), NEW j \in 1 .. Len(r), i < j
         PROVE  InTurn(r[i][1], r[i][2], r[j][1], r[j][2])
    <3>1. i \in 1 .. Len(done) /\ r[i] = done[i]
      BY <2>2, <2>10, <2>13
    <3>2. CASE j \in 1 .. Len(done)
      BY <1>12, <2>2, <2>13, <3>1, <3>2
    <3>3. CASE r[j] = <<n.hash, n.payload>>
      BY <2>9, <3>1, <3>3
    <3> QED
      BY <2>10, <3>2, <3>3
  <2>14. Downward(c)'
    BY <1>3, <1>6, <1>11, <2>3, <2>11, <2>12, <2>13, DownwardBecomes
  <2> QED
    BY <1>10, <2>4, <2>5, <2>14 DEF Order
<1> QED
  BY <1>7, <1>13, <1>14

\* What the router does with the message it reads: it stores a subscription,
\* and sends a publication to the owners of those that match.
LEMMA RouterReads ==
    ASSUME Inv, Order, NEW c \in Client, RouterStep(c)
    PROVE  LET m == toRouter[c][1][2] IN
           /\ toRouter[c] # <<>> /\ m \in Msg /\ Among(sent[c], m) /\ m \in Queued(c)
           /\ routed' = routed \cup ({m} \cap Pub)
           /\ DOMAIN dataTable' = DOMAIN dataTable
           /\ \/ m \in Sub /\ sealedSubs' = sealedSubs \cup {m} /\ UNCHANGED toClient
              \/ /\ m \in Pub /\ sealedSubs' = sealedSubs
                 /\ \E order \in SetToSeqs({s \in sealedSubs : Matches(s, m)}) : \E ids, bodies :
                       /\ Len(ids) = Len(order)
                       /\ \A i \in 1 .. Len(order) :
                             ids[i] = Owner[order[i]] /\ bodies[i] = [hash |-> order[i], payload |-> m]
                       /\ toClient' = AfterSendingAll(toClient, ids, bodies)
<1> DEFINE q == toRouter[c]
           m == q[1][2]
           S == {s \in sealedSubs : Matches(s, m)}
<1>1. Typed /\ Served /\ Flow(c)
  BY DEF Inv, Order
<1>2. q \in Seq(Seq(Frame)) /\ q # <<>> /\ Head(q) = q[1] /\ Len(q) \in Nat \ {0}
  BY <1>1 DEF Typed, RouterStep, R!Receive
<1>3. 1 \in 1 .. Len(q)
  BY <1>2
<1>4. Among(sent[c], m) /\ m \in Queued(c)
  BY <1>1, <1>3 DEF Flow, Framed, WasSent, Among, Queued
<1>5. m \in Msg
  BY <1>1, <1>4 DEF Typed, Among
<1>6. R!PubsubMessage(m) /\ routed' = routed \cup ({m} \cap Pub)
  BY <1>2 DEF RouterStep, R!Receive
<1> HIDE DEF m
<1>7. R!EnclaveMatching(m)
  BY <1>5, <1>6, NeverEmpty DEF R!PubsubMessage, R!Message, Msg
<1>8. /\ dataTable' = [dataTable EXCEPT ![Header[m]] = m]
      /\ R!SealedSubscribe(m) \/ R!SealedPublish(m)
  BY <1>7 DEF R!EnclaveMatching, R!Remember
<1>9. DOMAIN dataTable' = DOMAIN dataTable /\ dataTable'[Header[m]] = m
  <2>1. Header[m] \in DOMAIN dataTable
    BY <1>1, <1>5, NeverEmpty DEF Served, R!Headers, R!Message, Msg
  <2> QED
    BY <1>8, <2>1
<1>10. CASE R!SealedSubscribe(m)
  BY <1>2, <1>4, <1>5, <1>6, <1>9, <1>10 DEF R!SealedSubscribe, m
<1>11. CASE R!SealedPublish(m)
  <2>1. m \in Pub /\ sealedSubs' = sealedSubs
    BY <1>11 DEF R!SealedPublish
  <2>2. R!MatchesIn(sealedSubs, m) = S
    BY DEF R!MatchesIn, Matches
  <2>3. \A T : R!SetToSeqs(T) = SetToSeqs(T)
    BY DEF R!SetToSeqs, SetToSeqs, R!Cardinality, Cardinality
  <2>4. PICK order \in SetToSeqs(S) :
           R!Forward([i \in 1 .. Len(order) |-> Owner[order[i]]], order, Header[m])
    BY <1>11, <2>2, <2>3 DEF R!SealedPublish
  <2> DEFINE ids == [i \in 1 .. Len(order) |-> Owner[order[i]]]
             bodies == [i \in 1 .. Len(ids) |-> [hash |-> order[i], payload |-> m]]
  <2>5. IsFiniteSet(S)
    BY <1>1, FS_Subset DEF Served
  <2> HIDE DEF S
  <2>6. Len(order) \in Nat
    BY <2>5, Enumerated
  <2>7. Len(ids) = Len(order)
    BY <2>6
  <2>8. toClient' = R!AfterSendingAll(toClient, ids, bodies)
    BY <1>9, <2>4 DEF R!Forward, R!SendAll
  <2>9. toClient' = AfterSendingAll(toClient, ids, bodies)
    BY <2>8 DEF R!AfterSendingAll, R!AfterSending, AfterSendingAll, AfterSending
  <2>10. \A i \in 1 .. Len(order) :
            ids[i] = Owner[order[i]] /\ bodies[i] = [hash |-> order[i], payload |-> m]
    BY <2>7
  <2> HIDE DEF ids, bodies
  <2> QED
    BY <1>2, <1>4, <1>5, <1>6, <1>9, <2>1, <2>7, <2>9, <2>10 DEF m, S
<1> QED
  BY <1>8, <1>10, <1>11

\* The router handles the earliest message that a client still has on its way.
LEMMA RouterUpward ==
    ASSUME Inv, Order, NEW c \in Client, RouterStep(c)
    PROVE  \A d \in Client : SentOnce(d)' /\ Upward(d)'
<1> DEFINE q == toRouter[c]
           m == q[1][2]
           t == Tail(q)
<1>1. Typed /\ SentOnce(c) /\ Upward(c)
  BY DEF Inv, Order
<1>2. q \in Seq(Seq(Frame)) /\ q # <<>>
  BY <1>1 DEF Typed, RouterStep, R!Receive
<1>3. /\ m \in Msg /\ Among(sent[c], m) /\ m \in Queued(c) /\ routed' = routed \cup ({m} \cap Pub)
  BY RouterReads
<1>4. toRouter' = [toRouter EXCEPT ![c] = t] /\ UNCHANGED <<sent, held, pipe>>
  BY DEF RouterStep, R!Receive, matcher, userVars, pollerVars
<1>5. /\ Len(t) = Len(q) - 1 /\ Len(q) \in Nat \ {0}
      /\ \A i \in 1 .. Len(t) : t[i] = q[i + 1]
  BY <1>2
<1>6. toRouter'[c] = t /\ \A d \in Client \ {c} : toRouter'[d] = toRouter[d]
  BY <1>1, <1>4 DEF Typed
<1>7. m \in Pub => Publisher[m] = c
  BY <1>1, <1>3 DEF SentOnce, Among
<1>8. \A d \in Client : \A x, y : Earlier(d, x, y)' <=> Earlier(d, x, y)
  BY <1>4 DEF Earlier
<1> HIDE DEF t, m
<1>9. \A i \in 1 .. Len(t) : 1 \in 1 .. Len(q) /\ i + 1 \in 1 .. Len(q) /\ 1 < i + 1
  BY <1>5
<1>10. \A i, j \in 1 .. Len(q) : i < j => Earlier(c, q[i][2], q[j][2])
  BY <1>1 DEF Upward
<1>11. \A i \in 1 .. Len(t) : Earlier(c, m, t[i][2])
  BY <1>5, <1>9, <1>10 DEF m
<1>12. ASSUME NEW i \in 1 .. Len(t), NEW j \in 1 .. Len(t), i < j
       PROVE  Earlier(c, t[i][2], t[j][2])
  <2>1. i + 1 \in 1 .. Len(q) /\ j + 1 \in 1 .. Len(q) /\ i + 1 < j + 1
    BY <1>5, <1>12
  <2> QED
    BY <1>5, <1>10, <2>1
<1>13. Passed(c)' \subseteq Passed(c) \cup {m}
  BY <1>3 DEF Passed
<1>14. \A d \in Client \ {c} : Passed(d)' = Passed(d)
  BY <1>3, <1>7 DEF Passed
<1>15. /\ Queued(c)' = {t[i][2] : i \in 1 .. Len(t)} /\ Queued(c)' \subseteq Queued(c)
       /\ InHand(c)' = InHand(c) /\ Piped(c)' = Piped(c)
  <2>1. Queued(c)' = {t[i][2] : i \in 1 .. Len(t)}
    BY <1>6 DEF Queued
  <2>2. ASSUME NEW i \in 1 .. Len(t)
        PROVE  t[i][2] \in Queued(c)
    BY <1>5, <1>9 DEF Queued
  <2>3. InHand(c)' = InHand(c) /\ Piped(c)' = Piped(c)
    BY <1>4 DEF InHand, Piped
  <2> QED
    BY <2>1, <2>2, <2>3
<1>16. Upward(c)'
  <2>1. /\ \A x \in Passed(c)' : Among(sent'[c], x)
        /\ \A x \in Passed(c)', y \in Queued(c)' \cup InHand(c)' \cup Piped(c)' : Earlier(c, x, y)
        /\ \A x \in Queued(c)', y \in InHand(c)' \cup Piped(c)' : Earlier(c, x, y)
        /\ \A x \in InHand(c)', y \in Piped(c)' : Earlier(c, x, y)
    BY <1>1, <1>3, <1>4, <1>11, <1>13, <1>15 DEF Upward
  <2>2. /\ \A i, j \in 1 .. Len(toRouter'[c]) :
              i < j => Earlier(c, toRouter'[c][i][2], toRouter'[c][j][2])
        /\ \A i, j \in 1 .. Len(pipe'[c]) :
              i < j /\ pipe'[c][i] \in Msg /\ pipe'[c][j] \in Msg => Earlier(c, pipe'[c][i], pipe'[c][j])
    BY <1>1, <1>4, <1>6, <1>12 DEF Upward
  <2> QED
    BY <1>4, <2>1, <2>2 DEF Upward, Earlier
<1>17. \A d \in Client \ {c} : Upward(d)'
  BY <1>4, <1>6, <1>8, <1>14, UpwardStays DEF Order
<1> QED
  BY <1>4, <1>16, <1>17 DEF Order, SentOnce

\* What a publication adds to the queue of a client: a notification of each
\* subscription of that client's that matches, once, unless it is dropped.
LEMMA RouterAnswers ==
    ASSUME Inv, Order, NEW c \in Client, RouterStep(c), NEW m, m = toRouter[c][1][2], m \in Pub
    PROVE  /\ sealedSubs' = sealedSubs
           /\ toClient' \in Queues(Answer)
           /\ \A d \in Client :
                 /\ Len(toClient[d]) \in Nat /\ Len(toClient'[d]) \in Nat
                 /\ Len(toClient[d]) <= Len(toClient'[d])
                 /\ \A k \in 1 .. Len(toClient[d]) : toClient'[d][k] = toClient[d][k]
                 /\ \A k \in Len(toClient[d]) + 1 .. Len(toClient'[d]) :
                       \/ toClient'[d][k] = Delimiter
                       \/ \E s \in sealedSubs :
                             /\ Matches(s, m) /\ Owner[s] = d
                             /\ toClient'[d][k] = [hash |-> s, payload |-> m]
                 /\ \A k, l \in Len(toClient[d]) + 1 .. Len(toClient'[d]) :
                       k # l /\ toClient'[d][k] # Delimiter => toClient'[d][k] # toClient'[d][l]
<1> DEFINE S == {s \in sealedSubs : Matches(s, m)}
<1>1. Served
  BY DEF Order
<1>2. /\ sealedSubs' = sealedSubs
      /\ \E order \in SetToSeqs(S) : \E ids, bodies :
            /\ Len(ids) = Len(order)
            /\ \A i \in 1 .. Len(order) :
                  ids[i] = Owner[order[i]] /\ bodies[i] = [hash |-> order[i], payload |-> m]
            /\ toClient' = AfterSendingAll(toClient, ids, bodies)
  BY RouterReads, MatcherAssumption
<1>3. IsFiniteSet(S) /\ S \subseteq Sub
  BY <1>1, FS_Subset DEF Served
<1>4. PICK order \in SetToSeqs(S) : \E ids, bodies :
            /\ Len(ids) = Len(order)
            /\ \A i \in 1 .. Len(order) :
                  ids[i] = Owner[order[i]] /\ bodies[i] = [hash |-> order[i], payload |-> m]
            /\ toClient' = AfterSendingAll(toClient, ids, bodies)
  BY <1>2
<1>5. PICK ids, bodies :
            /\ Len(ids) = Len(order)
            /\ \A i \in 1 .. Len(order) :
                  ids[i] = Owner[order[i]] /\ bodies[i] = [hash |-> order[i], payload |-> m]
            /\ toClient' = AfterSendingAll(toClient, ids, bodies)
  BY <1>4
<1>6. \A s \in S : s \in sealedSubs /\ Matches(s, m)
  OBVIOUS
<1> HIDE DEF S
<1>7. /\ Len(order) \in Nat /\ order \in [1 .. Len(order) -> S]
      /\ \A i, j \in 1 .. Len(order) : i # j => order[i] # order[j]
  BY <1>3, Enumerated
<1>8. ASSUME NEW i \in 1 .. Len(ids)
      PROVE  /\ i \in 1 .. Len(order) /\ order[i] \in S /\ order[i] \in Sub
             /\ ids[i] = Owner[order[i]] /\ ids[i] \in Client
             /\ bodies[i] = [hash |-> order[i], payload |-> m] /\ bodies[i] \in Answer
  <2>1. i \in 1 .. Len(order)
    BY <1>5
  <2>2. order[i] \in S /\ order[i] \in Sub
    BY <1>3, <1>7, <2>1
  <2>3. ids[i] = Owner[order[i]] /\ bodies[i] = [hash |-> order[i], payload |-> m]
    BY <1>5, <2>1
  <2>4. ids[i] \in Client
    BY <2>2, <2>3, MatcherAssumption
  <2>5. bodies[i] \in Answer
    BY <2>2, <2>3 DEF Answer, Note
  <2> QED
    BY <2>1, <2>2, <2>3, <2>4, <2>5
<1>9. ASSUME NEW i \in 1 .. Len(ids), NEW j \in 1 .. Len(ids), i # j
      PROVE  bodies[i] # bodies[j]
  <2>1. order[i] # order[j]
    BY <1>7, <1>8, <1>9
  <2>2. bodies[i] = [hash |-> order[i], payload |-> m] /\ bodies[j] = [hash |-> order[j], payload |-> m]
    BY <1>8
  <2> QED
    BY <2>1, <2>2
<1> DEFINE r == AfterSendingAll(toClient, ids, bodies)
<1>10. toClient \in Queues(Answer) /\ Delimiter \in Answer /\ Len(ids) \in Nat
  BY <1>1, <1>5, <1>7 DEF Served, Answer
<1>11. \A i \in 1 .. Len(ids) : ids[i] \in Client /\ bodies[i] \in Answer
  BY <1>8
<1>12. /\ r \in Queues(Answer)
       /\ \A d \in Client :
             /\ Len(toClient[d]) \in Nat /\ Len(r[d]) \in Nat /\ Len(toClient[d]) <= Len(r[d])
             /\ \A k \in 1 .. Len(toClient[d]) : r[d][k] = toClient[d][k]
             /\ \A k \in Len(toClient[d]) + 1 .. Len(r[d]) :
                   r[d][k] = Delimiter \/ \E j \in Turns(ids, d) : r[d][k] = bodies[j]
             /\ \A k, l \in Len(toClient[d]) + 1 .. Len(r[d]) :
                   k # l /\ r[d][k] # Delimiter => r[d][k] # r[d][l]
  <2>1. \A i, j \in 1 .. Len(ids) : i # j => bodies[i] # bodies[j]
    BY <1>9
  <2>2. AddedOnce(Answer, toClient, r, ids, bodies)
    BY <1>10, <1>11, <2>1, SendLoopOnce
  <2> HIDE DEF r
  <2> QED
    BY <2>2 DEF AddedOnce
<1> HIDE DEF r
<1>13. toClient' = r
  BY <1>5 DEF r
<1>14. ASSUME NEW d \in Client, NEW j \in Turns(ids, d)
       PROVE  \E s \in sealedSubs :
                 Matches(s, m) /\ Owner[s] = d /\ bodies[j] = [hash |-> s, payload |-> m]
  <2>1. j \in 1 .. Len(ids) /\ ids[j] = d
    BY DEF Turns
  <2> QED
    BY <1>6, <1>8, <2>1
<1> HIDE DEF Matches
<1>15. ASSUME NEW d \in Client, NEW k \in Len(toClient[d]) + 1 .. Len(r[d])
       PROVE  \/ r[d][k] = Delimiter
              \/ \E s \in sealedSubs :
                    Matches(s, m) /\ Owner[s] = d /\ r[d][k] = [hash |-> s, payload |-> m]
  <2>1. CASE r[d][k] # Delimiter
    <3>1. PICK j \in Turns(ids, d) : r[d][k] = bodies[j]
      BY <1>12, <2>1
    <3>2. PICK s \in sealedSubs :
             Matches(s, m) /\ Owner[s] = d /\ bodies[j] = [hash |-> s, payload |-> m]
      BY <1>14
    <3> QED
      BY <3>1, <3>2
  <2> QED
    BY <2>1
<1> QED
  BY <1>2, <1>12, <1>13, <1>15

\* Its answers go behind those to earlier publications.
LEMMA RouterOrder ==
    ASSUME Inv, Order, NEW c \in Client, RouterStep(c)
    PROVE  Order'
<1> DEFINE m == toRouter[c][1][2]
<1>1. Served /\ SentOnce(c) /\ Upward(c)
  BY DEF Order
<1>2. /\ m \in Msg /\ Among(sent[c], m) /\ m \in Queued(c)
      /\ routed' = routed \cup ({m} \cap Pub) /\ DOMAIN dataTable' = DOMAIN dataTable
  BY RouterReads
<1>3. UNCHANGED <<sent, called>>
  BY DEF RouterStep, matcher, userVars, pollerVars
<1>4. \A d \in Client : \A x, y : Earlier(d, x, y)' <=> Earlier(d, x, y)
  BY <1>3 DEF Earlier
<1>5. \A d \in Client : SentOnce(d)' /\ Upward(d)'
  BY RouterUpward
<1>6. routed' \subseteq Pub /\ routed \subseteq routed'
  BY <1>1, <1>2 DEF Served
<1>7. CASE m \in Sub /\ sealedSubs' = sealedSubs \cup {m} /\ UNCHANGED toClient
  <2>1. Served'
    BY <1>1, <1>2, <1>3, <1>6, <1>7, FS_AddElement DEF Served
  <2>2. \A d \in Client : Downward(d)'
    BY <1>1, <1>3, <1>4, <1>6, <1>7, DownwardStays DEF Order
  <2> QED
    BY <1>5, <2>1, <2>2 DEF Order
<1>8. CASE m \in Pub /\ sealedSubs' = sealedSubs
  <2>1. /\ toClient' \in Queues(Answer)
        /\ \A d \in Client :
              /\ Len(toClient[d]) \in Nat /\ Len(toClient'[d]) \in Nat
              /\ Len(toClient[d]) <= Len(toClient'[d])
              /\ \A k \in 1 .. Len(toClient[d]) : toClient'[d][k] = toClient[d][k]
              /\ \A k \in Len(toClient[d]) + 1 .. Len(toClient'[d]) :
                    \/ toClient'[d][k] = Delimiter
                    \/ \E s \in sealedSubs :
                          /\ Matches(s, m) /\ Owner[s] = d
                          /\ toClient'[d][k] = [hash |-> s, payload |-> m]
              /\ \A k, l \in Len(toClient[d]) + 1 .. Len(toClient'[d]) :
                    k # l /\ toClient'[d][k] # Delimiter => toClient'[d][k] # toClient'[d][l]
    BY <1>8, RouterAnswers
  <2> HIDE DEF m
  <2>2. Served'
    BY <1>1, <1>2, <1>3, <1>6, <1>8, <2>1 DEF Served
  <2>3. m \in routed' /\ Publisher[m] = c
    BY <1>1, <1>2, <1>8 DEF SentOnce, Among, m
  <2>4. ASSUME NEW p \in routed, Publisher[p] = c
         PROVE  Earlier(c, p, m)
    <3>1. p \in Passed(c)
      BY <2>4 DEF Passed
    <3> QED
      BY <1>1, <1>2, <3>1 DEF Upward, m
  <2>5. ASSUME NEW d \in Client
         PROVE  Downward(d)'
    <3> DEFINE u == toClient[d]
               t == toClient'[d]
               done == called[d]
               New(i) == i \in Len(u) + 1 .. Len(t)
    <3>1. Downward(d) /\ \A i \in 1 .. Len(u) : u[i] # Delimiter => u[i] \in Note
      BY <1>1 DEF Order, Served, Queues, Answer
    <3>2. /\ \A n \in Note : Among(u, n) /\ n # Delimiter => Owner[n.hash] = d /\ n.payload \in routed
          /\ \A i, j \in 1 .. Len(u) :
                i < j /\ u[i] # Delimiter /\ u[j] # Delimiter
                => InTurn(u[i].hash, u[i].payload, u[j].hash, u[j].payload)
          /\ \A i \in 1 .. Len(done) : done[i][2] \in routed
          /\ \A i \in 1 .. Len(done), j \in 1 .. Len(u) :
                u[j] # Delimiter => InTurn(done[i][1], done[i][2], u[j].hash, u[j].payload)
          /\ \A i, j \in 1 .. Len(done) : i < j => InTurn(done[i][1], done[i][2], done[j][1], done[j][2])
      BY <3>1 DEF Downward
    <3>3. /\ Len(u) \in Nat /\ Len(t) \in Nat /\ Len(u) <= Len(t)
          /\ \A i \in 1 .. Len(u) : t[i] = u[i]
          /\ \A i \in 1 .. Len(t) : i \in 1 .. Len(u) \/ New(i)
          /\ \A i, j \in 1 .. Len(t) : New(i) /\ i < j => New(j)
      BY <2>1
    <3>4. ASSUME NEW i \in 1 .. Len(t), New(i), t[i] # Delimiter
          PROVE  /\ t[i].payload = m /\ Owner[t[i].hash] = d
                 /\ t[i] = [hash |-> t[i].hash, payload |-> m]
      <4>1. i \in Len(toClient[d]) + 1 .. Len(toClient'[d]) /\ toClient'[d][i] # Delimiter
        BY <3>4
      <4>2. PICK s \in sealedSubs : /\ Matches(s, m) /\ Owner[s] = d
                                   /\ toClient'[d][i] = [hash |-> s, payload |-> m]
        BY <2>1, <4>1
      <4> QED
        BY <4>2
    <3>5. \A i, j \in 1 .. Len(t) : New(i) /\ New(j) /\ i # j /\ t[i] # Delimiter => t[i] # t[j]
      BY <2>1
    <3>6. \A i \in 1 .. Len(u) : u[i] # Delimiter => u[i].payload \in routed
      BY <3>1, <3>2 DEF Among
    <3> HIDE DEF u, t, done, New
    <3>7. ASSUME NEW n \in Note, Among(t, n), n # Delimiter
          PROVE  Owner[n.hash] = d /\ n.payload \in routed'
      <4>1. PICK i \in 1 .. Len(t) : t[i] = n
        BY <3>7 DEF Among
      <4>2. CASE i \in 1 .. Len(u)
        BY <1>6, <3>2, <3>3, <3>7, <4>1, <4>2 DEF Among
      <4>3. CASE New(i)
        BY <2>3, <3>4, <3>7, <4>1, <4>3
      <4> QED
        BY <3>3, <4>2, <4>3
    <3>8. ASSUME NEW x, NEW p \in routed, NEW y
          PROVE  InTurn(x, p, y, m)
      BY <2>3, <2>4 DEF InTurn
    <3>9. ASSUME NEW i \in 1 .. Len(t), NEW j \in 1 .. Len(t), i < j, t[i] # Delimiter, t[j] # Delimiter
          PROVE  InTurn(t[i].hash, t[i].payload, t[j].hash, t[j].payload)
      <4>1. CASE i \in 1 .. Len(u) /\ j \in 1 .. Len(u)
        BY <3>2, <3>3, <3>9, <4>1
      <4>2. CASE i \in 1 .. Len(u) /\ New(j)
        <5>1. t[i] = u[i] /\ t[i].payload \in routed /\ t[j].payload = m
          BY <3>3, <3>4, <3>6, <3>9, <4>2
        <5> QED
          BY <3>8, <5>1
      <4>3. CASE New(i) /\ New(j)
        <5>1. t[i] # t[j] /\ t[i] = [hash |-> t[i].hash, payload |-> m] /\ t[j] = [hash |-> t[j].hash, payload |-> m]
          BY <3>4, <3>5, <3>9, <4>3
        <5>2. t[i].hash # t[j].hash
          BY <5>1
        <5> QED
          BY <5>2 DEF InTurn
      <4> QED
        BY <3>3, <3>9, <4>1, <4>2, <4>3
    <3>10. ASSUME NEW i \in 1 .. Len(done), NEW j \in 1 .. Len(t), t[j] # Delimiter
           PROVE  InTurn(done[i][1], done[i][2], t[j].hash, t[j].payload)
      <4>1. CASE j \in 1 .. Len(u)
        BY <3>2, <3>3, <3>10, <4>1
      <4>2. CASE New(j)
        BY <3>2, <3>4, <3>8, <3>10, <4>2
      <4> QED
        BY <3>3, <4>1, <4>2
    <3>11. \A i \in 1 .. Len(done) : done[i][2] \in routed'
      BY <1>6, <3>2
    <3>12. toClient'[d] = t /\ called'[d] = done
      BY <1>3 DEF t, done
    <3> QED
      BY <1>3, <3>2, <3>7, <3>9, <3>10, <3>11, <3>12, DownwardBecomes
  <2> QED
    BY <1>5, <2>2, <2>5 DEF Order
<1> QED
  BY <1>7, <1>8, RouterReads

\* The other steps move no message.
LEMMA NothingSaid ==
    ASSUME Order,
           UNCHANGED <<sent, pipe, held, toRouter, toClient, called, sealedSubs, dataTable, routed>>
    PROVE  Order'
<1>1. Served'
  BY DEF Order, Served
<1>2. ASSUME NEW c \in Client
      PROVE  SentOnce(c)' /\ Upward(c)' /\ Downward(c)'
  <2>1. Passed(c)' = Passed(c)
    BY DEF Passed
  <2>2. \A d \in Client : \A x, y : Earlier(d, x, y) => Earlier(d, x, y)'
    BY DEF Earlier
  <2>3. Upward(c)'
    BY <2>1, <2>2, UpwardStays DEF Order
  <2>4. Downward(c)'
    BY <2>2, DownwardStays DEF Order
  <2> QED
    BY <2>3, <2>4 DEF Order, SentOnce
<1> QED
  BY <1>1, <1>2 DEF Order

LEMMA OrderStep == Inv /\ Order /\ [Next]_vars => Order'
<1> SUFFICES ASSUME Inv, Order, [Next]_vars
             PROVE  Order'
  OBVIOUS
<1>1. CASE UNCHANGED vars
  BY <1>1, NothingSaid DEF vars, matcher, userVars, pollerVars, network, routerVars
<1>2. ASSUME NEW c \in Client, UserStep(c), UNCHANGED <<routerVars, routed>>
      PROVE  Order'
  <2>1. CASE ConstructContext(c) \/ Construct(c) \/ BeginRegister(c) \/ EndRegister(c) \/ Joined(c)
    BY <1>2, <2>1, NothingSaid
       DEF ConstructContext, Construct, BeginRegister, EndRegister, Joined, userVars, pollerVars, network, routerVars
  <2>2. CASE Terminate(c)
    BY <1>2, <2>2, TerminateOrder
  <2>3. ASSUME NEW s \in Sub, SendSubscription(c, s)
        PROVE  Order'
    <3>1. /\ s \in Msg /\ s \notin Pub /\ Owner[s] = c /\ ~WasSent(c, s)
          /\ Push(c, <<Delimiter, s>>) /\ sent' = [sent EXCEPT ![c] = Append(@, s)]
          /\ UNCHANGED <<held, toRouter, toClient, called, sealedSubs, dataTable, routed>>
      BY <1>2, <2>3, MatcherAssumption
         DEF SendSubscription, SubsOf, Msg, pollerVars, network, routerVars
    <3> QED
      BY <3>1, SendOrder
  <2>4. ASSUME NEW p \in Pub, SendPublication(c, p)
        PROVE  Order'
    <3>1. /\ p \in Msg /\ p \notin Sub /\ Publisher[p] = c /\ ~WasSent(c, p)
          /\ Push(c, <<Delimiter, p>>) /\ sent' = [sent EXCEPT ![c] = Append(@, p)]
          /\ UNCHANGED <<held, toRouter, toClient, called, sealedSubs, dataTable, routed>>
      BY <1>2, <2>4, MatcherAssumption
         DEF SendPublication, PubsOf, Msg, pollerVars, network, routerVars
    <3> QED
      BY <3>1, SendOrder
  <2> QED
    BY <1>2, <2>1, <2>2, <2>3, <2>4 DEF UserStep
<1>3. ASSUME NEW c \in Client, PollerStep(c), UNCHANGED <<routerVars, routed>>
      PROVE  Order'
  <2>1. CASE OpenSockets(c)
    BY <1>3, <2>1, NothingSaid DEF OpenSockets, network, routerVars
  <2> QED
    BY <1>3, <2>1, PollOutsideOrder, PollInsideOrder, ForwardOrder, ExitOrder DEF PollerStep
<1>4. ASSUME NEW c \in Client, Connect(c), UNCHANGED <<routerVars, routed>>
      PROVE  Order'
  BY <1>4, NothingSaid DEF Connect, ConnectionUp, matcher, userVars, pollerVars, routerVars
<1>5. ASSUME NEW c \in Client, RouterStep(c)
      PROVE  Order'
  BY <1>5, RouterOrder
<1> QED
  BY <1>1, <1>2, <1>3, <1>4, <1>5 DEF Next, ClientStep

LEMMA OrderAlways == Spec => []Order
BY InvInit, InvStep, OrderInit, OrderStep, PTL DEF Spec

\* A message is sent at one place only.
LEMMA OnePosition ==
    ASSUME NEW c \in Client, SentOnce(c), NEW i \in 1 .. Len(sent[c]), NEW x, x = sent[c][i]
    PROVE  Position(sent[c], x) = i
BY DEF SentOnce, Position

\* The publications of one client reach a callback in the order in which they
\* were sent, through its pipe and its socket, the router's loop and the
\* subscriber's queue, whatever is dropped on the way.
THEOREM AlwaysInOrder == Spec => []CalledInOrder
<1>1. ASSUME Order, NEW c \in Client, NEW i \in 1 .. Len(called[c]), NEW j \in 1 .. Len(called[c]),
             i < j, called[c][i][1] = called[c][j][1],
             Publisher[called[c][i][2]] = Publisher[called[c][j][2]]
      PROVE  Position(sent[Publisher[called[c][i][2]]], called[c][i][2])
                < Position(sent[Publisher[called[c][j][2]]], called[c][j][2])
  <2> DEFINE p == called[c][i][2]
             q == called[c][j][2]
             d == Publisher[p]
  <2>1. p \in routed /\ p \in Pub
    BY <1>1 DEF Order, Downward, Served
  <2>2. d \in Client /\ SentOnce(d)
    BY <1>1, <2>1, MatcherAssumption DEF Order
  <2>3. Earlier(d, p, q)
    BY <1>1 DEF Order, Downward, InTurn
  <2>4. PICK k, l \in 1 .. Len(sent[d]) : k < l /\ sent[d][k] = p /\ sent[d][l] = q
    BY <2>3 DEF Earlier
  <2> HIDE DEF p, q, d
  <2>5. Position(sent[d], p) = k /\ Position(sent[d], q) = l
    BY <2>2, <2>4, OnePosition
  <2> QED
    BY <1>1, <2>4, <2>5 DEF p, q, d
<1>2. Order => CalledInOrder
  BY <1>1 DEF CalledInOrder
<1> QED
  BY <1>2, OrderAlways, PTL

-----------------------------------------------------------------------------
(* Clients and router implement the service.                               *)

\* The notifications in the queues, as pairs: what the service owes.
OwedIn(queues) ==
    {<<n.hash, n.payload>> :
       n \in UNION {{queues[c][i] : i \in 1 .. Len(queues[c])} \ {Delimiter} : c \in Client}}

LEMMA OwedElement ==
    ASSUME NEW queues, NEW x
    PROVE  x \in OwedIn(queues) <=>
             \E c \in Client : \E i \in 1 .. Len(queues[c]) :
                queues[c][i] # Delimiter /\ x = <<queues[c][i].hash, queues[c][i].payload>>
BY DEF OwedIn

\* The steps of the service, in terms of the queues.
LEMMA ServiceSteps ==
    /\ \A s \in Sub :
          /\ sealedSubs' = sealedSubs \cup {s}
          /\ UNCHANGED <<routed, toClient, called>>
          => Service!Next
    /\ \A p \in Pub :
          /\ p \notin routed /\ routed' = routed \cup {p}
          /\ OwedIn(toClient) \subseteq OwedIn(toClient')
          /\ \A x \in OwedIn(toClient') \ OwedIn(toClient) :
                \E s \in sealedSubs : Matches(s, p) /\ x = <<s, p>>
          /\ UNCHANGED <<sealedSubs, called>>
          => Service!Next
    /\ \A s \in Sub, p \in Pub :
          /\ <<s, p>> \in OwedIn(toClient)
          /\ OwedIn(toClient') = OwedIn(toClient) \ {<<s, p>>}
          /\ called' = [called EXCEPT ![Owner[s]] = Append(@, <<s, p>>)]
          /\ UNCHANGED <<sealedSubs, routed>>
          => Service!Next
    /\ /\ OwedIn(toClient') \subseteq OwedIn(toClient)
       /\ UNCHANGED <<sealedSubs, routed, called>>
       => Service!Next
<1>1. ASSUME NEW s \in Sub, sealedSubs' = sealedSubs \cup {s}, UNCHANGED <<routed, toClient, called>>
      PROVE  Service!Next
  <2>1. Service!Accept(s)
    BY <1>1 DEF Service!Accept
  <2> QED
    BY <2>1 DEF Service!Next
<1>2. ASSUME NEW p \in Pub, p \notin routed, routed' = routed \cup {p},
             OwedIn(toClient) \subseteq OwedIn(toClient'),
             \A x \in OwedIn(toClient') \ OwedIn(toClient) :
                \E s \in sealedSubs : Matches(s, p) /\ x = <<s, p>>,
             UNCHANGED <<sealedSubs, called>>
      PROVE  Service!Next
  <2> DEFINE kept == OwedIn(toClient') \ OwedIn(toClient)
             due == {<<s, p>> : s \in {t \in sealedSubs : Matches(t, p)}}
  <2>1. kept \in SUBSET due
    BY <1>2
  <2>2. OwedIn(toClient') = OwedIn(toClient) \cup kept
    BY <1>2
  <2> HIDE DEF kept
  <2>3. Service!Route(p)
    BY <1>2, <2>1, <2>2 DEF Service!Route, OwedIn
  <2> QED
    BY <2>3 DEF Service!Next
<1>3. ASSUME NEW s \in Sub, NEW p \in Pub, <<s, p>> \in OwedIn(toClient),
             OwedIn(toClient') = OwedIn(toClient) \ {<<s, p>>},
             called' = [called EXCEPT ![Owner[s]] = Append(@, <<s, p>>)],
             UNCHANGED <<sealedSubs, routed>>
      PROVE  Service!Next
  <2>1. Service!HandOver(s, p)
    BY <1>3 DEF Service!HandOver, OwedIn
  <2> QED
    BY <2>1 DEF Service!Next
<1>4. ASSUME OwedIn(toClient') \subseteq OwedIn(toClient), UNCHANGED <<sealedSubs, routed, called>>
      PROVE  Service!Next
  <2>1. OwedIn(toClient') \in SUBSET OwedIn(toClient)
    BY <1>4
  <2>2. Service!Lose
    BY <1>4, <2>1 DEF Service!Lose, OwedIn
  <2> QED
    BY <2>2 DEF Service!Next
<1> QED
  BY <1>1, <1>2, <1>3, <1>4

\* A subscription the router reads is accepted; a publication is routed, for
\* the first time, and what it adds to the queues is owed.
LEMMA RouterServes ==
    ASSUME Inv, Order, NEW c \in Client, RouterStep(c)
    PROVE  Service!Next
<1> DEFINE m == toRouter[c][1][2]
<1>1. /\ m \in Msg /\ Among(sent[c], m) /\ m \in Queued(c)
      /\ routed' = routed \cup ({m} \cap Pub)
      /\ \/ m \in Sub /\ sealedSubs' = sealedSubs \cup {m} /\ UNCHANGED toClient
         \/ m \in Pub
  BY RouterReads
<1>2. called' = called
  BY DEF RouterStep, matcher, pollerVars
<1>3. CASE m \in Sub /\ sealedSubs' = sealedSubs \cup {m} /\ UNCHANGED toClient
  <2>1. m \notin Pub
    BY <1>3, MatcherAssumption
  <2>2. routed' = routed
    BY <1>1, <2>1
  <2> QED
    BY <1>2, <1>3, <2>2, ServiceSteps
<1>4. CASE m \in Pub
  <2>1. /\ sealedSubs' = sealedSubs
        /\ \A d \in Client :
              /\ Len(toClient[d]) \in Nat /\ Len(toClient'[d]) \in Nat
              /\ Len(toClient[d]) <= Len(toClient'[d])
              /\ \A k \in 1 .. Len(toClient[d]) : toClient'[d][k] = toClient[d][k]
              /\ \A k \in Len(toClient[d]) + 1 .. Len(toClient'[d]) :
                    \/ toClient'[d][k] = Delimiter
                    \/ \E s \in sealedSubs :
                          /\ Matches(s, m) /\ Owner[s] = d
                          /\ toClient'[d][k] = [hash |-> s, payload |-> m]
    BY <1>4, RouterAnswers
  <2>2. SentOnce(c) /\ Upward(c)
    BY DEF Order
  <2>3. Publisher[m] = c
    BY <1>1, <1>4, <2>2 DEF SentOnce, Among
  <2>4. m \notin routed
    <3>1. m \in routed => Earlier(c, m, m)
      BY <1>1, <2>2, <2>3 DEF Upward, Passed
    <3> QED
      BY <2>2, <3>1, NotTwice
  <2> HIDE DEF m
  <2>5. routed' = routed \cup {m}
    BY <1>1, <1>4
  <2>6. ASSUME NEW x \in OwedIn(toClient)
        PROVE  x \in OwedIn(toClient')
    <3>1. PICK d \in Client : \E i \in 1 .. Len(toClient[d]) :
             toClient[d][i] # Delimiter /\ x = <<toClient[d][i].hash, toClient[d][i].payload>>
      BY OwedElement
    <3>2. PICK i \in 1 .. Len(toClient[d]) :
             toClient[d][i] # Delimiter /\ x = <<toClient[d][i].hash, toClient[d][i].payload>>
      BY <3>1
    <3>3. i \in 1 .. Len(toClient'[d]) /\ toClient'[d][i] = toClient[d][i]
      BY <2>1
    <3> QED
      BY <3>2, <3>3, OwedElement
  <2>7. ASSUME NEW x \in OwedIn(toClient') \ OwedIn(toClient)
        PROVE  \E s \in sealedSubs : Matches(s, m) /\ x = <<s, m>>
    <3>1. PICK d \in Client : \E i \in 1 .. Len(toClient'[d]) :
             toClient'[d][i] # Delimiter /\ x = <<toClient'[d][i].hash, toClient'[d][i].payload>>
      BY OwedElement
    <3>2. PICK i \in 1 .. Len(toClient'[d]) :
             toClient'[d][i] # Delimiter /\ x = <<toClient'[d][i].hash, toClient'[d][i].payload>>
      BY <3>1
    <3>3. i \in Len(toClient[d]) + 1 .. Len(toClient'[d])
      <4>1. CASE i \in 1 .. Len(toClient[d])
        <5>1. toClient'[d][i] = toClient[d][i]
          BY <2>1, <4>1
        <5> QED
          BY <2>7, <3>2, <4>1, <5>1, OwedElement
      <4> QED
        BY <2>1, <4>1
    <3>4. PICK s \in sealedSubs : /\ Matches(s, m) /\ Owner[s] = d
                                 /\ toClient'[d][i] = [hash |-> s, payload |-> m]
      BY <2>1, <3>2, <3>3
    <3> QED
      BY <3>2, <3>4
  <2> QED
    BY <1>2, <1>4, <2>1, <2>4, <2>5, <2>6, <2>7, ServiceSteps
<1> QED
  BY <1>1, <1>3, <1>4

\* A notification the polling thread reads is handed over, and was owed once,
\* or is lost.
LEMMA PollOutsideServes ==
    ASSUME Inv, Order, NEW c \in Client, PollOutside(c), UNCHANGED <<routerVars, routed>>
    PROVE  Service!Next
<1> DEFINE q == toClient[c]
           t == Tail(q)
           n == Head(q)
<1>1. Typed /\ Served /\ Downward(c)
  BY DEF Inv, Order
<1>2. q \in Seq(Answer) /\ q # <<>> /\ toClient' = [toClient EXCEPT ![c] = t]
      /\ UNCHANGED <<sealedSubs, routed>>
      /\ IF n = Delimiter THEN UNCHANGED <<called, missed>> ELSE CallBack(c, n)
  BY <1>1 DEF Served, Queues, PollOutside, routerVars
<1>3. /\ Len(t) = Len(q) - 1 /\ Len(q) \in Nat \ {0} /\ n = q[1]
      /\ \A i \in 1 .. Len(t) : t[i] = q[i + 1]
  BY <1>2
<1>4. toClient'[c] = t /\ \A d \in Client \ {c} : toClient'[d] = toClient[d]
  BY <1>1, <1>2 DEF Served, Queues
<1>5. 1 \in 1 .. Len(q) /\ \A i \in 1 .. Len(t) : i + 1 \in 1 .. Len(q) /\ 1 < i + 1
  BY <1>3
<1>6. \A i \in 1 .. Len(q) : i # 1 => i - 1 \in 1 .. Len(t) /\ t[i - 1] = q[i]
  BY <1>3
<1> HIDE DEF t, n
<1>7. ASSUME NEW x \in OwedIn(toClient')
      PROVE  x \in OwedIn(toClient)
  <2>1. PICK d \in Client : \E i \in 1 .. Len(toClient'[d]) :
           toClient'[d][i] # Delimiter /\ x = <<toClient'[d][i].hash, toClient'[d][i].payload>>
    BY OwedElement
  <2>2. PICK i \in 1 .. Len(toClient'[d]) :
           toClient'[d][i] # Delimiter /\ x = <<toClient'[d][i].hash, toClient'[d][i].payload>>
    BY <2>1
  <2>3. \E j \in 1 .. Len(toClient[d]) : toClient[d][j] = toClient'[d][i]
    BY <1>3, <1>4, <1>5
  <2> QED
    BY <2>2, <2>3, OwedElement
<1>8. CASE UNCHANGED called
  BY <1>2, <1>7, <1>8, ServiceSteps
<1>9. CASE n # Delimiter /\ called' = [called EXCEPT ![c] = Append(@, <<n.hash, n.payload>>)]
  <2> DEFINE s == n.hash
             p == n.payload
  <2>1. n \in Note
    BY <1>2, <1>3, <1>5, <1>9 DEF Answer
  <2>2. s \in Sub /\ p \in Pub
    BY <2>1 DEF Note
  <2>3. Owner[s] = c /\ p \in routed
    BY <1>1, <1>3, <1>5, <1>9, <2>1 DEF Downward, Among
  <2>4. <<s, p>> \in OwedIn(toClient)
    BY <1>3, <1>5, <1>9, OwedElement
  <2>5. ASSUME NEW x \in OwedIn(toClient), x # <<s, p>>
        PROVE  x \in OwedIn(toClient')
    <3>1. PICK d \in Client : \E i \in 1 .. Len(toClient[d]) :
             toClient[d][i] # Delimiter /\ x = <<toClient[d][i].hash, toClient[d][i].payload>>
      BY OwedElement
    <3>2. PICK i \in 1 .. Len(toClient[d]) :
             toClient[d][i] # Delimiter /\ x = <<toClient[d][i].hash, toClient[d][i].payload>>
      BY <3>1
    <3>3. \E j \in 1 .. Len(toClient'[d]) : toClient'[d][j] = toClient[d][i]
      <4>1. CASE d # c
        BY <1>4, <4>1
      <4>2. CASE d = c
        <5>1. i # 1
          BY <1>3, <2>5, <3>2, <4>2
        <5> QED
          BY <1>4, <1>6, <4>2, <5>1
      <4> QED
        BY <4>1, <4>2
    <3> QED
      BY <3>2, <3>3, OwedElement
  <2>6. <<s, p>> \notin OwedIn(toClient')
    <3>1. SUFFICES ASSUME <<s, p>> \in OwedIn(toClient')
                   PROVE  FALSE
      OBVIOUS
    <3>2. PICK d \in Client : \E i \in 1 .. Len(toClient'[d]) :
             toClient'[d][i] # Delimiter /\ <<s, p>> = <<toClient'[d][i].hash, toClient'[d][i].payload>>
      BY <3>1, OwedElement
    <3>3. PICK i \in 1 .. Len(toClient'[d]) :
             toClient'[d][i] # Delimiter /\ <<s, p>> = <<toClient'[d][i].hash, toClient'[d][i].payload>>
      BY <3>2
    <3>4. toClient'[d][i].hash = s /\ toClient'[d][i].payload = p
      BY <3>3
    <3>5. CASE d # c
      <4>1. toClient[d] \in Seq(Answer) /\ toClient'[d] = toClient[d] /\ Downward(d)
        BY <1>1, <1>4, <3>5 DEF Served, Queues, Order
      <4>2. toClient[d][i] \in Note
        BY <3>3, <4>1 DEF Answer
      <4>3. Owner[s] = d
        BY <3>3, <3>4, <4>1, <4>2 DEF Downward, Among
      <4> QED
        BY <2>3, <3>5, <4>3
    <3>6. CASE d = c
      <4>1. i + 1 \in 1 .. Len(q) /\ 1 < i + 1 /\ q[i + 1] = toClient'[d][i]
        BY <1>3, <1>4, <1>5, <3>6
      <4>2. InTurn(s, p, s, p)
        BY <1>1, <1>3, <1>5, <1>9, <3>3, <3>4, <4>1 DEF Downward
      <4>3. Publisher[p] \in Client
        BY <2>2, MatcherAssumption
      <4>4. SentOnce(Publisher[p]) /\ Earlier(Publisher[p], p, p)
        BY <4>2, <4>3 DEF Order, InTurn
      <4> QED
        BY <4>4, NotTwice
    <3> QED
      BY <3>5, <3>6
  <2> HIDE DEF s, p, q
  <2>7. OwedIn(toClient') = OwedIn(toClient) \ {<<s, p>>}
    BY <1>7, <2>5, <2>6
  <2>8. called' = [called EXCEPT ![Owner[s]] = Append(@, <<s, p>>)]
    BY <1>9, <2>3 DEF s, p
  <2> QED
    BY <1>2, <2>2, <2>4, <2>7, <2>8, ServiceSteps
<1> QED
  BY <1>2, <1>8, <1>9 DEF CallBack

\* For any number of clients, subscriptions and publications and any capacity
\* of the queues, every behaviour of clients, sockets and router is one of the
\* service: a callback runs for a publication that was routed after its
\* subscription was accepted and matches it, at the client that owns it, and
\* once at most.
THEOREM Implements == Spec => ImplementsPubSub
<1>1. Init => Service!Init
  <2> SUFFICES ASSUME Init
               PROVE  Service!Init
    OBVIOUS
  <2>1. /\ sealedSubs = {} /\ routed = {} /\ called = [c \in Client |-> <<>>]
        /\ toClient = [c \in Client |-> <<>>]
    BY DEF Init, MatcherInit, NetworkInit, R!RouterInit
  <2>2. \A x : x \notin OwedIn(toClient)
    BY <2>1, OwedElement
  <2>3. OwedIn(toClient) = {}
    BY <2>2
  <2> QED
    BY <2>1, <2>3 DEF Service!Init, OwedIn
<1>2. Inv /\ Order /\ [Next]_vars => [Service!Next]_(Service!vars)
  <2> SUFFICES ASSUME Inv, Order, [Next]_vars
               PROVE  Service!Next \/ UNCHANGED Service!vars
    OBVIOUS
  <2>1. UNCHANGED <<sealedSubs, routed, toClient, called>> => UNCHANGED Service!vars
    BY DEF Service!vars
  <2>2. CASE UNCHANGED vars
    BY <2>1, <2>2 DEF vars, matcher, pollerVars, network, routerVars
  <2>3. ASSUME NEW c \in Client, UserStep(c), UNCHANGED <<routerVars, routed>>
        PROVE  UNCHANGED Service!vars
    BY <2>1, <2>3 DEF UserStep, ConstructContext, Construct, BeginRegister, EndRegister, Terminate, Joined,
          SendSubscription, SendPublication, pollerVars, network, routerVars
  <2>4. ASSUME NEW c \in Client, PollerStep(c), UNCHANGED <<routerVars, routed>>
        PROVE  Service!Next \/ UNCHANGED Service!vars
    <3>1. CASE OpenSockets(c) \/ PollInside(c) \/ Forward(c)
      BY <2>1, <2>4, <3>1 DEF OpenSockets, PollInside, Forward, network, routerVars
    <3>2. CASE PollOutside(c)
      BY <2>4, <3>2, PollOutsideServes
    <3>3. CASE Exit(c)
      <4>1. toClient[c] = <<>> /\ toClient' = [toClient EXCEPT ![c] = <<>>] /\ UNCHANGED called
        BY <3>3 DEF Exit, ConnectionClosed
      <4>2. toClient' = toClient
        BY <4>1 DEF Order, Served, Queues
      <4> QED
        BY <2>1, <2>4, <4>1, <4>2 DEF routerVars
    <3> QED
      BY <2>4, <3>1, <3>2, <3>3 DEF PollerStep
  <2>5. ASSUME NEW c \in Client, Connect(c), UNCHANGED <<routerVars, routed>>
        PROVE  UNCHANGED Service!vars
    BY <2>1, <2>5 DEF Connect, ConnectionUp, matcher, pollerVars, routerVars
  <2>6. ASSUME NEW c \in Client, RouterStep(c)
        PROVE  Service!Next
    BY <2>6, RouterServes
  <2> QED
    BY <2>2, <2>3, <2>4, <2>5, <2>6 DEF Next, ClientStep
<1> QED
  BY <1>1, <1>2, InvAlways, OrderAlways, PTL DEF Spec, ImplementsPubSub, Service!Spec
=============================================================================
