------------------------- MODULE RedisPipelineProofs -------------------------
(***************************************************************************)
(* Proofs about RedisPipeline: replies meet their own commands, so that a  *)
(* request is let through only after every one of its buckets has counted  *)
(* it, in the database REDIS_URL names.                                    *)
(***************************************************************************)
EXTENDS RedisPipeline, TLAPS, SequenceTheorems

\* A reply on its way is for the oldest command in waiting, and so on: replies
\* that have come and commands that are not executed yet, one after the other,
\* are the commands in waiting.
Aligned ==
    IF sock = "up"
    THEN /\ conn \in 1..MaxConns
         /\ Len(awaiting) = Len(inbox) + Len(wire[conn])
         /\ \A i \in 1..Len(inbox) : inbox[i].cmd = awaiting[i]
         /\ \A i \in 1..Len(wire[conn]) : wire[conn][i] = awaiting[Len(inbox) + i]
    ELSE awaiting = <<>> /\ inbox = <<>>

\* The handshake goes first, and what it has answered was accepted.
GreetedFirst ==
    /\ \A i \in 1..Len(backlog) : backlog[i].op \in EpochOps
    /\ sock = "up" =>
         /\ remaining <= Len(awaiting)
         /\ \A i \in 1..remaining :
              awaiting[i].op = Handshake[Len(Handshake) - remaining + i]
         /\ \A i \in 1..Len(awaiting) : Critical(awaiting[i]) => i <= remaining
         /\ \A i \in 1..(Len(Handshake) - remaining) : Handshake[i] \in passed[conn]
         /\ \A i \in 1..Len(inbox) :
              Critical(inbox[i].cmd) /\ inbox[i].val # "error"
                => inbox[i].cmd.op \in passed[conn]

\* Limiter commands are on connections with a finished handshake only.
Placed ==
    /\ strays = {}
    /\ \A g \in 1..MaxConns : \A i \in 1..Len(wire[g]) :
         wire[g][i].op = "eval" => InDatabase(g)

\* A limiter command in waiting is the only one of its request, which waits for
\* it in the bucket the command counts.
Queued ==
    /\ \A i \in 1..Len(awaiting) :
         awaiting[i].op = "eval" => call[awaiting[i].call].at = "queued"
    /\ \A i, j \in 1..Len(awaiting) :
         /\ awaiting[i].op = "eval" /\ awaiting[j].op = "eval"
         /\ awaiting[i].call = awaiting[j].call
         => i = j

\* "free" is said by the script only, after the hit.
Honest(r) ==
    r.cmd.op = "eval" =>
        /\ r.val # "ok"
        /\ r.val = "free" => Hit(r.cmd) \in hits

Answers ==
    /\ \A i \in 1..Len(inbox) : Honest(inbox[i])
    /\ \A r \in due :
         /\ \A s \in due : s = r
         /\ Honest(r)
         /\ r.val # "error"
         /\ r.cmd.op = "eval" => call[r.cmd.call].at = "answered"

\* The buckets a request has behind it have counted it.
Counted ==
    \A c \in Calls :
        /\ \A b \in 1..(call[c].bucket - 1) : <<c, b>> \in hits
        /\ call[c].at = "admitted" /\ c \notin FailOpen
             => call[c].bucket = Buckets /\ <<c, Buckets>> \in hits

IInv == TypeOK /\ Aligned /\ GreetedFirst /\ Placed /\ Queued /\ Answers /\ Counted

-----------------------------------------------------------------------------
LEMMA InitIInv == ASSUME RedisAssumption PROVE Init => IInv
<1> SUFFICES ASSUME Init PROVE IInv
  OBVIOUS
<1>1. TypeOK
  <2>1. call \in [Calls -> CallRow]
    BY DEF Init, CallRow, RedisAssumption
  <2>2. Len(Handshake) \in Nat
    BY DEF RedisAssumption
  <2>3. /\ awaiting \in Seq(Command) /\ backlog \in Seq(Command)
        /\ inbox \in Seq(Reply)
        /\ wire \in [1..MaxConns -> Seq(Command)]
    BY DEF Init
  <2>4. MaxConns \in Nat /\ Losses \in Nat /\ Garbled \in Nat
    BY DEF RedisAssumption
  <2>5. passed \in [1..MaxConns -> SUBSET HandshakeOps]
    BY DEF Init
  <2>6. /\ hits \in SUBSET (Calls \X (1..Buckets))
        /\ strays \in SUBSET (Calls \X (1..Buckets))
        /\ due \in SUBSET Reply
        /\ lost \in SUBSET (1..MaxConns)
    BY DEF Init
  <2>7. sock \in {"none", "connecting", "up"} /\ cool \in BOOLEAN /\ closed \in BOOLEAN
    BY DEF Init
  <2>8. remaining \in 0..Len(Handshake)
    BY <2>2 DEF Init
  <2>9. /\ conn \in 0..MaxConns
        /\ run \in Nat \ {0}
        /\ stored \in Nat
        /\ marked \in Nat
        /\ losses \in 0..Losses
        /\ garbled \in 0..Garbled
    BY <2>4 DEF Init
  <2> QED
    BY <2>1, <2>3, <2>5, <2>6, <2>7, <2>8, <2>9 DEF TypeOK
<1>2. Aligned /\ GreetedFirst /\ Placed /\ Queued /\ Answers /\ Counted
  BY DEF Init, Aligned, GreetedFirst, Placed, Queued, Answers, Counted, RedisAssumption
<1> QED
  BY <1>1, <1>2 DEF IInv

\* push and flush: the new command is the youngest of its queue and, with a
\* socket, of the wire.
LEMMA SendQueues ==
  ASSUME RedisAssumption, TypeOK, Aligned, NEW cmd \in Command, Send(cmd),
         sock' = sock, UNCHANGED <<conn, inbox>>
  PROVE  /\ awaiting' \in Seq(Command)
         /\ backlog' \in Seq(Command)
         /\ wire' \in [1..MaxConns -> Seq(Command)]
         /\ Aligned'
         /\ sock = "up" =>
              /\ backlog' = backlog
              /\ Len(awaiting') = Len(awaiting) + 1
              /\ \A i \in 1..Len(awaiting) : awaiting'[i] = awaiting[i]
              /\ awaiting'[Len(awaiting) + 1] = cmd
         /\ sock # "up" =>
              /\ awaiting' = <<>>
              /\ wire' = wire
              /\ \A i \in 1..Len(backlog') :
                   backlog'[i] = cmd \/ (i \in 1..Len(backlog) /\ backlog'[i] = backlog[i])
         /\ \A g \in 1..MaxConns : \A i \in 1..Len(wire'[g]) :
              \/ i \in 1..Len(wire[g]) /\ wire'[g][i] = wire[g][i]
              \/ g = conn /\ sock = "up" /\ wire'[g][i] = cmd
<1>1. CASE sock = "up"
  <2>1. /\ awaiting' = Append(awaiting, cmd)
        /\ wire' = [wire EXCEPT ![conn] = Append(@, cmd)]
        /\ backlog' = backlog
    BY <1>1 DEF Send
  <2>2. conn \in 1..MaxConns /\ wire[conn] \in Seq(Command)
    BY <1>1 DEF Aligned, TypeOK
  <2>3. wire'[conn] = Append(wire[conn], cmd)
    BY <2>1, <2>2 DEF TypeOK
  <2>4. /\ awaiting' \in Seq(Command)
        /\ wire' \in [1..MaxConns -> Seq(Command)]
        /\ backlog' \in Seq(Command)
    BY <2>1, <2>2 DEF TypeOK
  <2>5. /\ Len(awaiting') = Len(awaiting) + 1
        /\ \A i \in 1..Len(awaiting) : awaiting'[i] = awaiting[i]
        /\ awaiting'[Len(awaiting) + 1] = cmd
    BY <2>1 DEF TypeOK
  <2>6. /\ Len(wire'[conn]) = Len(wire[conn]) + 1
        /\ \A i \in 1..Len(wire[conn]) : wire'[conn][i] = wire[conn][i]
        /\ wire'[conn][Len(wire[conn]) + 1] = cmd
    BY <2>2, <2>3
  <2>7. Aligned'
    <3>1. Len(awaiting) = Len(inbox) + Len(wire[conn])
      BY <1>1 DEF Aligned
    <3>2. Len(inbox) \in Nat /\ Len(wire[conn]) \in Nat
      BY <2>2 DEF TypeOK
    <3>3. \A i \in 1..Len(inbox) : inbox[i].cmd = awaiting'[i]
      <4>1. \A i \in 1..Len(inbox) : i \in 1..Len(awaiting) /\ inbox[i].cmd = awaiting[i]
        BY <1>1, <3>1, <3>2 DEF Aligned
      <4> QED
        BY <2>5, <4>1
    <3>4. \A i \in 1..Len(wire'[conn]) : wire'[conn][i] = awaiting'[Len(inbox) + i]
      <4> SUFFICES ASSUME NEW i \in 1..Len(wire'[conn])
                   PROVE  wire'[conn][i] = awaiting'[Len(inbox) + i]
        OBVIOUS
      <4>1. CASE i \in 1..Len(wire[conn])
        <5>1. Len(inbox) + i \in 1..Len(awaiting)
          BY <4>1, <3>1, <3>2
        <5> QED
          BY <4>1, <5>1, <1>1, <2>5, <2>6 DEF Aligned
      <4>2. CASE i = Len(wire[conn]) + 1
        <5>1. Len(inbox) + i = Len(awaiting) + 1
          BY <4>2, <3>1, <3>2
        <5> QED
          BY <4>2, <5>1, <2>5, <2>6
      <4> QED
        BY <4>1, <4>2, <2>6, <3>2
    <3> QED
      BY <1>1, <2>2, <2>5, <2>6, <3>1, <3>2, <3>3, <3>4 DEF Aligned
  <2>8. \A g \in 1..MaxConns : \A i \in 1..Len(wire'[g]) :
          \/ i \in 1..Len(wire[g]) /\ wire'[g][i] = wire[g][i]
          \/ g = conn /\ wire'[g][i] = cmd
    <3> SUFFICES ASSUME NEW g \in 1..MaxConns, NEW i \in 1..Len(wire'[g])
                 PROVE  \/ i \in 1..Len(wire[g]) /\ wire'[g][i] = wire[g][i]
                        \/ g = conn /\ wire'[g][i] = cmd
      OBVIOUS
    <3>1. CASE g # conn
      <4>1. wire'[g] = wire[g]
        BY <2>1, <3>1 DEF TypeOK
      <4> QED
        BY <4>1
    <3>2. CASE g = conn
      <4>1. Len(wire[conn]) \in Nat
        BY <2>2
      <4> QED
        BY <3>2, <4>1, <2>6
    <3> QED
      BY <3>1, <3>2
  <2> QED
    BY <1>1, <2>1, <2>4, <2>5, <2>7, <2>8
<1>2. CASE sock # "up"
  <2>1. backlog' = Append(backlog, cmd) /\ awaiting' = awaiting /\ wire' = wire
    BY <1>2 DEF Send
  <2>2. \A i \in 1..Len(backlog') :
          backlog'[i] = cmd \/ (i \in 1..Len(backlog) /\ backlog'[i] = backlog[i])
    BY <2>1 DEF TypeOK
  <2>3. awaiting = <<>> /\ inbox = <<>>
    BY <1>2 DEF Aligned
  <2> QED
    BY <1>2, <2>1, <2>2, <2>3 DEF Aligned, TypeOK
<1> QED
  BY <1>1, <1>2

\* Neither order nor place of the handshake is disturbed by a new command, when
\* one of a limiter is queued after the handshake only.
LEMMA SendGreets ==
  ASSUME RedisAssumption, TypeOK, Aligned, GreetedFirst, Placed,
         NEW cmd \in Command, cmd.op \in EpochOps \cup {"eval"},
         cmd.op = "eval" => sock = "up" /\ remaining = 0,
         Send(cmd), sock' = sock, UNCHANGED <<conn, inbox, remaining, passed, strays>>
  PROVE  GreetedFirst' /\ Placed'
<1>1. ~Critical(cmd)
  BY DEF Critical, EpochOps, HandshakeOps
<1>2. GreetedFirst'
  <2>1. CASE sock = "up"
    <3>1. /\ backlog' = backlog
          /\ Len(awaiting') = Len(awaiting) + 1
          /\ \A i \in 1..Len(awaiting) : awaiting'[i] = awaiting[i]
          /\ awaiting'[Len(awaiting) + 1] = cmd
      BY <2>1, SendQueues
    <3>2. Len(awaiting) \in Nat /\ remaining \in Nat
      BY DEF TypeOK, RedisAssumption
    <3>3. \A i \in 1..remaining : awaiting'[i].op = Handshake[Len(Handshake) - remaining + i]
      <4> SUFFICES ASSUME NEW i \in 1..remaining
                   PROVE  awaiting'[i].op = Handshake[Len(Handshake) - remaining + i]
        OBVIOUS
      <4>1. i \in 1..Len(awaiting)
        BY <2>1, <3>2 DEF GreetedFirst
      <4> QED
        BY <2>1, <3>1, <4>1 DEF GreetedFirst
    <3>4. \A i \in 1..Len(awaiting') : Critical(awaiting'[i]) => i <= remaining
      <4> SUFFICES ASSUME NEW i \in 1..Len(awaiting'), Critical(awaiting'[i])
                   PROVE  i <= remaining
        OBVIOUS
      <4>1. i # Len(awaiting) + 1
        BY <1>1, <3>1
      <4>2. i \in 1..Len(awaiting)
        BY <4>1, <3>1, <3>2
      <4> QED
        BY <2>1, <3>1, <4>2 DEF GreetedFirst
    <3>5. \A i \in 1..(Len(Handshake) - remaining) : Handshake[i] \in passed[conn]
      BY <2>1 DEF GreetedFirst
    <3>6. \A i \in 1..Len(inbox) :
            Critical(inbox[i].cmd) /\ inbox[i].val # "error"
              => inbox[i].cmd.op \in passed[conn]
      BY <2>1 DEF GreetedFirst
    <3>7. remaining <= Len(awaiting')
      BY <2>1, <3>1, <3>2 DEF GreetedFirst
    <3>8. \A i \in 1..Len(backlog) : backlog[i].op \in EpochOps
      BY DEF GreetedFirst
    <3> QED
      BY <3>1, <3>3, <3>4, <3>5, <3>6, <3>7, <3>8 DEF GreetedFirst, Critical
  <2>2. CASE sock # "up"
    <3>1. \A i \in 1..Len(backlog') :
            backlog'[i] = cmd \/ (i \in 1..Len(backlog) /\ backlog'[i] = backlog[i])
      BY <2>2, SendQueues
    <3>2. cmd.op \in EpochOps
      BY <2>2
    <3> QED
      BY <2>2, <3>1, <3>2 DEF GreetedFirst
  <2> QED
    BY <2>1, <2>2
<1>3. Placed'
  <2>1. cmd.op = "eval" => InDatabase(conn)
    <3> SUFFICES ASSUME cmd.op = "eval" PROVE InDatabase(conn)
      OBVIOUS
    <3>1. \A i \in 1..Len(Handshake) : Handshake[i] \in passed[conn]
      BY DEF GreetedFirst, RedisAssumption
    <3> QED
      BY <3>1 DEF InDatabase, Asked
  <2>2. \A g \in 1..MaxConns : \A i \in 1..Len(wire'[g]) :
          \/ i \in 1..Len(wire[g]) /\ wire'[g][i] = wire[g][i]
          \/ g = conn /\ wire'[g][i] = cmd
    BY SendQueues
  <2>3. \A g \in 1..MaxConns : \A i \in 1..Len(wire'[g]) :
          wire'[g][i].op = "eval" => InDatabase(g)
    BY <2>1, <2>2 DEF Placed
  <2> QED
    BY <2>3 DEF Placed, InDatabase
<1> QED
  BY <1>2, <1>3

\* The commands of the epoch check: no request is concerned.
LEMMA EpochSend ==
  ASSUME RedisAssumption, IInv, NEW cmd \in Command, cmd.op \in EpochOps,
         Send(cmd), due' = {}, UNCHANGED <<sock, call>>,
         UNCHANGED <<remaining, cool, closed, conn, inbox, server, garbled>>
  PROVE  IInv'
<1> USE DEF server
<1>1. cmd.op # "eval"
  BY DEF EpochOps
<1>2. Aligned'
  BY SendQueues DEF IInv
<1>3. GreetedFirst' /\ Placed'
  BY <1>1, SendGreets DEF IInv
<1>4. /\ awaiting' \in Seq(Command)
      /\ backlog' \in Seq(Command)
      /\ wire' \in [1..MaxConns -> Seq(Command)]
  BY SendQueues DEF IInv
<1>5. TypeOK'
  BY <1>4 DEF IInv, TypeOK
<1>6. \A i \in 1..Len(awaiting') :
        awaiting'[i].op = "eval" => i \in 1..Len(awaiting) /\ awaiting'[i] = awaiting[i]
  <2>1. CASE sock = "up"
    <3>1. /\ Len(awaiting') = Len(awaiting) + 1
          /\ \A i \in 1..Len(awaiting) : awaiting'[i] = awaiting[i]
          /\ awaiting'[Len(awaiting) + 1] = cmd
      BY <2>1, SendQueues DEF IInv
    <3>2. Len(awaiting) \in Nat
      BY DEF IInv, TypeOK
    <3> QED
      BY <1>1, <3>1, <3>2
  <2>2. CASE sock # "up"
    <3>1. awaiting' = <<>>
      BY <2>2, SendQueues DEF IInv
    <3> QED
      BY <3>1
  <2> QED
    BY <2>1, <2>2
<1>7. Queued'
  <2>1. \A i \in 1..Len(awaiting') :
          awaiting'[i].op = "eval" => call'[awaiting'[i].call].at = "queued"
    BY <1>6 DEF IInv, Queued
  <2>2. ASSUME NEW i \in 1..Len(awaiting'), NEW j \in 1..Len(awaiting'),
               awaiting'[i].op = "eval", awaiting'[j].op = "eval",
               awaiting'[i].call = awaiting'[j].call
        PROVE  i = j
    <3>1. /\ i \in 1..Len(awaiting) /\ awaiting'[i] = awaiting[i]
          /\ j \in 1..Len(awaiting) /\ awaiting'[j] = awaiting[j]
      BY <1>6, <2>2
    <3> QED
      BY <2>2, <3>1 DEF IInv, Queued
  <2> QED
    BY <2>1, <2>2 DEF Queued
<1>8. Answers' /\ Counted'
  BY DEF IInv, Answers, Counted, Honest, Hit
<1> QED
  BY <1>2, <1>3, <1>5, <1>7, <1>8 DEF IInv

\* The command of a request that has waited in no queue before.
LEMMA LimiterSend ==
  ASSUME RedisAssumption, IInv, NEW c \in Calls, NEW b \in 1..Buckets,
         call[c].at # "queued",
         \A d \in 1..(b - 1) : <<c, d>> \in hits,
         sock = "up", remaining = 0,
         call' = [call EXCEPT ![c] = [at |-> "queued", bucket |-> b]],
         Send(Cmd("eval", c, 0)), due' = {}, sock' = sock,
         UNCHANGED <<remaining, cool, closed, conn, inbox, server, garbled>>
  PROVE  IInv'
<1> USE DEF server
<1> DEFINE cmd == Cmd("eval", c, 0)
<1>1. cmd \in Command /\ cmd.op = "eval" /\ cmd.call = c
  BY DEF Cmd, Command
<1>2. Send(cmd)
  OBVIOUS
<1> HIDE DEF cmd
<1>3. Aligned'
  BY <1>1, <1>2, SendQueues DEF IInv
<1>4. GreetedFirst' /\ Placed'
  BY <1>1, <1>2, SendGreets DEF IInv
<1>5. /\ awaiting' \in Seq(Command)
      /\ backlog' \in Seq(Command)
      /\ wire' \in [1..MaxConns -> Seq(Command)]
  BY <1>1, <1>2, SendQueues DEF IInv
<1>6. call' \in [Calls -> CallRow]
  BY DEF IInv, TypeOK, CallRow
<1>7. TypeOK'
  BY <1>5, <1>6 DEF IInv, TypeOK
<1>8. /\ Len(awaiting') = Len(awaiting) + 1
      /\ \A i \in 1..Len(awaiting) : awaiting'[i] = awaiting[i]
      /\ awaiting'[Len(awaiting) + 1] = cmd
  BY <1>1, <1>2, SendQueues DEF IInv
<1>9. Len(awaiting) \in Nat
  BY DEF IInv, TypeOK
<1>10. \A i \in 1..Len(awaiting) :
         awaiting[i].op = "eval" => awaiting[i].call \in Calls /\ awaiting[i].call # c
  <2> SUFFICES ASSUME NEW i \in 1..Len(awaiting), awaiting[i].op = "eval"
               PROVE  awaiting[i].call \in Calls /\ awaiting[i].call # c
    OBVIOUS
  <2>1. awaiting[i] \in Command
    BY DEF IInv, TypeOK
  <2>2. awaiting[i].call \in Calls
    BY <2>1 DEF Command, HandshakeOps, EpochOps
  <2>3. call[awaiting[i].call].at = "queued"
    BY DEF IInv, Queued
  <2> QED
    BY <2>2, <2>3
<1>11. /\ call'[c] = [at |-> "queued", bucket |-> b]
       /\ \A d \in Calls : d # c => call'[d] = call[d]
  BY DEF IInv, TypeOK
<1>12. Queued'
  <2>1. \A i \in 1..Len(awaiting') :
          awaiting'[i].op = "eval" => call'[awaiting'[i].call].at = "queued"
    <3> SUFFICES ASSUME NEW i \in 1..Len(awaiting'), awaiting'[i].op = "eval"
                 PROVE  call'[awaiting'[i].call].at = "queued"
      OBVIOUS
    <3>1. CASE i \in 1..Len(awaiting)
      BY <3>1, <1>8, <1>10, <1>11 DEF IInv, Queued
    <3>2. CASE i = Len(awaiting) + 1
      BY <3>2, <1>1, <1>8, <1>11
    <3> QED
      BY <3>1, <3>2, <1>8, <1>9
  <2>2. \A i, j \in 1..Len(awaiting') :
          /\ awaiting'[i].op = "eval" /\ awaiting'[j].op = "eval"
          /\ awaiting'[i].call = awaiting'[j].call
          => i = j
    <3> SUFFICES ASSUME NEW i \in 1..Len(awaiting'), NEW j \in 1..Len(awaiting'),
                        awaiting'[i].op = "eval", awaiting'[j].op = "eval",
                        awaiting'[i].call = awaiting'[j].call
                 PROVE  i = j
      OBVIOUS
    <3>1. CASE i \in 1..Len(awaiting) /\ j \in 1..Len(awaiting)
      BY <3>1, <1>8 DEF IInv, Queued
    <3>2. CASE i \in 1..Len(awaiting) /\ j = Len(awaiting) + 1
      BY <3>2, <1>1, <1>8, <1>10
    <3>3. CASE j \in 1..Len(awaiting) /\ i = Len(awaiting) + 1
      BY <3>3, <1>1, <1>8, <1>10
    <3> QED
      BY <3>1, <3>2, <3>3, <1>8, <1>9
  <2> QED
    BY <2>1, <2>2 DEF Queued
<1>13. Answers'
  <2> SUFFICES ASSUME NEW i \in 1..Len(inbox) PROVE Honest(inbox[i])'
    BY DEF Answers
  <2> SUFFICES ASSUME inbox[i].cmd.op = "eval"
               PROVE  inbox[i].val # "ok" /\ (inbox[i].val = "free" => Hit(inbox[i].cmd)' \in hits)
    BY DEF Honest
  <2>1. Honest(inbox[i])
    BY DEF IInv, Answers
  <2>2. i \in 1..Len(awaiting) /\ inbox[i].cmd = awaiting[i]
    <3>1. Len(wire[conn]) \in Nat /\ Len(inbox) \in Nat
      BY DEF IInv, TypeOK, Aligned
    <3> QED
      BY <3>1 DEF IInv, Aligned
  <2>3. inbox[i].cmd.call \in Calls /\ inbox[i].cmd.call # c
    BY <2>2, <1>10
  <2>4. Hit(inbox[i].cmd)' = Hit(inbox[i].cmd)
    BY <2>3, <1>11 DEF Hit
  <2> QED
    BY <2>1, <2>4 DEF Honest
<1>14. Counted'
  BY <1>11 DEF IInv, Counted
<1> QED
  BY <1>3, <1>4, <1>7, <1>12, <1>13, <1>14 DEF IInv

\* The catch of the limiter ends some requests and leaves their bucket alone.
LEMMA DeniedRows ==
  ASSUME call \in [Calls -> CallRow], NEW C
  PROVE  /\ Denied(C) \in [Calls -> CallRow]
         /\ \A c \in Calls :
              /\ c \notin C => Denied(C)[c] = call[c]
              /\ c \in C => /\ Denied(C)[c].at = Denial(c)
                           /\ Denied(C)[c].bucket = call[c].bucket
<1>1. ASSUME NEW c \in Calls, c \in C
      PROVE  /\ Denied(C)[c] \in CallRow
             /\ Denied(C)[c].at = Denial(c)
             /\ Denied(C)[c].bucket = call[c].bucket
  <2>1. Denied(C)[c] = [call[c] EXCEPT !.at = Denial(c)]
    BY <1>1 DEF Denied
  <2>2. call[c] \in CallRow
    OBVIOUS
  <2>3. Denial(c) \in Final
    BY DEF Denial, Final
  <2> QED
    BY <2>1, <2>2, <2>3 DEF CallRow
<1>2. ASSUME NEW c \in Calls, c \notin C PROVE Denied(C)[c] = call[c]
  BY <1>2 DEF Denied
<1>3. \A c \in Calls : Denied(C)[c] \in CallRow
  BY <1>1, <1>2
<1>4. Denied(C) \in [Calls -> CallRow]
  BY <1>3 DEF Denied
<1> QED
  BY <1>1, <1>2, <1>4

\* A request denied is let through by a limiter that fails open only.
LEMMA DeniedCounted ==
  ASSUME TypeOK, Counted, NEW C, call' = Denied(C), UNCHANGED hits
  PROVE  Counted'
<1> SUFFICES ASSUME NEW c \in Calls
             PROVE  /\ \A b \in 1..(call'[c].bucket - 1) : <<c, b>> \in hits
                    /\ call'[c].at = "admitted" /\ c \notin FailOpen
                         => call'[c].bucket = Buckets /\ <<c, Buckets>> \in hits
  BY DEF Counted
<1>1. call \in [Calls -> CallRow]
  BY DEF TypeOK
<1>2. CASE c \notin C
  <2>1. call'[c] = call[c]
    BY <1>1, <1>2, DeniedRows
  <2> QED
    BY <2>1 DEF Counted
<1>3. CASE c \in C
  <2>1. call'[c].at = Denial(c) /\ call'[c].bucket = call[c].bucket
    BY <1>1, <1>3, DeniedRows
  <2> QED
    BY <2>1 DEF Counted, Denial
<1> QED
  BY <1>2, <1>3

\* Whatever resets the pipeline leaves no queue behind.
LEMMA FailPendingKeeps ==
  ASSUME RedisAssumption, IInv, FailPending,
         sock' = IF sock = "up" THEN "none" ELSE sock, inbox' = <<>>, cool' \in BOOLEAN,
         closed' \in BOOLEAN, garbled' \in 0..Garbled,
         UNCHANGED <<remaining, due, conn, wire, server>>
  PROVE  IInv'
<1> USE DEF server
<1>1. awaiting' = <<>> /\ backlog' = <<>> /\ sock' # "up"
  BY DEF FailPending
<1>2. call' = Denied(At({"queued", "ready"})) /\ call \in [Calls -> CallRow]
  BY DEF FailPending, IInv, TypeOK
<1>3. call' \in [Calls -> CallRow]
  BY <1>2, DeniedRows
<1>4. TypeOK'
  <2>1. awaiting' \in Seq(Command) /\ backlog' \in Seq(Command) /\ inbox' \in Seq(Reply)
    BY <1>1
  <2>2. sock' \in {"none", "connecting", "up"}
    BY DEF IInv, TypeOK
  <2> QED
    BY <1>3, <2>1, <2>2 DEF IInv, TypeOK
<1>5. Aligned' /\ GreetedFirst' /\ Queued'
  BY <1>1 DEF Aligned, GreetedFirst, Queued
<1>6. Placed'
  BY DEF IInv, Placed, InDatabase
<1>7. \A r \in due : r.cmd.op = "eval" =>
        r.cmd.call \in Calls /\ call'[r.cmd.call] = call[r.cmd.call]
  <2> SUFFICES ASSUME NEW r \in due, r.cmd.op = "eval"
               PROVE  r.cmd.call \in Calls /\ call'[r.cmd.call] = call[r.cmd.call]
    OBVIOUS
  <2>1. r.cmd \in Command
    BY DEF IInv, TypeOK, Reply
  <2>2. r.cmd.call \in Calls
    BY <2>1 DEF Command, HandshakeOps, EpochOps
  <2>3. call[r.cmd.call].at = "answered"
    BY DEF IInv, Answers
  <2>4. r.cmd.call \notin At({"queued", "ready"})
    BY <2>3 DEF At
  <2> QED
    BY <1>2, <2>2, <2>4, DeniedRows
<1>8. Answers'
  <2>1. \A i \in 1..Len(inbox') : Honest(inbox[i])'
    OBVIOUS
  <2>2. \A r \in due : Honest(r)'
    BY <1>7 DEF IInv, Answers, Honest, Hit
  <2>3. \A r \in due : r.cmd.op = "eval" => call'[r.cmd.call].at = "answered"
    BY <1>7 DEF IInv, Answers
  <2>4. \A r \in due : r.val # "error" /\ \A s \in due : s = r
    BY DEF IInv, Answers
  <2> QED
    BY <2>1, <2>2, <2>3, <2>4 DEF Answers
<1>9. Counted'
  BY <1>2, DeniedCounted DEF IInv
<1> QED
  BY <1>4, <1>5, <1>6, <1>8, <1>9 DEF IInv

\* Requests with a command in waiting, or an answer under way, are not others.
LEMMA EvalsInWaiting ==
  ASSUME RedisAssumption, IInv
  PROVE  /\ \A i \in 1..Len(inbox) : i \in 1..Len(awaiting) /\ inbox[i].cmd = awaiting[i]
         /\ \A i \in 1..Len(awaiting) : awaiting[i].op = "eval" =>
              awaiting[i].call \in Calls /\ call[awaiting[i].call].at = "queued"
         /\ \A i \in 1..Len(inbox) : inbox[i].cmd.op = "eval" =>
              inbox[i].cmd.call \in Calls /\ call[inbox[i].cmd.call].at = "queued"
<1>1. \A i \in 1..Len(inbox) : i \in 1..Len(awaiting) /\ inbox[i].cmd = awaiting[i]
  <2>1. CASE sock = "up"
    <3>1. Len(wire[conn]) \in Nat /\ Len(inbox) \in Nat
      BY <2>1 DEF IInv, TypeOK, Aligned
    <3> QED
      BY <2>1, <3>1 DEF IInv, Aligned
  <2>2. CASE sock # "up"
    BY <2>2 DEF IInv, Aligned
  <2> QED
    BY <2>1, <2>2
<1>2. \A i \in 1..Len(awaiting) : awaiting[i].op = "eval" =>
        awaiting[i].call \in Calls /\ call[awaiting[i].call].at = "queued"
  <2> SUFFICES ASSUME NEW i \in 1..Len(awaiting), awaiting[i].op = "eval"
               PROVE  awaiting[i].call \in Calls /\ call[awaiting[i].call].at = "queued"
    OBVIOUS
  <2>1. awaiting[i] \in Command
    BY DEF IInv, TypeOK
  <2> QED
    BY <2>1 DEF IInv, Queued, Command, HandshakeOps, EpochOps
<1> QED
  BY <1>1, <1>2

\* A request that moves while no command of its own is in waiting disturbs
\* neither queue.
LEMMA CallMoves ==
  ASSUME RedisAssumption, IInv, NEW c \in Calls, NEW row \in CallRow,
         call[c].at # "queued", call' = [call EXCEPT ![c] = row],
         due' = {}, UNCHANGED <<awaiting, inbox, hits>>
  PROVE  call' \in [Calls -> CallRow] /\ Queued' /\ Answers'
<1>1. call' \in [Calls -> CallRow] /\ \A d \in Calls : d # c => call'[d] = call[d]
  BY DEF IInv, TypeOK
<1>2. Queued'
  BY <1>1, EvalsInWaiting DEF IInv, Queued
<1>3. \A i \in 1..Len(inbox) : Honest(inbox[i])'
  BY <1>1, EvalsInWaiting DEF IInv, Answers, Honest, Hit
<1> QED
  BY <1>1, <1>2, <1>3 DEF Answers

\* The first half of exec, and the loop over the buckets.
LEMMA ExecKeeps ==
  ASSUME RedisAssumption, IInv, NEW c \in Calls, NEW b \in 1..Buckets,
         call[c].at # "queued", \A d \in 1..(b - 1) : <<c, d>> \in hits,
         Exec(c, b), due' = {},
         UNCHANGED <<remaining, cool, closed, conn, inbox, server, garbled>>
  PROVE  IInv'
<1> USE DEF server
<1>1. CASE \E place \in {Denial(c), "connect", "ready"} :
             /\ call' = [call EXCEPT ![c] = [at |-> place, bucket |-> b]]
             /\ sock' = sock \/ (sock # "up" /\ sock' = "connecting")
             /\ UNCHANGED <<awaiting, backlog, wire>>
  <2>0. PICK place \in {Denial(c), "connect", "ready"} :
          /\ call' = [call EXCEPT ![c] = [at |-> place, bucket |-> b]]
          /\ sock' = sock \/ (sock # "up" /\ sock' = "connecting")
          /\ UNCHANGED <<awaiting, backlog, wire>>
    BY <1>1
  <2>1. [at |-> place, bucket |-> b] \in CallRow
    BY DEF CallRow, Denial, Final
  <2>2. call' \in [Calls -> CallRow] /\ Queued' /\ Answers'
    BY <2>0, <2>1, CallMoves
  <2>3. TypeOK'
    BY <2>0, <2>2 DEF IInv, TypeOK
  <2>4. Aligned' /\ GreetedFirst' /\ Placed'
    BY <2>0 DEF IInv, Aligned, GreetedFirst, Placed, InDatabase
  <2>5. Counted'
    <3> SUFFICES ASSUME NEW e \in Calls
                 PROVE  /\ \A d \in 1..(call'[e].bucket - 1) : <<e, d>> \in hits
                        /\ call'[e].at = "admitted" /\ e \notin FailOpen
                             => call'[e].bucket = Buckets /\ <<e, Buckets>> \in hits
      BY DEF Counted
    <3>1. CASE e # c
      <4>1. call'[e] = call[e]
        BY <2>0, <3>1 DEF IInv, TypeOK
      <4> QED
        BY <4>1 DEF IInv, Counted
    <3>2. CASE e = c
      <4>1. call'[e] = [at |-> place, bucket |-> b]
        BY <2>0, <3>2 DEF IInv, TypeOK
      <4> QED
        BY <2>0, <3>2, <4>1 DEF Denial
    <3> QED
      BY <3>1, <3>2
  <2> QED
    BY <2>2, <2>3, <2>4, <2>5 DEF IInv
<1>2. CASE /\ sock = "up" /\ Ready /\ UNCHANGED sock
           /\ call' = [call EXCEPT ![c] = [at |-> "queued", bucket |-> b]]
           /\ Send(Cmd("eval", c, 0))
  BY <1>2, LimiterSend DEF Ready
<1> QED
  BY <1>1, <1>2 DEF Exec

LEMMA RequestKeeps ==
  ASSUME RedisAssumption, IInv, NEW c \in Calls, Request(c)
  PROVE  IInv'
<1>1. 1 \in 1..Buckets
  BY DEF RedisAssumption
<1>2. call[c].at # "queued" /\ due' = {}
  BY DEF Request, Quiet
<1> QED
  BY <1>1, <1>2, ExecKeeps DEF Request

LEMMA ReleasedKeeps ==
  ASSUME RedisAssumption, IInv, NEW c \in Calls, Released(c)
  PROVE  IInv'
<1> DEFINE b == call[c].bucket
<1>1. call[c] \in CallRow
  BY DEF IInv, TypeOK
<1>2. b \in 1..Buckets /\ call[c].at = "ready"
  BY <1>1 DEF CallRow, Released
<1>3. [call[c] EXCEPT !.at = "queued"] = [at |-> "queued", bucket |-> b]
  BY <1>1 DEF CallRow
<1>4. call' = [call EXCEPT ![c] = [at |-> "queued", bucket |-> b]]
  BY <1>3 DEF Released, IInv, TypeOK
<1>5. \A d \in 1..(b - 1) : <<c, d>> \in hits
  BY DEF IInv, Counted
<1> HIDE DEF b
<1> QED
  BY <1>2, <1>4, <1>5, LimiterSend DEF Released

LEMMA EpochCheckKeeps ==
  ASSUME RedisAssumption, IInv,
         StartEpochCheck \/ AfterInfo \/ AfterGet \/ AfterSetRun \/ AfterSetWarm
  PROVE  IInv'
<1>1. ASSUME NEW cmd \in Command, cmd.op \in EpochOps, Send(cmd), due' = {},
             UNCHANGED <<sock, call, remaining, cool, closed, conn, inbox, server, garbled>>
      PROVE  IInv'
  BY <1>1, EpochSend
<1>2. ASSUME due' = {}, UNCHANGED <<sock, call, awaiting, backlog, wire, remaining,
                                    cool, closed, conn, inbox, server, garbled>>
      PROVE  IInv'
  <2>1. TypeOK' /\ Aligned' /\ GreetedFirst' /\ Placed'
    BY <1>2 DEF server, IInv, TypeOK, Aligned, GreetedFirst, Placed, InDatabase
  <2>2. Queued' /\ Answers' /\ Counted'
    BY <1>2 DEF server, IInv, Queued, Answers, Honest, Hit, Counted
  <2> QED
    BY <2>1, <2>2 DEF IInv
<1>3. \A r \in due : r.run \in Nat /\ r.cmd.run \in Nat
  <2>1. \A r \in due : r \in Reply
    BY DEF IInv, TypeOK
  <2> QED
    BY <2>1 DEF Reply, Command
<1>4. CASE StartEpochCheck
  <2>1. Cmd("info", None, 0) \in Command /\ Cmd("info", None, 0).op \in EpochOps
    BY DEF Cmd, Command, EpochOps
  <2> QED
    BY <1>4, <2>1, <1>1 DEF StartEpochCheck, Continue
<1>5. CASE AfterInfo
  <2>1. PICK r \in due : Send(Cmd("get", None, r.run))
    BY <1>5 DEF AfterInfo
  <2>2. Cmd("get", None, r.run) \in Command /\ Cmd("get", None, r.run).op \in EpochOps
    BY <1>3 DEF Cmd, Command, EpochOps
  <2> QED
    BY <1>5, <2>1, <2>2, <1>1 DEF AfterInfo, Continue
<1>6. CASE AfterGet
  <2>1. PICK r \in due :
          UNCHANGED <<awaiting, backlog, wire>> \/ Send(Cmd("setrun", None, r.cmd.run))
    BY <1>6 DEF AfterGet
  <2>2. /\ Cmd("setrun", None, r.cmd.run) \in Command
        /\ Cmd("setrun", None, r.cmd.run).op \in EpochOps
    BY <1>3 DEF Cmd, Command, EpochOps
  <2> QED
    BY <1>6, <2>1, <2>2, <1>1, <1>2 DEF AfterGet, Continue
<1>7. CASE AfterSetRun
  <2>1. Cmd("setwarm", None, 0) \in Command /\ Cmd("setwarm", None, 0).op \in EpochOps
    BY DEF Cmd, Command, EpochOps
  <2> QED
    BY <1>7, <2>1, <1>1 DEF AfterSetRun, Continue
<1>8. CASE AfterSetWarm
  BY <1>8, <1>2 DEF AfterSetWarm, Continue
<1> QED
  BY <1>4, <1>5, <1>6, <1>7, <1>8

\* "Not blocked" is read from the answer of the script: the bucket has counted
\* the request before the next one is asked.
LEMMA AfterEvalKeeps ==
  ASSUME RedisAssumption, IInv, AfterEval
  PROVE  IInv'
<1>1. PICK r \in due :
        \/ /\ r.val = "blocked"
           /\ call' = [call EXCEPT ![r.cmd.call].at = "blocked"]
           /\ UNCHANGED <<sock, awaiting, backlog, wire>>
        \/ /\ r.val # "blocked"
           /\ call[r.cmd.call].bucket = Buckets
           /\ call' = [call EXCEPT ![r.cmd.call].at = "admitted"]
           /\ UNCHANGED <<sock, awaiting, backlog, wire>>
        \/ /\ r.val # "blocked"
           /\ call[r.cmd.call].bucket < Buckets
           /\ Exec(r.cmd.call, call[r.cmd.call].bucket + 1)
  BY DEF AfterEval
<1> DEFINE c == r.cmd.call
           b == call[c].bucket
<1>2. r.cmd.op = "eval"
  BY DEF AfterEval, Continue, IInv, Answers
<1>3. r \in Reply
  BY DEF IInv, TypeOK
<1>4. c \in Calls
  BY <1>2, <1>3 DEF Reply, Command, HandshakeOps, EpochOps
<1>5. call[c] \in CallRow /\ b \in 1..Buckets
  BY <1>4 DEF IInv, TypeOK, CallRow
<1>6. call[c].at = "answered"
  BY <1>2 DEF IInv, Answers
<1>7. r.val # "blocked" => <<c, b>> \in hits
  <2>1. r.val \in {"ok", "free", "blocked", "error"}
    BY <1>3 DEF Reply
  <2>2. r.val # "error" /\ Honest(r)
    BY DEF IInv, Answers
  <2> QED
    BY <1>2, <2>1, <2>2 DEF Honest, Hit
<1>8. /\ due' = {}
      /\ UNCHANGED <<remaining, cool, closed, conn, inbox, server, garbled>>
  BY DEF AfterEval, Continue
<1>9. \A d \in 1..(b - 1) : <<c, d>> \in hits
  BY <1>4 DEF IInv, Counted
<1> HIDE DEF c, b
<1>10. CASE \E place \in {"blocked", "admitted"} :
              /\ call' = [call EXCEPT ![c].at = place]
              /\ place = "admitted" => b = Buckets /\ r.val # "blocked"
              /\ UNCHANGED <<sock, awaiting, backlog, wire>>
  <2>1. PICK place \in {"blocked", "admitted"} :
          /\ call' = [call EXCEPT ![c].at = place]
          /\ place = "admitted" => b = Buckets /\ r.val # "blocked"
          /\ UNCHANGED <<sock, awaiting, backlog, wire>>
    BY <1>10
  <2> DEFINE row == [call[c] EXCEPT !.at = place]
  <2>2. row \in CallRow /\ row.at = place /\ row.bucket = b
    BY <1>5 DEF CallRow, Final, b
  <2>3. call' = [call EXCEPT ![c] = row]
    BY <2>1
  <2> HIDE DEF row
  <2>4. call' \in [Calls -> CallRow] /\ Queued' /\ Answers'
    BY <1>4, <1>6, <1>8, <2>1, <2>2, <2>3, CallMoves DEF server
  <2>5. TypeOK'
    BY <1>8, <2>1, <2>4 DEF IInv, TypeOK, server
  <2>6. Aligned' /\ GreetedFirst' /\ Placed'
    BY <1>8, <2>1 DEF IInv, Aligned, GreetedFirst, Placed, InDatabase, server
  <2>7. Counted'
    <3> SUFFICES ASSUME NEW e \in Calls
                 PROVE  /\ \A d \in 1..(call'[e].bucket - 1) : <<e, d>> \in hits
                        /\ call'[e].at = "admitted" /\ e \notin FailOpen
                             => call'[e].bucket = Buckets /\ <<e, Buckets>> \in hits
      BY <1>8 DEF Counted, server
    <3>1. CASE e # c
      <4>1. call'[e] = call[e]
        BY <2>3, <3>1 DEF IInv, TypeOK
      <4> QED
        BY <4>1 DEF IInv, Counted
    <3>2. CASE e = c
      <4>1. call'[e] = row
        BY <2>3, <3>2 DEF IInv, TypeOK
      <4> QED
        BY <1>7, <1>9, <2>1, <2>2, <3>2, <4>1
    <3> QED
      BY <3>1, <3>2
  <2> QED
    BY <2>4, <2>5, <2>6, <2>7 DEF IInv
<1>11. CASE r.val # "blocked" /\ b < Buckets /\ Exec(c, b + 1)
  <2>1. b + 1 \in 1..Buckets
    BY <1>5, <1>11 DEF RedisAssumption
  <2>2. \A d \in 1..((b + 1) - 1) : <<c, d>> \in hits
    BY <1>5, <1>7, <1>9, <1>11
  <2> QED
    BY <1>4, <1>6, <1>8, <1>11, <2>1, <2>2, ExecKeeps
<1> QED
  BY <1>1, <1>10, <1>11 DEF c, b

LEMMA ResetsKeep ==
  ASSUME RedisAssumption, IInv, Disconnect \/ Expire \/ Garbage \/ Close
  PROVE  IInv'
<1>1. cool \in BOOLEAN /\ closed \in BOOLEAN /\ garbled \in 0..Garbled /\ Garbled \in Nat
  BY DEF IInv, TypeOK, RedisAssumption
<1>2. CASE Disconnect
  BY <1>1, <1>2, FailPendingKeeps DEF Disconnect, TearDown
<1>3. CASE Expire
  BY <1>1, <1>3, FailPendingKeeps DEF Expire, TearDown
<1>4. CASE Garbage
  BY <1>1, <1>4, FailPendingKeeps DEF Garbage, TearDown
<1>5. CASE Close
  BY <1>1, <1>5, FailPendingKeeps DEF Close
<1> QED
  BY <1>2, <1>3, <1>4, <1>5

LEMMA CooldownKeeps ==
  ASSUME RedisAssumption, IInv, ConnectFails \/ CooldownEnds
  PROVE  IInv'
<1>1. due = {} /\ due' = {} /\ cool' \in BOOLEAN
  BY DEF ConnectFails, CooldownEnds, Quiet
<1>2. UNCHANGED <<remaining, closed, awaiting, backlog, conn, wire, inbox, server, garbled>>
  BY DEF ConnectFails, CooldownEnds
<1>3. (sock # "up" /\ sock' = "none") \/ sock' = sock
  BY DEF ConnectFails, CooldownEnds
<1>4. \E C : call' = Denied(C) /\ C \subseteq At({"connect"})
  <2>1. CASE ConnectFails
    BY <2>1 DEF ConnectFails
  <2>2. CASE CooldownEnds
    <3>1. Denied({}) = call
      BY DEF Denied, IInv, TypeOK
    <3> QED
      BY <2>2, <3>1 DEF CooldownEnds
  <2> QED
    BY <2>1, <2>2
<1>5. PICK C : call' = Denied(C) /\ C \subseteq At({"connect"})
  BY <1>4
<1>6. call \in [Calls -> CallRow]
  BY DEF IInv, TypeOK
<1>7. call' \in [Calls -> CallRow]
  BY <1>5, <1>6, DeniedRows
<1>8. \A c \in Calls : call[c].at = "queued" => call'[c] = call[c]
  BY <1>5, <1>6, DeniedRows DEF At
<1>9. TypeOK'
  BY <1>1, <1>2, <1>3, <1>7 DEF IInv, TypeOK, server
<1>10. Aligned' /\ GreetedFirst' /\ Placed'
  BY <1>2, <1>3 DEF IInv, Aligned, GreetedFirst, Placed, InDatabase, server
<1>11. Queued'
  BY <1>2, <1>8, EvalsInWaiting DEF IInv, Queued
<1>12. Answers'
  <2>1. \A i \in 1..Len(inbox) : Honest(inbox[i])'
    BY <1>2, <1>8, EvalsInWaiting DEF IInv, Answers, Honest, Hit, server
  <2> QED
    BY <1>1, <1>2, <2>1 DEF Answers
<1>13. Counted'
  BY <1>2, <1>5, DeniedCounted DEF IInv, server
<1> QED
  BY <1>9, <1>10, <1>11, <1>12, <1>13 DEF IInv

\* A new connection: the handshake, then what was left over, and no request.
LEMMA ConnectedKeeps ==
  ASSUME RedisAssumption, IInv, Connected
  PROVE  IInv'
<1> DEFINE n == Len(Handshake)
           line == Greeting \o backlog
<1>1. n \in Nat /\ \A i \in 1..n : Handshake[i] \in HandshakeOps
  BY DEF RedisAssumption
<1>2. Greeting \in Seq(Command) /\ Len(Greeting) = n
  <2>1. \A i \in 1..n : Cmd(Handshake[i], None, 0) \in Command
    BY <1>1 DEF Cmd, Command
  <2> QED
    BY <1>1, <2>1 DEF Greeting
<1>3. \A i \in 1..n : Greeting[i].op = Handshake[i]
  BY <1>1 DEF Greeting, Cmd
<1>4. backlog \in Seq(Command) /\ \A i \in 1..Len(backlog) : backlog[i].op \in EpochOps
  BY DEF IInv, TypeOK, GreetedFirst
<1> HIDE DEF n
<1>5. /\ line \in Seq(Command)
      /\ Len(line) = n + Len(backlog)
      /\ \A i \in 1..(n + Len(backlog)) :
           line[i] = IF i <= n THEN Greeting[i] ELSE backlog[i - n]
  <2>1. /\ line \in Seq(Command)
        /\ Len(line) = Len(Greeting) + Len(backlog)
        /\ \A i \in 1..(Len(Greeting) + Len(backlog)) :
             line[i] = IF i <= Len(Greeting) THEN Greeting[i]
                       ELSE backlog[i - Len(Greeting)]
    BY <1>2, <1>4, ConcatProperties
  <2> QED
    BY <1>2, <2>1
<1> HIDE DEF line
<1>6. ASSUME NEW i \in 1..Len(line)
      PROVE  \/ i <= n /\ line[i].op = Handshake[i]
             \/ i > n /\ line[i].op \in EpochOps
  <2>1. CASE i <= n
    <3>1. line[i] = Greeting[i] /\ i \in 1..n
      BY <1>1, <1>2, <1>4, <1>5, <2>1
    <3> QED
      BY <1>3, <2>1, <3>1
  <2>2. CASE i > n
    <3>1. line[i] = backlog[i - n] /\ i - n \in 1..Len(backlog)
      BY <1>1, <1>2, <1>4, <1>5, <2>2
    <3> QED
      BY <1>4, <2>2, <3>1
  <2> QED
    BY <1>1, <2>1, <2>2
<1>7. /\ sock # "up" /\ sock' = "up" /\ conn' = conn + 1 /\ conn < MaxConns
      /\ remaining' = n /\ backlog' = <<>> /\ inbox' = <<>> /\ due = {} /\ due' = {}
      /\ UNCHANGED <<cool, closed, server, garbled>>
  BY DEF Connected, Expected, Quiet, n
<1>8. awaiting' = line
  <2>1. awaiting = <<>>
    BY <1>7 DEF IInv, Aligned
  <2>2. Greeting \o <<>> = Greeting
    BY <1>2
  <2> QED
    BY <2>1, <2>2 DEF Connected, line
<1>9. conn + 1 \in 1..MaxConns /\ conn + 1 \in 0..MaxConns
  BY <1>7 DEF IInv, TypeOK, RedisAssumption
<1>10. wire' = [wire EXCEPT ![conn + 1] = line]
  BY DEF Connected, line
<1>11. /\ wire' \in [1..MaxConns -> Seq(Command)]
       /\ wire'[conn + 1] = line
       /\ \A g \in 1..MaxConns : g # conn + 1 => wire'[g] = wire[g]
  BY <1>5, <1>9, <1>10 DEF IInv, TypeOK
<1>12. \A i \in 1..Len(line) : line[i].op # "eval"
  <2>1. \A i \in 1..Len(line) : line[i].op \in HandshakeOps \cup EpochOps
    BY <1>1, <1>6
  <2> QED
    BY <2>1 DEF HandshakeOps, EpochOps
<1>13. \A i \in 1..Len(line) : Critical(line[i]) => i <= n
  BY <1>6 DEF HandshakeOps, EpochOps, Critical
<1>14. \A c \in Calls : /\ call'[c] \in CallRow
                        /\ call'[c].bucket = call[c].bucket
                        /\ call'[c].at = "admitted" => call[c].at = "admitted"
  <2> SUFFICES ASSUME NEW c \in Calls
               PROVE  /\ call'[c] \in CallRow
                      /\ call'[c].bucket = call[c].bucket
                      /\ call'[c].at = "admitted" => call[c].at = "admitted"
    OBVIOUS
  <2>1. call[c] \in CallRow
    BY DEF IInv, TypeOK
  <2>2. call'[c] = IF c \in At({"connect"}) THEN [call[c] EXCEPT !.at = "ready"] ELSE call[c]
    BY DEF Connected
  <2> QED
    BY <2>1, <2>2 DEF CallRow
<1>15. call' \in [Calls -> CallRow]
  <2>1. \A c \in Calls : call'[c] \in CallRow
    BY <1>14
  <2> QED
    BY <2>1 DEF Connected
<1>16. TypeOK'
  <2>1. remaining' \in 0..Len(Handshake) /\ conn' \in 0..MaxConns
    BY <1>1, <1>7, <1>9 DEF n
  <2>2. awaiting' \in Seq(Command) /\ backlog' \in Seq(Command) /\ inbox' \in Seq(Reply)
    BY <1>5, <1>7, <1>8
  <2>3. cool' \in BOOLEAN /\ closed' \in BOOLEAN /\ due' \in SUBSET Reply
    BY <1>7 DEF IInv, TypeOK
  <2>4. /\ passed' \in [1..MaxConns -> SUBSET HandshakeOps]
        /\ lost' \in SUBSET (1..MaxConns)
        /\ run' \in Nat \ {0} /\ stored' \in Nat /\ marked' \in Nat
        /\ hits' \in SUBSET (Calls \X (1..Buckets))
        /\ strays' \in SUBSET (Calls \X (1..Buckets))
        /\ losses' \in 0..Losses /\ garbled' \in 0..Garbled
    BY <1>7 DEF IInv, TypeOK, server
  <2> QED
    BY <1>7, <1>11, <1>15, <2>1, <2>2, <2>3, <2>4 DEF TypeOK
<1>17. Aligned'
  <2>1. /\ conn' \in 1..MaxConns
        /\ Len(inbox') = 0
        /\ wire'[conn'] = awaiting'
    BY <1>7, <1>8, <1>9, <1>11
  <2>2. Len(awaiting') \in Nat
    BY <1>5, <1>8
  <2>3. Len(awaiting') = Len(inbox') + Len(wire'[conn'])
    BY <2>1, <2>2
  <2>4. \A i \in 1..Len(wire'[conn']) : wire'[conn'][i] = awaiting'[Len(inbox') + i]
    BY <2>1, <2>2
  <2>5. \A i \in 1..Len(inbox') : inbox'[i].cmd = awaiting'[i]
    BY <2>1
  <2> QED
    BY <1>7, <2>1, <2>3, <2>4, <2>5 DEF Aligned
<1>18. GreetedFirst'
  <2>1. remaining' <= Len(awaiting')
    BY <1>1, <1>4, <1>5, <1>7, <1>8
  <2>2. \A i \in 1..remaining' : awaiting'[i].op = Handshake[Len(Handshake) - remaining' + i]
    <3> SUFFICES ASSUME NEW i \in 1..n PROVE line[i].op = Handshake[Len(Handshake) - n + i]
      BY <1>7, <1>8
    <3>1. i \in 1..Len(line) /\ ~(i > n)
      BY <1>1, <1>4, <1>5
    <3>2. Len(Handshake) - n + i = i
      BY <1>1 DEF n
    <3> QED
      BY <1>6, <3>1, <3>2
  <2>3. 1..(Len(Handshake) - remaining') = {}
    BY <1>1, <1>7 DEF n
  <2> QED
    BY <1>7, <1>8, <1>13, <2>1, <2>2, <2>3 DEF GreetedFirst, Critical
<1>19. Placed'
  <2>1. \A g \in 1..MaxConns : \A i \in 1..Len(wire'[g]) :
          wire'[g][i].op = "eval" => InDatabase(g)
    BY <1>11, <1>12 DEF IInv, Placed
  <2> QED
    BY <1>7, <2>1 DEF IInv, Placed, InDatabase, server
<1>20. Queued'
  BY <1>8, <1>12 DEF Queued
<1>21. Answers'
  BY <1>7 DEF Answers
<1>22. Counted'
  BY <1>7, <1>14 DEF IInv, Counted, server
<1> QED
  BY <1>16, <1>17, <1>18, <1>19, <1>20, <1>21, <1>22 DEF IInv

\* Redis loses its data, and with a restart its connections.
LEMMA LossKeeps ==
  ASSUME RedisAssumption, IInv, Restart \/ Flush
  PROVE  IInv'
<1>1. UNCHANGED <<sock, remaining, cool, closed, awaiting, backlog, due, call, conn,
                  wire, inbox, hits, strays, passed, garbled>>
  BY DEF Restart, Flush, client
<1>2. /\ run' \in Nat \ {0} /\ stored' \in Nat /\ marked' \in Nat
      /\ losses' \in 0..Losses /\ lost' \in SUBSET (1..MaxConns)
  <2>1. Losses \in Nat /\ MaxConns \in Nat
    BY DEF RedisAssumption
  <2>2. CASE Restart
    <3>1. 1..conn \subseteq 1..MaxConns
      BY <2>1 DEF IInv, TypeOK
    <3> QED
      BY <2>1, <2>2, <3>1 DEF Restart, IInv, TypeOK
  <2>3. CASE Flush
    BY <2>1, <2>3 DEF Flush, IInv, TypeOK
  <2> QED
    BY <2>2, <2>3
<1>3. TypeOK'
  BY <1>1, <1>2 DEF IInv, TypeOK
<1>4. Aligned' /\ GreetedFirst' /\ Placed'
  BY <1>1 DEF IInv, Aligned, GreetedFirst, Placed, InDatabase
<1>5. Queued' /\ Answers' /\ Counted'
  BY <1>1 DEF IInv, Queued, Answers, Honest, Hit, Counted
<1> QED
  BY <1>3, <1>4, <1>5 DEF IInv

\* The oldest reply meets the oldest command, and the others keep their order.
LEMMA ConsumeAligned ==
  ASSUME RedisAssumption, IInv, sock = "up", inbox # <<>>,
         awaiting' = Tail(awaiting), inbox' = Tail(inbox), sock' = sock,
         UNCHANGED <<conn, wire>>
  PROVE  /\ awaiting # <<>>
         /\ Head(inbox) = inbox[1] /\ Head(awaiting) = awaiting[1]
         /\ Head(inbox).cmd = Head(awaiting)
         /\ Head(inbox) \in Reply /\ Head(awaiting) \in Command
         /\ 1 \in 1..Len(inbox) /\ 1 \in 1..Len(awaiting)
         /\ awaiting' \in Seq(Command) /\ inbox' \in Seq(Reply)
         /\ Len(awaiting') = Len(awaiting) - 1
         /\ Len(inbox') = Len(inbox) - 1
         /\ \A i \in 1..Len(awaiting') : i + 1 \in 1..Len(awaiting) /\ awaiting'[i] = awaiting[i + 1]
         /\ \A i \in 1..Len(inbox') : i + 1 \in 1..Len(inbox) /\ inbox'[i] = inbox[i + 1]
         /\ Aligned'
<1>1. /\ awaiting \in Seq(Command) /\ inbox \in Seq(Reply)
      /\ conn \in 1..MaxConns /\ Len(wire[conn]) \in Nat
      /\ Len(awaiting) = Len(inbox) + Len(wire[conn])
  BY DEF IInv, TypeOK, Aligned
<1>2. Len(inbox) \in Nat \ {0} /\ Len(awaiting) \in Nat \ {0}
  BY <1>1
<1>3. awaiting # <<>>
  BY <1>2
<1>4. /\ Head(inbox) = inbox[1] /\ Head(awaiting) = awaiting[1]
      /\ Head(inbox) \in Reply /\ Head(awaiting) \in Command
      /\ awaiting' \in Seq(Command) /\ inbox' \in Seq(Reply)
      /\ Len(awaiting') = Len(awaiting) - 1
      /\ Len(inbox') = Len(inbox) - 1
  BY <1>1, <1>3, HeadTailProperties
<1>5. Head(inbox).cmd = Head(awaiting)
  <2>1. 1 \in 1..Len(inbox)
    BY <1>2
  <2> QED
    BY <1>4, <2>1 DEF IInv, Aligned
<1>6. \A i \in 1..Len(awaiting') : i + 1 \in 1..Len(awaiting) /\ awaiting'[i] = awaiting[i + 1]
  BY <1>1, <1>2, <1>3, <1>4, HeadTailProperties
<1>7. \A i \in 1..Len(inbox') : i + 1 \in 1..Len(inbox) /\ inbox'[i] = inbox[i + 1]
  BY <1>1, <1>2, <1>4, HeadTailProperties
<1>8. Aligned'
  <2>1. \A i \in 1..Len(inbox') : inbox'[i].cmd = awaiting'[i]
    <3> SUFFICES ASSUME NEW i \in 1..Len(inbox') PROVE inbox'[i].cmd = awaiting'[i]
      OBVIOUS
    <3>1. i + 1 \in 1..Len(inbox) /\ inbox'[i] = inbox[i + 1]
      BY <1>7
    <3>2. i \in 1..Len(awaiting')
      BY <1>1, <1>2, <1>4
    <3> QED
      BY <3>1, <3>2, <1>6 DEF IInv, Aligned
  <2>2. \A i \in 1..Len(wire[conn]) : wire[conn][i] = awaiting'[Len(inbox') + i]
    <3> SUFFICES ASSUME NEW i \in 1..Len(wire[conn])
                 PROVE  wire[conn][i] = awaiting'[Len(inbox') + i]
      OBVIOUS
    <3>1. Len(inbox') + i \in 1..Len(awaiting') /\ (Len(inbox') + i) + 1 = Len(inbox) + i
      BY <1>1, <1>2, <1>4
    <3>2. awaiting'[Len(inbox') + i] = awaiting[Len(inbox) + i]
      BY <1>6, <3>1
    <3> QED
      BY <3>2 DEF IInv, Aligned
  <2>3. Len(awaiting') = Len(inbox') + Len(wire[conn])
    BY <1>1, <1>2, <1>4
  <2> QED
    BY <1>1, <2>1, <2>2, <2>3 DEF Aligned
<1> QED
  BY <1>2, <1>3, <1>4, <1>5, <1>6, <1>7, <1>8

LEMMA ConsumeKeeps ==
  ASSUME RedisAssumption, IInv, Consume
  PROVE  IInv'
<1> DEFINE p == Head(awaiting)
           r == Head(inbox)
<1>1. /\ sock = "up" /\ inbox # <<>> /\ due = {}
      /\ UNCHANGED <<closed, conn, wire, server, garbled>>
  BY DEF Consume, Quiet
<1>2. CASE TearDown /\ UNCHANGED <<remaining, due>>
  <2>1. garbled \in 0..Garbled /\ closed \in BOOLEAN
    BY DEF IInv, TypeOK
  <2> QED
    BY <1>1, <1>2, <2>1, FailPendingKeeps DEF TearDown
<1>3. CASE /\ ~(Critical(p) /\ r.val = "error")
           /\ Settle(p, r)
           /\ awaiting' = Tail(awaiting)
           /\ inbox' = Tail(inbox)
           /\ UNCHANGED <<sock, cool, backlog>>
  <2>1. /\ r = inbox[1] /\ p = awaiting[1] /\ r.cmd = p
        /\ r \in Reply /\ p \in Command
        /\ 1 \in 1..Len(inbox) /\ 1 \in 1..Len(awaiting)
        /\ awaiting' \in Seq(Command) /\ inbox' \in Seq(Reply)
        /\ Len(awaiting') = Len(awaiting) - 1
        /\ Len(inbox') = Len(inbox) - 1
    BY <1>1, <1>3, ConsumeAligned
  <2>2. \A i \in 1..Len(awaiting') : i + 1 \in 1..Len(awaiting) /\ awaiting'[i] = awaiting[i + 1]
    BY <1>1, <1>3, ConsumeAligned
  <2>3. \A i \in 1..Len(inbox') : i + 1 \in 1..Len(inbox) /\ inbox'[i] = inbox[i + 1]
    BY <1>1, <1>3, ConsumeAligned
  <2>4. Aligned'
    BY <1>1, <1>3, ConsumeAligned
  <2> HIDE DEF p, r
  <2>5. /\ p.op = "eval" => p.call \in Calls /\ call[p.call].at = "queued"
        /\ \A i \in 1..Len(awaiting') :
             awaiting'[i].op = "eval" =>
               /\ awaiting'[i].call \in Calls
               /\ call[awaiting'[i].call].at = "queued"
               /\ p.op = "eval" => awaiting'[i].call # p.call
    <3>1. p.op = "eval" => p.call \in Calls /\ call[p.call].at = "queued"
      BY <2>1, EvalsInWaiting
    <3>2. ASSUME NEW i \in 1..Len(awaiting'), awaiting'[i].op = "eval"
          PROVE  /\ awaiting'[i].call \in Calls
                 /\ call[awaiting'[i].call].at = "queued"
                 /\ p.op = "eval" => awaiting'[i].call # p.call
      <4>1. i + 1 \in 1..Len(awaiting) /\ awaiting'[i] = awaiting[i + 1] /\ i + 1 # 1
        BY <2>2
      <4>2. awaiting'[i].call \in Calls /\ call[awaiting'[i].call].at = "queued"
        BY <3>2, <4>1, EvalsInWaiting
      <4>3. p.op = "eval" => awaiting'[i].call # p.call
        BY <2>1, <3>2, <4>1 DEF IInv, Queued
      <4> QED
        BY <4>2, <4>3
    <3> QED
      BY <3>1, <3>2
  <2>6. /\ call' \in [Calls -> CallRow]
        /\ \A c \in Calls : (p.op = "eval" => c # p.call) => call'[c] = call[c]
        /\ \A c \in Calls : call'[c].bucket = call[c].bucket
        /\ Counted'
    <3>1. call \in [Calls -> CallRow] /\ UNCHANGED hits
      BY <1>1 DEF IInv, TypeOK, server
    <3>2. CASE call' = call
      BY <3>1, <3>2 DEF IInv, Counted
    <3>3. CASE p.op = "eval" /\ call' = Denied({p.call})
      BY <2>5, <3>1, <3>3, DeniedRows, DeniedCounted DEF IInv
    <3>4. CASE p.op = "eval" /\ call' = [call EXCEPT ![p.call].at = "answered"]
      <4> DEFINE row == [call[p.call] EXCEPT !.at = "answered"]
      <4>1. call[p.call] \in CallRow
        BY <2>5, <3>1, <3>4
      <4>2. row \in CallRow /\ row.at = "answered" /\ row.bucket = call[p.call].bucket
        BY <4>1 DEF CallRow
      <4>3. call' = [call EXCEPT ![p.call] = row]
        BY <3>4
      <4> HIDE DEF row
      <4>4. /\ call'[p.call] = row
            /\ \A c \in Calls : c # p.call => call'[c] = call[c]
            /\ call' \in [Calls -> CallRow]
        BY <2>5, <3>1, <3>4, <4>2, <4>3
      <4>5. Counted'
        BY <3>1, <4>2, <4>4 DEF IInv, Counted
      <4> QED
        BY <3>4, <4>2, <4>4, <4>5
    <3> QED
      BY <1>3, <3>2, <3>3, <3>4 DEF Settle, p, r
  <2>7. Queued'
    <3>1. \A i \in 1..Len(awaiting') :
            awaiting'[i].op = "eval" => call'[awaiting'[i].call].at = "queued"
      BY <2>5, <2>6
    <3>2. ASSUME NEW i \in 1..Len(awaiting'), NEW j \in 1..Len(awaiting'),
                 awaiting'[i].op = "eval", awaiting'[j].op = "eval",
                 awaiting'[i].call = awaiting'[j].call
          PROVE  i = j
      <4>1. /\ i + 1 \in 1..Len(awaiting) /\ awaiting'[i] = awaiting[i + 1]
            /\ j + 1 \in 1..Len(awaiting) /\ awaiting'[j] = awaiting[j + 1]
        BY <2>2
      <4>2. i + 1 = j + 1
        BY <3>2, <4>1 DEF IInv, Queued
      <4> QED
        BY <4>2
    <3> QED
      BY <3>1, <3>2 DEF Queued
  <2>8. \A i \in 1..Len(inbox') : Honest(inbox[i])'
    <3> SUFFICES ASSUME NEW i \in 1..Len(inbox') PROVE Honest(inbox[i])'
      OBVIOUS
    <3>1. i + 1 \in 1..Len(inbox) /\ inbox'[i] = inbox[i + 1]
      BY <2>3
    <3> DEFINE q == inbox[i + 1]
    <3>2. Honest(q)
      BY <3>1 DEF IInv, Answers
    <3>3. q.cmd.op = "eval" => q.cmd.call \in Calls
      BY <3>1, EvalsInWaiting
    <3>4. inbox'[i] = q
      BY <3>1
    <3> HIDE DEF q
    <3>5. q.cmd.op = "eval" => call'[q.cmd.call].bucket = call[q.cmd.call].bucket
      BY <2>6, <3>3
    <3> QED
      BY <1>1, <3>2, <3>4, <3>5 DEF Honest, Hit, server
  <2>9. /\ remaining \in 0..Len(Handshake) /\ Len(Handshake) \in Nat
        /\ remaining <= Len(awaiting) /\ Len(awaiting) \in Nat \ {0}
        /\ ~Critical(p) => remaining = 0
        /\ Critical(p) => remaining >= 1
        /\ remaining # 0 => p.op = Handshake[Len(Handshake) - remaining + 1]
    <3>1. remaining \in 0..Len(Handshake) /\ Len(Handshake) \in Nat
      BY DEF IInv, TypeOK, RedisAssumption
    <3>2. remaining <= Len(awaiting) /\ Len(awaiting) \in Nat \ {0}
      BY <1>1, <2>1 DEF IInv, GreetedFirst, TypeOK
    <3>3. Critical(p) => remaining >= 1
      BY <1>1, <2>1, <3>1 DEF IInv, GreetedFirst
    <3>4. remaining # 0 => p.op = Handshake[Len(Handshake) - remaining + 1]
      BY <1>1, <2>1, <3>1 DEF IInv, GreetedFirst
    <3>5. ASSUME remaining # 0 PROVE Critical(p)
      <4>1. Len(Handshake) - remaining + 1 \in 1..Len(Handshake)
        BY <3>1, <3>5
      <4> QED
        BY <3>4, <3>5, <4>1 DEF Critical, RedisAssumption
    <3> QED
      BY <3>1, <3>2, <3>3, <3>4, <3>5
  <2>10. \A i \in 1..Len(inbox') : Critical(inbox'[i].cmd) /\ inbox'[i].val # "error"
           => inbox'[i].cmd.op \in passed[conn]
    <3>1. \A i \in 1..Len(inbox) : Critical(inbox[i].cmd) /\ inbox[i].val # "error"
            => inbox[i].cmd.op \in passed[conn]
      BY <1>1 DEF IInv, GreetedFirst
    <3>2. \A i \in 1..Len(inbox') : i + 1 \in 1..Len(inbox) /\ inbox'[i] = inbox[i + 1]
      BY <2>3
    <3> QED
      BY <3>1, <3>2
  <2>11. \A i \in 1..Len(awaiting') : Critical(awaiting'[i]) => i + 1 <= remaining
    BY <1>1, <2>2 DEF IInv, GreetedFirst
  <2>12. \A i \in 1..Len(backlog) : backlog[i].op \in EpochOps
    BY DEF IInv, GreetedFirst
  <2>13. Placed'
    BY <1>1 DEF IInv, Placed, InDatabase, server
  <2>14. CASE ~Critical(p)
    <3>1. remaining' = remaining /\ remaining = 0
      BY <1>3, <2>9, <2>14 DEF Settle, p, r
    <3>2. GreetedFirst'
      <4>1. \A i \in 1..Len(awaiting') : ~Critical(awaiting'[i])
        <5> SUFFICES ASSUME NEW i \in 1..Len(awaiting'), Critical(awaiting'[i])
                     PROVE  FALSE
          OBVIOUS
        <5>1. i + 1 <= 0
          BY <2>11, <3>1
        <5> QED
          BY <5>1
      <4>2. \A i \in 1..(Len(Handshake) - remaining) : Handshake[i] \in passed[conn]
        BY <1>1 DEF IInv, GreetedFirst
      <4>3. remaining' <= Len(awaiting')
        BY <2>1, <2>9, <3>1
      <4>4. 1..remaining' = {}
        BY <3>1
      <4> QED
        BY <1>1, <1>3, <2>10, <2>12, <3>1, <4>1, <4>2, <4>3, <4>4 DEF GreetedFirst, Critical, server
    <3>3. due' \in SUBSET Reply /\ Answers'
      <4>1. CASE r.val = "error"
        <5>1. due' = {}
          BY <1>1, <1>3, <4>1 DEF Settle, p, r
        <5> QED
          BY <2>8, <5>1 DEF Answers
      <4>2. CASE r.val # "error"
        <5>1. due' = {[r EXCEPT !.cmd = p]}
          BY <1>3, <2>14, <4>2 DEF Settle, p, r
        <5>2. [r EXCEPT !.cmd = p] = r
          BY <2>1 DEF Reply
        <5>3. due' = {r}
          BY <5>1, <5>2
        <5>4. Honest(r)
          BY <2>1 DEF IInv, Answers
        <5>5. p.op = "eval" => call'[p.call].at = "answered"
          <6> SUFFICES ASSUME p.op = "eval" PROVE call'[p.call].at = "answered"
            OBVIOUS
          <6>1. call' = [call EXCEPT ![p.call].at = "answered"]
            BY <1>3, <2>14, <4>2 DEF Settle, p, r
          <6>2. call[p.call] \in CallRow
            BY <2>5 DEF IInv, TypeOK
          <6>3. [call[p.call] EXCEPT !.at = "answered"].at = "answered"
            BY <6>2 DEF CallRow
          <6> QED
            BY <2>5, <6>1, <6>3 DEF IInv, TypeOK
        <5>6. p.op = "eval" => call'[p.call].bucket = call[p.call].bucket
          BY <2>5, <2>6
        <5>7. \A q \in due' : Honest(q)'
          BY <1>1, <2>1, <5>3, <5>4, <5>6 DEF Honest, Hit, server
        <5> QED
          BY <2>1, <2>8, <4>2, <5>3, <5>5, <5>7 DEF Answers
      <4> QED
        BY <4>1, <4>2
    <3>4. TypeOK'
      BY <1>1, <1>3, <2>1, <2>6, <3>1, <3>3 DEF IInv, TypeOK, server
    <3> QED
      BY <2>4, <2>6, <2>7, <2>13, <3>2, <3>3, <3>4 DEF IInv
  <2>15. CASE Critical(p)
    <3>1. /\ r.val # "error" /\ remaining' = remaining - 1
          /\ due' = IF remaining = 1 THEN Resolved ELSE {}
      BY <1>3, <2>15 DEF Settle, p, r
    <3>2. p.op \in passed[conn]
      BY <1>1, <2>1, <2>15, <3>1 DEF IInv, GreetedFirst
    <3>3. GreetedFirst'
      <4>1. remaining' <= Len(awaiting')
        BY <2>1, <2>9, <3>1
      <4>2. \A i \in 1..remaining' :
              awaiting'[i].op = Handshake[Len(Handshake) - remaining' + i]
        <5> SUFFICES ASSUME NEW i \in 1..remaining'
                     PROVE  awaiting'[i].op = Handshake[Len(Handshake) - remaining' + i]
          OBVIOUS
        <5>1. i \in 1..Len(awaiting') /\ i + 1 \in 1..remaining
          BY <2>1, <2>9, <3>1
        <5>2. awaiting'[i] = awaiting[i + 1]
          BY <2>2, <5>1
        <5>3. awaiting[i + 1].op = Handshake[Len(Handshake) - remaining + (i + 1)]
          BY <1>1, <5>1 DEF IInv, GreetedFirst
        <5>4. Len(Handshake) - remaining + (i + 1) = Len(Handshake) - remaining' + i
          BY <2>9, <3>1
        <5> QED
          BY <5>2, <5>3, <5>4
      <4>3. \A i \in 1..Len(awaiting') : Critical(awaiting'[i]) => i <= remaining'
        BY <2>9, <2>11, <3>1
      <4>4. \A i \in 1..(Len(Handshake) - remaining') : Handshake[i] \in passed[conn]
        <5> SUFFICES ASSUME NEW i \in 1..(Len(Handshake) - remaining')
                     PROVE  Handshake[i] \in passed[conn]
          OBVIOUS
        <5>1. CASE i = Len(Handshake) - remaining + 1
          BY <2>9, <2>15, <3>2, <5>1
        <5>2. CASE i \in 1..(Len(Handshake) - remaining)
          BY <1>1, <5>2 DEF IInv, GreetedFirst
        <5> QED
          BY <2>9, <3>1, <5>1, <5>2
      <4> QED
        BY <1>1, <1>3, <2>10, <2>12, <4>1, <4>2, <4>3, <4>4 DEF GreetedFirst, Critical, server
    <3>4. due' \in SUBSET Reply /\ Answers'
      <4>1. /\ [cmd |-> Cmd("ready", None, 0), val |-> "ok", run |-> 0] \in Reply
            /\ Cmd("ready", None, 0).op # "eval"
        BY DEF Cmd, Reply, Command
      <4>2. due' \in SUBSET Reply
        BY <3>1, <4>1 DEF Resolved
      <4>3. \A q \in due' : q.cmd.op # "eval" /\ q.val # "error" /\ \A t \in due' : t = q
        BY <3>1, <4>1 DEF Resolved
      <4> QED
        BY <2>8, <4>2, <4>3 DEF Answers, Honest
    <3>5. TypeOK'
      <4>1. remaining' \in 0..Len(Handshake)
        BY <2>9, <2>15, <3>1
      <4> QED
        BY <1>1, <1>3, <2>1, <2>6, <3>4, <4>1 DEF IInv, TypeOK, server
    <3> QED
      BY <2>4, <2>6, <2>7, <2>13, <3>3, <3>4, <3>5 DEF IInv
  <2> QED
    BY <2>14, <2>15
<1> QED
  BY <1>1, <1>2, <1>3 DEF Consume

\* The command a server executes next is the first one without a reply; its
\* reply is the youngest.
LEMMA ServeAligned ==
  ASSUME RedisAssumption, IInv, NEW g \in 1..MaxConns, NEW rep \in Reply,
         wire[g] # <<>>, rep.cmd = Head(wire[g]),
         wire' = [wire EXCEPT ![g] = Tail(@)],
         inbox' = IF g = conn /\ sock = "up" THEN Append(inbox, rep) ELSE inbox,
         UNCHANGED <<sock, awaiting, conn>>
  PROVE  /\ wire' \in [1..MaxConns -> Seq(Command)]
         /\ inbox' \in Seq(Reply)
         /\ \A h \in 1..MaxConns : \A i \in 1..Len(wire'[h]) :
              \E j \in 1..Len(wire[h]) : wire'[h][i] = wire[h][j]
         /\ \A i \in 1..Len(inbox') :
              \/ i \in 1..Len(inbox) /\ inbox'[i] = inbox[i]
              \/ sock = "up" /\ g = conn /\ inbox'[i] = rep
         /\ Head(wire[g]) = wire[g][1] /\ 1 \in 1..Len(wire[g])
         /\ Aligned'
<1>0. wire[g] \in Seq(Command)
  BY DEF IInv, TypeOK
<1>1. wire[g] \in Seq(Command) /\ Len(wire[g]) \in Nat \ {0}
  BY <1>0
<1>2. inbox \in Seq(Reply) /\ Len(inbox) \in Nat
  BY DEF IInv, TypeOK
<1>3. /\ wire'[g] = Tail(wire[g])
      /\ \A h \in 1..MaxConns : h # g => wire'[h] = wire[h]
  BY DEF IInv, TypeOK
<1>4. /\ Head(wire[g]) = wire[g][1]
      /\ wire'[g] \in Seq(Command)
      /\ Len(wire'[g]) = Len(wire[g]) - 1
      /\ \A i \in 1..Len(wire'[g]) : wire'[g][i] = wire[g][i + 1]
  <2>1. /\ Tail(wire[g]) \in Seq(Command)
        /\ Len(Tail(wire[g])) = Len(wire[g]) - 1
        /\ \A i \in 1..Len(Tail(wire[g])) : Tail(wire[g])[i] = wire[g][i + 1]
    BY <1>0, HeadTailProperties
  <2>2. Head(wire[g]) = wire[g][1]
    BY <1>0
  <2> QED
    BY <1>3, <2>1, <2>2
<1>5. wire' \in [1..MaxConns -> Seq(Command)]
  BY <1>4 DEF IInv, TypeOK
<1>6. \A h \in 1..MaxConns : \A i \in 1..Len(wire'[h]) :
        \E j \in 1..Len(wire[h]) : wire'[h][i] = wire[h][j]
  <2> SUFFICES ASSUME NEW h \in 1..MaxConns, NEW i \in 1..Len(wire'[h])
               PROVE  \E j \in 1..Len(wire[h]) : wire'[h][i] = wire[h][j]
    OBVIOUS
  <2>1. CASE h = g
    <3>1. i + 1 \in 1..Len(wire[g])
      BY <1>1, <1>4, <2>1
    <3> QED
      BY <1>4, <2>1, <3>1
  <2>2. CASE h # g
    BY <1>3, <2>2
  <2> QED
    BY <2>1, <2>2
<1>7. CASE g = conn /\ sock = "up"
  <2>1. /\ inbox' \in Seq(Reply)
        /\ Len(inbox') = Len(inbox) + 1
        /\ \A i \in 1..Len(inbox) : inbox'[i] = inbox[i]
        /\ inbox'[Len(inbox) + 1] = rep
    BY <1>2, <1>7
  <2>2. \A i \in 1..Len(inbox') : i \in 1..Len(inbox) \/ i = Len(inbox) + 1
    BY <1>2, <2>1
  <2>3. Len(awaiting) = Len(inbox') + Len(wire'[conn])
    <3>1. Len(awaiting) = Len(inbox) + Len(wire[g])
      BY <1>7 DEF IInv, Aligned
    <3>2. Len(wire'[conn]) = Len(wire[g]) - 1 /\ Len(inbox') = Len(inbox) + 1
      BY <1>4, <1>7, <2>1
    <3>3. \A a, b \in Int : a + b = (a + 1) + (b - 1)
      OBVIOUS
    <3>4. Len(inbox) \in Int /\ Len(wire[g]) \in Int
      BY <1>1, <1>2
    <3> QED
      BY <3>1, <3>2, <3>3, <3>4, Zenon
  <2>4. \A i \in 1..Len(inbox') : inbox'[i].cmd = awaiting[i]
    <3>1. \A i \in 1..Len(inbox) : inbox'[i].cmd = awaiting[i]
      BY <1>7, <2>1 DEF IInv, Aligned
    <3>2. wire[conn][1] = awaiting[Len(inbox) + 1]
      BY <1>1, <1>7 DEF IInv, Aligned
    <3> QED
      BY <1>4, <1>7, <2>1, <2>2, <3>1, <3>2
  <2>5. \A i \in 1..Len(wire'[conn]) : wire'[conn][i] = awaiting[Len(inbox') + i]
    <3> SUFFICES ASSUME NEW i \in 1..Len(wire'[conn])
                 PROVE  wire'[conn][i] = awaiting[Len(inbox') + i]
      OBVIOUS
    <3>1. i + 1 \in 1..Len(wire[conn]) /\ wire'[conn][i] = wire[conn][i + 1]
      BY <1>1, <1>4, <1>7
    <3>2. wire[conn][i + 1] = awaiting[Len(inbox) + (i + 1)]
      BY <1>7, <3>1 DEF IInv, Aligned
    <3>3. Len(inbox) + (i + 1) = Len(inbox') + i
      BY <1>2, <2>1
    <3> QED
      BY <3>1, <3>2, <3>3
  <2>6. Aligned'
    BY <1>7, <2>3, <2>4, <2>5 DEF Aligned, IInv
  <2> QED
    BY <1>1, <1>4, <1>5, <1>6, <1>7, <2>1, <2>2, <2>6
<1>8. CASE ~(g = conn /\ sock = "up")
  <2>1. inbox' = inbox
    BY <1>8
  <2>2. sock = "up" => wire'[conn] = wire[conn]
    BY <1>3, <1>8 DEF IInv, Aligned
  <2>3. Aligned'
    BY <2>1, <2>2 DEF IInv, Aligned
  <2> QED
    BY <1>1, <1>2, <1>4, <1>5, <1>6, <2>1, <2>3
<1> QED
  BY <1>7, <1>8

\* What a server does to its own state, and what it says.
LEMMA ServedFacts ==
  ASSUME RedisAssumption, IInv, NEW g \in 1..MaxConns, NEW cmd \in Command,
         cmd.op = "eval" => InDatabase(g), Served(g, cmd)
  PROVE  /\ \E rep \in Reply :
              /\ rep.cmd = cmd
              /\ cmd.op = "eval" => /\ rep.val # "ok"
                                    /\ rep.val = "free" => Hit(cmd) \in hits'
              /\ Critical(cmd) /\ rep.val # "error" => cmd.op \in passed'[g]
              /\ inbox' = IF g = conn /\ sock = "up" THEN Append(inbox, rep) ELSE inbox
         /\ hits \subseteq hits' /\ hits' \in SUBSET (Calls \X (1..Buckets))
         /\ strays' = strays
         /\ passed' \in [1..MaxConns -> SUBSET HandshakeOps]
         /\ \A h \in 1..MaxConns : passed[h] \subseteq passed'[h]
         /\ stored' \in Nat /\ marked' \in Nat
<1> DEFINE Rep(val, n) == [cmd |-> cmd, val |-> val, run |-> n]
<1>1. \A val \in {"ok", "free", "blocked", "error"} : \A n \in Nat :
        Rep(val, n) \in Reply /\ Rep(val, n).cmd = cmd /\ Rep(val, n).val = val
  BY DEF Reply
<1>2. /\ passed \in [1..MaxConns -> SUBSET HandshakeOps]
      /\ hits \in SUBSET (Calls \X (1..Buckets))
      /\ stored \in Nat /\ marked \in Nat /\ run \in Nat /\ cmd.run \in Nat
  BY DEF IInv, TypeOK, Command
<1>3. cmd.op = "eval" => Hit(cmd) \in Calls \X (1..Buckets)
  <2> SUFFICES ASSUME cmd.op = "eval" PROVE Hit(cmd) \in Calls \X (1..Buckets)
    OBVIOUS
  <2>1. cmd.call \in Calls
    BY DEF Command, HandshakeOps, EpochOps
  <2>2. call[cmd.call] \in CallRow
    BY <2>1 DEF IInv, TypeOK
  <2> QED
    BY <2>1, <2>2 DEF Hit, CallRow
<1>4. \A val, n : Answer(g, cmd, val, n) =>
        inbox' = IF g = conn /\ sock = "up" THEN Append(inbox, Rep(val, n)) ELSE inbox
  BY DEF Answer
<1> HIDE DEF Rep
<1>5. CASE /\ Answer(g, cmd, "error", 0)
           /\ UNCHANGED <<passed, stored, marked, hits, strays>>
  <2>1. /\ Rep("error", 0) \in Reply
        /\ Rep("error", 0).cmd = cmd /\ Rep("error", 0).val = "error"
        /\ inbox' = IF g = conn /\ sock = "up" THEN Append(inbox, Rep("error", 0)) ELSE inbox
    <3>1. Rep("error", 0) \in Reply
          /\ Rep("error", 0).cmd = cmd /\ Rep("error", 0).val = "error"
      BY <1>1
    <3>2. Answer(g, cmd, "error", 0)
      BY <1>5
    <3> QED
      BY <1>4, <3>1, <3>2
  <2> QED
    BY <1>2, <1>5, <2>1
<1>6. CASE /\ Critical(cmd)
           /\ passed' = [passed EXCEPT ![g] = @ \cup {cmd.op}]
           /\ Answer(g, cmd, "ok", 0)
           /\ UNCHANGED <<stored, marked, hits, strays>>
  <2>1. cmd.op \in HandshakeOps /\ cmd.op # "eval"
    BY <1>6 DEF Critical, HandshakeOps
  <2>2. /\ passed' \in [1..MaxConns -> SUBSET HandshakeOps]
        /\ cmd.op \in passed'[g]
        /\ \A h \in 1..MaxConns : passed[h] \subseteq passed'[h]
    BY <1>2, <1>6, <2>1
  <2>3. /\ Rep("ok", 0) \in Reply /\ Rep("ok", 0).cmd = cmd
        /\ inbox' = IF g = conn /\ sock = "up" THEN Append(inbox, Rep("ok", 0)) ELSE inbox
    BY <1>1, <1>4, <1>6
  <2> QED
    BY <1>2, <1>6, <2>1, <2>2, <2>3
<1>7. CASE /\ ~Critical(cmd) /\ UNCHANGED <<passed, stored, marked>>
           /\ cmd.op = "eval" /\ Script(g, cmd)
  <2>1. CASE Answer(g, cmd, "blocked", 0) /\ UNCHANGED <<hits, strays>>
    <3>1. /\ Rep("blocked", 0) \in Reply
          /\ Rep("blocked", 0).cmd = cmd /\ Rep("blocked", 0).val = "blocked"
      BY <1>1
    <3>2. inbox' = IF g = conn /\ sock = "up" THEN Append(inbox, Rep("blocked", 0))
                   ELSE inbox
      BY <1>4, <2>1
    <3>3. ~Critical(cmd)
      BY <1>7
    <3> QED
      BY <1>2, <1>7, <2>1, <3>1, <3>2, <3>3
  <2>2. CASE Answer(g, cmd, "free", 0) /\ hits' = hits \cup {Hit(cmd)} /\ UNCHANGED strays
    <3>1. /\ Rep("free", 0) \in Reply
          /\ Rep("free", 0).cmd = cmd /\ Rep("free", 0).val = "free"
      BY <1>1
    <3>2. inbox' = IF g = conn /\ sock = "up" THEN Append(inbox, Rep("free", 0)) ELSE inbox
      BY <1>4, <2>2
    <3>3. /\ hits \subseteq hits' /\ Hit(cmd) \in hits'
          /\ hits' \in SUBSET (Calls \X (1..Buckets))
      BY <1>2, <1>3, <1>7, <2>2
    <3>4. ~Critical(cmd)
      BY <1>7
    <3> QED
      BY <1>2, <1>7, <2>2, <3>1, <3>2, <3>3, <3>4
  <2> QED
    BY <1>7, <2>1, <2>2 DEF Script
<1>8. CASE /\ ~Critical(cmd) /\ UNCHANGED <<passed, hits, strays>>
           /\ cmd.op \in EpochOps
           /\ \E n \in Nat : Answer(g, cmd, "ok", n)
           /\ stored' \in Nat /\ marked' \in Nat
  <2>1. cmd.op # "eval"
    BY <1>8 DEF EpochOps
  <2>2. PICK n \in Nat : Answer(g, cmd, "ok", n)
    BY <1>8
  <2>3. Rep("ok", n) \in Reply /\ Rep("ok", n).cmd = cmd
    BY <1>1
  <2>4. inbox' = IF g = conn /\ sock = "up" THEN Append(inbox, Rep("ok", n)) ELSE inbox
    BY <1>4, <2>2
  <2> QED
    BY <1>2, <1>8, <2>1, <2>3, <2>4
<1>9. \/ /\ Answer(g, cmd, "error", 0)
         /\ UNCHANGED <<passed, stored, marked, hits, strays>>
      \/ /\ Critical(cmd)
         /\ passed' = [passed EXCEPT ![g] = @ \cup {cmd.op}]
         /\ Answer(g, cmd, "ok", 0)
         /\ UNCHANGED <<stored, marked, hits, strays>>
      \/ /\ ~Critical(cmd) /\ UNCHANGED <<passed, stored, marked>>
         /\ cmd.op = "eval" /\ Script(g, cmd)
      \/ /\ ~Critical(cmd) /\ UNCHANGED <<passed, hits, strays>>
         /\ cmd.op \in EpochOps
         /\ \E n \in Nat : Answer(g, cmd, "ok", n)
         /\ stored' \in Nat /\ marked' \in Nat
  BY <1>2 DEF Served
<1> QED
  BY <1>5, <1>6, <1>7, <1>8, <1>9

LEMMA ServeKeeps ==
  ASSUME RedisAssumption, IInv, NEW g \in 1..MaxConns, Serve(g)
  PROVE  IInv'
<1> DEFINE cmd == Head(wire[g])
<1>1. /\ wire[g] # <<>> /\ due = {} /\ due' = {}
      /\ wire' = [wire EXCEPT ![g] = Tail(@)]
      /\ Served(g, cmd)
      /\ UNCHANGED <<sock, remaining, cool, closed, awaiting, backlog, call, conn,
                     run, lost, losses, garbled>>
  BY DEF Serve, Quiet, client
<1>2. wire[g] \in Seq(Command)
  BY DEF IInv, TypeOK
<1>3. cmd \in Command /\ cmd = wire[g][1] /\ 1 \in 1..Len(wire[g])
  BY <1>1, <1>2
<1>4. cmd.op = "eval" => InDatabase(g)
  BY <1>3 DEF IInv, Placed
<1> HIDE DEF cmd
<1>5. /\ hits \subseteq hits' /\ hits' \in SUBSET (Calls \X (1..Buckets))
      /\ strays' = strays
      /\ passed' \in [1..MaxConns -> SUBSET HandshakeOps]
      /\ \A h \in 1..MaxConns : passed[h] \subseteq passed'[h]
      /\ stored' \in Nat /\ marked' \in Nat
  BY <1>1, <1>3, <1>4, ServedFacts
<1>6. PICK rep \in Reply :
        /\ rep.cmd = cmd
        /\ cmd.op = "eval" => /\ rep.val # "ok"
                              /\ rep.val = "free" => Hit(cmd) \in hits'
        /\ Critical(cmd) /\ rep.val # "error" => cmd.op \in passed'[g]
        /\ inbox' = IF g = conn /\ sock = "up" THEN Append(inbox, rep) ELSE inbox
  BY <1>1, <1>3, <1>4, ServedFacts
<1>7. /\ wire' \in [1..MaxConns -> Seq(Command)]
      /\ inbox' \in Seq(Reply)
      /\ \A h \in 1..MaxConns : \A i \in 1..Len(wire'[h]) :
           \E j \in 1..Len(wire[h]) : wire'[h][i] = wire[h][j]
      /\ \A i \in 1..Len(inbox') :
           \/ i \in 1..Len(inbox) /\ inbox'[i] = inbox[i]
           \/ sock = "up" /\ g = conn /\ inbox'[i] = rep
      /\ Aligned'
  BY <1>1, <1>6, ServeAligned DEF cmd
<1>8. TypeOK'
  BY <1>1, <1>5, <1>7 DEF IInv, TypeOK
<1>9. GreetedFirst'
  <2>1. sock = "up" => \A i \in 1..Len(inbox') :
          Critical(inbox'[i].cmd) /\ inbox'[i].val # "error"
            => inbox'[i].cmd.op \in passed'[conn]
    <3> SUFFICES ASSUME sock = "up", NEW i \in 1..Len(inbox'),
                        Critical(inbox'[i].cmd), inbox'[i].val # "error"
                 PROVE  inbox'[i].cmd.op \in passed'[conn]
      OBVIOUS
    <3>1. CASE i \in 1..Len(inbox) /\ inbox'[i] = inbox[i]
      <4>1. inbox[i].cmd.op \in passed[conn] /\ conn \in 1..MaxConns
        BY <3>1 DEF IInv, GreetedFirst, Aligned
      <4> QED
        BY <1>5, <3>1, <4>1
    <3>2. CASE g = conn /\ inbox'[i] = rep
      BY <1>6, <3>2
    <3> QED
      BY <1>7, <3>1, <3>2
  <2>2. sock = "up" => \A i \in 1..(Len(Handshake) - remaining) : Handshake[i] \in passed'[conn]
    BY <1>5 DEF IInv, GreetedFirst, Aligned
  <2> QED
    BY <1>1, <2>1, <2>2 DEF IInv, GreetedFirst, Critical
<1>10. Placed'
  <2>1. \A h \in 1..MaxConns : InDatabase(h) => InDatabase(h)'
    BY <1>5 DEF InDatabase, Asked
  <2>2. \A h \in 1..MaxConns : \A i \in 1..Len(wire'[h]) :
          wire'[h][i].op = "eval" => InDatabase(h)
    <3> SUFFICES ASSUME NEW h \in 1..MaxConns, NEW i \in 1..Len(wire'[h]),
                        wire'[h][i].op = "eval"
                 PROVE  InDatabase(h)
      OBVIOUS
    <3>1. PICK j \in 1..Len(wire[h]) : wire'[h][i] = wire[h][j]
      BY <1>7
    <3> QED
      BY <3>1 DEF IInv, Placed
  <2> QED
    BY <1>5, <2>1, <2>2 DEF IInv, Placed
<1>11. Queued'
  BY <1>1 DEF IInv, Queued
<1>12. Answers'
  <2>1. ASSUME NEW i \in 1..Len(inbox') PROVE Honest(inbox[i])'
    <3>1. CASE i \in 1..Len(inbox) /\ inbox'[i] = inbox[i]
      BY <1>1, <1>5, <3>1 DEF IInv, Answers, Honest, Hit
    <3>2. CASE inbox'[i] = rep
      BY <1>1, <1>6, <3>2 DEF Honest, Hit
    <3> QED
      BY <1>7, <3>1, <3>2
  <2> QED
    BY <1>1, <2>1 DEF Answers
<1>13. Counted'
  BY <1>1, <1>5 DEF IInv, Counted
<1> QED
  BY <1>7, <1>8, <1>9, <1>10, <1>11, <1>12, <1>13 DEF IInv

-----------------------------------------------------------------------------
LEMMA NextKeeps == ASSUME RedisAssumption PROVE IInv /\ [Next]_vars => IInv'
<1> SUFFICES ASSUME IInv, [Next]_vars PROVE IInv'
  OBVIOUS
<1>1. CASE Next
  BY <1>1, RequestKeeps, ReleasedKeeps, ConnectedKeeps, CooldownKeeps, ResetsKeep,
     ConsumeKeeps, EpochCheckKeeps, AfterEvalKeeps, ServeKeeps, LossKeeps DEF Next
<1>2. CASE UNCHANGED vars
  <2>1. TypeOK' /\ Aligned' /\ GreetedFirst' /\ Placed'
    BY <1>2 DEF vars, client, server, IInv, TypeOK, Aligned, GreetedFirst, Placed, InDatabase
  <2>2. Queued' /\ Answers' /\ Counted'
    BY <1>2 DEF vars, client, server, IInv, Queued, Answers, Honest, Hit, Counted
  <2> QED
    BY <2>1, <2>2 DEF IInv
<1> QED
  BY <1>1, <1>2

LEMMA PipelineInvariant == ASSUME RedisAssumption PROVE Spec => []IInv
<1>1. Init => IInv
  BY InitIInv
<1>2. IInv /\ [Next]_vars => IInv'
  BY NextKeeps
<1> QED
  BY <1>1, <1>2, PTL DEF Spec

\* Queues, counters and rows keep their types; above all the countdown of the
\* handshake never goes below zero.
THEOREM RedisTypeCorrect == ASSUME RedisAssumption PROVE Spec => []TypeOK
<1>1. IInv => TypeOK
  BY DEF IInv
<1> QED
  BY <1>1, PipelineInvariant, PTL

\* For any number of requests, buckets, connections and failures: a request of
\* a limiter that fails closed is let through only when Redis has counted it in
\* every bucket.
THEOREM AdmissionsCounted == ASSUME RedisAssumption PROVE Spec => []AdmittedAreCounted
<1>1. IInv => AdmittedAreCounted
  <2> SUFFICES ASSUME IInv, NEW c \in Calls \ FailOpen, call[c].at = "admitted",
                      NEW b \in 1..Buckets
               PROVE  <<c, b>> \in hits
    BY DEF AdmittedAreCounted
  <2>1. /\ \A d \in 1..(call[c].bucket - 1) : <<c, d>> \in hits
        /\ call[c].bucket = Buckets /\ <<c, Buckets>> \in hits
    BY DEF IInv, Counted
  <2>2. b = Buckets \/ b \in 1..(Buckets - 1)
    BY DEF RedisAssumption
  <2> QED
    BY <2>1, <2>2
<1> QED
  BY <1>1, PipelineInvariant, PTL

\* No request is counted before AUTH and SELECT of its connection have gone
\* well.
THEOREM CountsInPlace == ASSUME RedisAssumption PROVE Spec => []CountedInPlace
<1>1. IInv => CountedInPlace
  BY DEF IInv, Placed, CountedInPlace
<1> QED
  BY <1>1, PipelineInvariant, PTL
-----------------------------------------------------------------------------
\* What a request waits for is there.  (That a handshake under way has commands
\* in the queue is GreetedFirst.)
Attended(c) ==
    /\ call[c].at = "connect" => sock = "connecting"
    /\ call[c].at = "ready" => sock = "up"
    /\ call[c].at = "queued" =>
         \E i \in 1..Len(awaiting) : awaiting[i] = Cmd("eval", c, 0)
    /\ call[c].at = "answered" => \E r \in due : r.cmd = Cmd("eval", c, 0)

AllAttended == \A c \in Calls : Attended(c)

\* The reply whose promise continues is of the one request that is answered.
LEMMA OneAnswered ==
  ASSUME IInv, AllAttended, NEW c \in Calls, call[c].at = "answered", NEW r \in due
  PROVE  r.cmd = Cmd("eval", c, 0) /\ r.cmd.op = "eval" /\ r.cmd.call = c
<1>1. r.cmd = Cmd("eval", c, 0)
  BY DEF AllAttended, Attended, IInv, Answers
<1> QED
  BY <1>1 DEF Cmd

\* A new command leaves those before it where they are.
LEMMA SendKeepsQueue ==
  ASSUME RedisAssumption, IInv, NEW cmd \in Command, Send(cmd),
         sock' = sock, UNCHANGED <<conn, inbox>>
  PROVE  /\ \A i \in 1..Len(awaiting) :
              i \in 1..Len(awaiting') /\ awaiting'[i] = awaiting[i]
         /\ sock = "up" => \E i \in 1..Len(awaiting') : awaiting'[i] = cmd
<1>1. Len(awaiting) \in Nat /\ (sock # "up" => Len(awaiting) = 0)
  BY DEF IInv, TypeOK, Aligned
<1>2. sock = "up" => /\ Len(awaiting') = Len(awaiting) + 1
                     /\ \A i \in 1..Len(awaiting) : awaiting'[i] = awaiting[i]
                     /\ awaiting'[Len(awaiting) + 1] = cmd
  BY SendQueues DEF IInv
<1> QED
  BY <1>1, <1>2

\* A step of one request, with the queue only growing, disturbs no other one.
LEMMA OthersAttended ==
  ASSUME IInv, AllAttended, NEW c \in Calls, NEW row,
         call' = [call EXCEPT ![c] = row],
         sock' = sock \/ (sock # "up" /\ sock' = "connecting"),
         \A i \in 1..Len(awaiting) : i \in 1..Len(awaiting') /\ awaiting'[i] = awaiting[i],
         \A d \in Calls \ {c} : call[d].at # "answered",
         Attended(c)'
  PROVE  AllAttended'
<1> SUFFICES ASSUME NEW d \in Calls, d # c PROVE Attended(d)'
  BY DEF AllAttended
<1>1. call'[d] = call[d] /\ call[d].at # "answered"
  BY DEF IInv, TypeOK
<1>2. Attended(d)
  BY DEF AllAttended
<1> QED
  BY <1>1, <1>2 DEF Attended, Cmd

LEMMA ExecAttends ==
  ASSUME RedisAssumption, IInv, AllAttended, NEW c \in Calls, NEW b \in 1..Buckets,
         Exec(c, b), \A d \in Calls \ {c} : call[d].at # "answered",
         UNCHANGED <<conn, inbox>>
  PROVE  AllAttended'
<1> DEFINE Row(place) == [at |-> place, bucket |-> b]
<1>0. \A place : call' = [call EXCEPT ![c] = Row(place)] => call'[c] = Row(place)
  BY DEF IInv, TypeOK
<1>1. CASE \E place \in {Denial(c), "connect", "ready"} :
             /\ call' = [call EXCEPT ![c] = Row(place)]
             /\ sock' = sock \/ (sock # "up" /\ sock' = "connecting")
             /\ place = "connect" => sock' = "connecting"
             /\ place = "ready" => sock' = "up"
             /\ UNCHANGED awaiting
  <2>1. PICK place \in {Denial(c), "connect", "ready"} :
          /\ call' = [call EXCEPT ![c] = Row(place)]
          /\ sock' = sock \/ (sock # "up" /\ sock' = "connecting")
          /\ place = "connect" => sock' = "connecting"
          /\ place = "ready" => sock' = "up"
          /\ UNCHANGED awaiting
    BY <1>1
  <2>2. call'[c] = Row(place)
    BY <1>0, <2>1
  <2>3. call'[c].at = place /\ place \notin {"queued", "answered"}
    BY <2>2 DEF Denial
  <2>4. Attended(c)'
    BY <2>1, <2>3 DEF Attended, Denial
  <2> QED
    BY <2>1, <2>4, OthersAttended
<1>2. CASE /\ sock = "up" /\ UNCHANGED sock
           /\ call' = [call EXCEPT ![c] = Row("queued")]
           /\ Send(Cmd("eval", c, 0))
  <2>1. Cmd("eval", c, 0) \in Command
    BY DEF Cmd, Command
  <2>2. /\ \A i \in 1..Len(awaiting) :
             i \in 1..Len(awaiting') /\ awaiting'[i] = awaiting[i]
        /\ \E i \in 1..Len(awaiting') : awaiting'[i] = Cmd("eval", c, 0)
    BY <1>2, <2>1, SendKeepsQueue
  <2>3. call'[c] = Row("queued")
    BY <1>0, <1>2
  <2>4. call'[c].at = "queued"
    BY <2>3
  <2>5. Attended(c)'
    BY <2>2, <2>4 DEF Attended, Cmd
  <2> QED
    BY <1>2, <2>2, <2>5, OthersAttended
<1>3. \/ \E place \in {Denial(c), "connect", "ready"} :
           /\ call' = [call EXCEPT ![c] = Row(place)]
           /\ \/ place = Denial(c) /\ UNCHANGED sock
              \/ place = "connect" /\ sock # "up" /\ sock' = "connecting"
              \/ place = "ready" /\ sock = "up" /\ UNCHANGED sock
           /\ UNCHANGED awaiting
      \/ /\ sock = "up" /\ UNCHANGED sock
         /\ call' = [call EXCEPT ![c] = Row("queued")]
         /\ Send(Cmd("eval", c, 0))
  BY DEF Exec
<1>4. Denial(c) \notin {"connect", "ready"}
  BY DEF Denial
<1> HIDE DEF Row
<1> QED
  BY <1>1, <1>2, <1>3, <1>4

LEMMA RequestAttends ==
  ASSUME RedisAssumption, IInv, AllAttended, NEW c \in Calls, Request(c)
  PROVE  AllAttended'
<1>1. 1 \in 1..Buckets
  BY DEF RedisAssumption
<1>2. \A d \in Calls : call[d].at # "answered"
  BY OneAnswered DEF Request, Quiet, AllAttended, Attended
<1> QED
  BY <1>1, <1>2, ExecAttends DEF Request

LEMMA ReleasedAttends ==
  ASSUME RedisAssumption, IInv, AllAttended, NEW c \in Calls, Released(c)
  PROVE  AllAttended'
<1>1. Cmd("eval", c, 0) \in Command
  BY DEF Cmd, Command
<1>2. /\ \A i \in 1..Len(awaiting) :
           i \in 1..Len(awaiting') /\ awaiting'[i] = awaiting[i]
      /\ \E i \in 1..Len(awaiting') : awaiting'[i] = Cmd("eval", c, 0)
  BY <1>1, SendKeepsQueue DEF Released
<1>3. call'[c].at = "queued"
  BY DEF Released, IInv, TypeOK, CallRow
<1>4. Attended(c)'
  BY <1>2, <1>3 DEF Attended, Cmd
<1>5. \A d \in Calls : call[d].at # "answered"
  BY DEF Released, AllAttended, Attended
<1> QED
  BY <1>2, <1>4, <1>5, OthersAttended DEF Released

\* The epoch check is of no request.
LEMMA EpochCheckAttends ==
  ASSUME RedisAssumption, IInv, AllAttended,
         StartEpochCheck \/ AfterInfo \/ AfterGet \/ AfterSetRun \/ AfterSetWarm
  PROVE  AllAttended'
<1>1. PICK r \in due : r.cmd.op # "eval"
  BY DEF StartEpochCheck, AfterInfo, AfterGet, AfterSetRun, AfterSetWarm, Continue
<1>2. \A c \in Calls : call[c].at # "answered"
  BY <1>1, OneAnswered
<1>3. \A s \in due : s.run \in Nat /\ s.cmd.run \in Nat
  <2>1. \A s \in due : s \in Reply
    BY DEF IInv, TypeOK
  <2> QED
    BY <2>1 DEF Reply, Command
<1>4. UNCHANGED <<sock, call, conn, inbox>>
  BY DEF StartEpochCheck, AfterInfo, AfterGet, AfterSetRun, AfterSetWarm, Continue
<1>5. UNCHANGED awaiting \/ \E cmd \in Command : Send(cmd)
  <2>1. \A op \in EpochOps, n \in Nat : Cmd(op, None, n) \in Command
    BY DEF Cmd, Command
  <2>2. CASE StartEpochCheck
    BY <2>1, <2>2 DEF StartEpochCheck, EpochOps
  <2>3. CASE AfterInfo
    BY <2>1, <2>3, <1>3 DEF AfterInfo, EpochOps
  <2>4. CASE AfterGet
    BY <2>1, <2>4, <1>3 DEF AfterGet, EpochOps
  <2>5. CASE AfterSetRun
    BY <2>1, <2>5 DEF AfterSetRun, EpochOps
  <2>6. CASE AfterSetWarm
    BY <2>6 DEF AfterSetWarm
  <2> QED
    BY <2>2, <2>3, <2>4, <2>5, <2>6
<1>6. \A i \in 1..Len(awaiting) : i \in 1..Len(awaiting') /\ awaiting'[i] = awaiting[i]
  BY <1>4, <1>5, SendKeepsQueue
<1> QED
  BY <1>2, <1>4, <1>6 DEF AllAttended, Attended, Cmd

LEMMA AfterEvalAttends ==
  ASSUME RedisAssumption, IInv, AllAttended, AfterEval
  PROVE  AllAttended'
<1>1. PICK r \in due :
        \/ /\ \E place \in {"blocked", "admitted"} :
                call' = [call EXCEPT ![r.cmd.call].at = place]
           /\ UNCHANGED <<sock, awaiting>>
        \/ /\ call[r.cmd.call].bucket < Buckets
           /\ Exec(r.cmd.call, call[r.cmd.call].bucket + 1)
  BY DEF AfterEval
<1> DEFINE c == r.cmd.call
<1>2. r.cmd.op = "eval"
  BY DEF AfterEval, Continue, IInv, Answers
<1>3. c \in Calls
  <2>1. r.cmd \in Command
    BY DEF IInv, TypeOK, Reply
  <2> QED
    BY <1>2, <2>1 DEF Command, HandshakeOps, EpochOps
<1>4. \A d \in Calls \ {c} : call[d].at # "answered"
  BY OneAnswered
<1>5. call[c] \in CallRow
  BY <1>3 DEF IInv, TypeOK
<1> HIDE DEF c
<1>6. CASE /\ \E place \in {"blocked", "admitted"} : call' = [call EXCEPT ![c].at = place]
           /\ UNCHANGED <<sock, awaiting>>
  <2>1. PICK place \in {"blocked", "admitted"} : call' = [call EXCEPT ![c].at = place]
    BY <1>6
  <2>2. call'[c].at = place
    BY <1>3, <1>5, <2>1 DEF IInv, TypeOK, CallRow
  <2>3. Attended(c)'
    BY <2>2 DEF Attended
  <2> QED
    BY <1>3, <1>4, <1>6, <2>1, <2>3, OthersAttended
<1>7. CASE call[c].bucket < Buckets /\ Exec(c, call[c].bucket + 1)
  <2>1. call[c].bucket + 1 \in 1..Buckets
    BY <1>5, <1>7 DEF CallRow, RedisAssumption
  <2>2. UNCHANGED <<conn, inbox>>
    BY DEF AfterEval, Continue
  <2> QED
    BY <1>3, <1>4, <1>7, <2>1, <2>2, ExecAttends
<1> QED
  BY <1>1, <1>6, <1>7 DEF c

\* Requests that are denied wait for nothing any more.
LEMMA DeniedAttended ==
  ASSUME IInv, AllAttended, NEW C, call' = Denied(C),
         \A c \in Calls \ C : Attended(c) => call'[c] = call[c] /\ Attended(c)'
  PROVE  AllAttended'
<1> SUFFICES ASSUME NEW c \in Calls PROVE Attended(c)'
  BY DEF AllAttended
<1>1. call \in [Calls -> CallRow] /\ Attended(c)
  BY DEF IInv, TypeOK, AllAttended
<1>2. CASE c \in C
  <2>1. call'[c].at \in {"admitted", "refused"}
    BY <1>1, <1>2, DeniedRows DEF Denial
  <2> QED
    BY <2>1 DEF Attended
<1> QED
  BY <1>1, <1>2

LEMMA FailPendingAttends ==
  ASSUME IInv, AllAttended, FailPending, sock = "connecting" => sock' = "connecting",
         UNCHANGED due
  PROVE  AllAttended'
<1> DEFINE C == At({"queued", "ready"})
<1>1. call' = Denied(C)
  BY DEF FailPending
<1>2. ASSUME NEW c \in Calls \ C, Attended(c)
      PROVE  call'[c] = call[c] /\ Attended(c)'
  <2>1. call'[c] = call[c]
    BY <1>1, DeniedRows DEF IInv, TypeOK
  <2>2. call[c].at \notin {"queued", "ready"}
    BY DEF At
  <2> QED
    BY <1>2, <2>1, <2>2 DEF Attended, Cmd
<1> HIDE DEF C
<1> QED
  BY <1>1, <1>2, DeniedAttended

LEMMA ResetsAttend ==
  ASSUME IInv, AllAttended,
         Disconnect \/ Expire \/ Garbage \/ Close \/ (TearDown /\ UNCHANGED due)
  PROVE  AllAttended'
<1>1. FailPending /\ UNCHANGED due
  BY DEF Disconnect, Expire, Garbage, Close, TearDown
<1>2. sock = "connecting" => sock' = "connecting"
  BY DEF Disconnect, Expire, Garbage, Close, TearDown
<1> QED
  BY <1>1, <1>2, FailPendingAttends

LEMMA ConnectFailsAttends ==
  ASSUME IInv, AllAttended, ConnectFails
  PROVE  AllAttended'
<1> DEFINE C == At({"connect"})
<1>1. call' = Denied(C) /\ sock = "connecting" /\ UNCHANGED <<awaiting, due>>
  BY DEF ConnectFails
<1>2. ASSUME NEW c \in Calls \ C, Attended(c)
      PROVE  call'[c] = call[c] /\ Attended(c)'
  <2>1. call'[c] = call[c]
    BY <1>1, DeniedRows DEF IInv, TypeOK
  <2>2. call[c].at # "connect"
    BY DEF At
  <2> QED
    BY <1>1, <1>2, <2>1, <2>2 DEF Attended, Cmd
<1> HIDE DEF C
<1> QED
  BY <1>1, <1>2, DeniedAttended

\* Without a socket no request is in the queue, so that only those that wait
\* for the connect go on, to wait for the handshake.
LEMMA ConnectedAttends ==
  ASSUME IInv, AllAttended, Connected
  PROVE  AllAttended'
<1> SUFFICES ASSUME NEW c \in Calls PROVE Attended(c)'
  BY DEF AllAttended
<1>1. sock = "connecting" /\ sock' = "up" /\ awaiting = <<>> /\ due = {}
  BY DEF Connected, Quiet, IInv, Aligned
<1>2. Attended(c) /\ call[c] \in CallRow
  BY DEF AllAttended, IInv, TypeOK
<1>3. call[c].at \notin {"ready", "queued", "answered"}
  BY <1>1, <1>2 DEF Attended
<1>4. call'[c] = IF call[c].at = "connect" THEN [call[c] EXCEPT !.at = "ready"] ELSE call[c]
  BY DEF Connected, At
<1>5. call'[c].at \notin {"connect", "queued", "answered"}
  BY <1>2, <1>3, <1>4 DEF CallRow
<1> QED
  BY <1>1, <1>5 DEF Attended

\* The oldest command goes, and its request with it.
LEMMA ConsumeAttends ==
  ASSUME RedisAssumption, IInv, AllAttended, Consume
  PROVE  AllAttended'
<1> DEFINE p == Head(awaiting)
           r == Head(inbox)
<1>1. sock = "up" /\ inbox # <<>> /\ due = {} /\ UNCHANGED <<conn, wire>>
  BY DEF Consume, Quiet
<1>2. CASE TearDown /\ UNCHANGED due
  BY <1>2, ResetsAttend
<1>3. CASE /\ Settle(p, r)
           /\ awaiting' = Tail(awaiting)
           /\ inbox' = Tail(inbox)
           /\ UNCHANGED sock
  <2>1. /\ p = awaiting[1] /\ p \in Command /\ 1 \in 1..Len(awaiting)
        /\ Len(awaiting') = Len(awaiting) - 1
        /\ \A i \in 1..Len(awaiting') : awaiting'[i] = awaiting[i + 1]
    BY <1>1, <1>3, ConsumeAligned
  <2>2. Len(awaiting) \in Nat
    BY DEF IInv, TypeOK
  <2>3. p.op = "eval" => p.call \in Calls /\ p = Cmd("eval", p.call, 0)
    BY <2>1 DEF Command, Cmd, HandshakeOps, EpochOps
  <2> HIDE DEF p, r
  <2>4. ASSUME NEW c \in Calls, ~(p.op = "eval" /\ p.call = c), call'[c] = call[c]
        PROVE  Attended(c)'
    <3>1. Attended(c) /\ call[c].at # "answered"
      BY <1>1 DEF AllAttended, Attended
    <3>2. ASSUME call[c].at = "queued"
          PROVE  \E i \in 1..Len(awaiting') : awaiting'[i] = Cmd("eval", c, 0)
      <4>1. PICK i \in 1..Len(awaiting) : awaiting[i] = Cmd("eval", c, 0)
        BY <3>1, <3>2 DEF Attended
      <4>2. i # 1
        BY <2>1, <2>4, <4>1 DEF Cmd
      <4>3. i - 1 \in 1..Len(awaiting') /\ (i - 1) + 1 = i
        BY <2>1, <2>2, <4>2
      <4> QED
        BY <2>1, <4>1, <4>3
    <3> QED
      BY <1>3, <2>4, <3>1, <3>2 DEF Attended, Cmd
  <2>5. CASE r.val = "error"
    <3>1. CASE p.op = "eval"
      <4>1. call' = Denied({p.call})
        BY <1>3, <2>5, <3>1 DEF Settle
      <4>2. \A c \in Calls \ {p.call} : call'[c] = call[c]
        BY <4>1, DeniedRows DEF IInv, TypeOK
      <4> QED
        BY <2>4, <4>1, <4>2, DeniedAttended
    <3>2. CASE p.op # "eval"
      BY <1>3, <2>4, <2>5, <3>2 DEF Settle, AllAttended
    <3> QED
      BY <3>1, <3>2
  <2>6. CASE r.val # "error" /\ Critical(p)
    <3>1. p.op # "eval" /\ call' = call
      BY <1>3, <2>6 DEF Settle, Critical, HandshakeOps
    <3> QED
      BY <2>4, <3>1 DEF AllAttended
  <2>7. CASE r.val # "error" /\ ~Critical(p)
    <3>1. /\ due' = {[r EXCEPT !.cmd = p]}
          /\ call' = IF p.op = "eval" THEN [call EXCEPT ![p.call].at = "answered"] ELSE call
      BY <1>3, <2>7 DEF Settle
    <3>2. CASE p.op # "eval"
      BY <2>4, <3>1, <3>2 DEF AllAttended
    <3>3. CASE p.op = "eval"
      <4>0. PICK c \in Calls : c = p.call
        BY <2>3, <3>3
      <4>1. \A d \in Calls \ {c} : call'[d] = call[d]
        BY <3>1, <3>3, <4>0 DEF IInv, TypeOK
      <4>2. call'[c].at = "answered"
        BY <3>1, <3>3, <4>0 DEF IInv, TypeOK, CallRow
      <4>3. \E s \in due' : s.cmd = Cmd("eval", c, 0)
        <5>1. r \in Reply
          BY <1>1, <1>3, ConsumeAligned DEF r
        <5>2. [r EXCEPT !.cmd = p].cmd = p
          BY <5>1 DEF Reply
        <5> QED
          BY <2>3, <3>1, <3>3, <4>0, <5>2
      <4>4. Attended(c)'
        BY <4>2, <4>3 DEF Attended, Cmd
      <4>5. \A d \in Calls \ {c} : Attended(d)'
        BY <2>4, <4>0, <4>1
      <4> QED
        BY <4>4, <4>5 DEF AllAttended
    <3> QED
      BY <3>2, <3>3
  <2> QED
    BY <2>5, <2>6, <2>7
<1> QED
  BY <1>2, <1>3 DEF Consume

LEMMA NextAttends ==
  ASSUME RedisAssumption, IInv, AllAttended, [Next]_vars
  PROVE  AllAttended'
<1>1. CASE UNCHANGED <<sock, awaiting, due, call>>
  BY <1>1 DEF AllAttended, Attended, Cmd
<1>2. CASE CooldownEnds \/ (\E g \in 1..MaxConns : Serve(g)) \/ Restart \/ Flush
           \/ UNCHANGED vars
  <2>1. UNCHANGED <<sock, awaiting, due, call>>
    BY <1>2 DEF CooldownEnds, Serve, Restart, Flush, vars, client
  <2> QED
    BY <1>1, <2>1
<1> QED
  BY <1>2, RequestAttends, ReleasedAttends, ConnectedAttends, ConnectFailsAttends,
     ResetsAttend, ConsumeAttends, EpochCheckAttends, AfterEvalAttends DEF Next

\* For any number of requests, buckets, connections and failures: what a request
\* waits for is still to come.
THEOREM WaitersAttended == ASSUME RedisAssumption PROVE Spec => []NobodyForgotten
<1>1. Init => AllAttended
  <2> SUFFICES ASSUME Init, NEW c \in Calls PROVE Attended(c)
    BY DEF AllAttended
  <2>1. call[c].at = "idle"
    BY DEF Init
  <2> QED
    BY <2>1 DEF Attended
<1>2. IInv /\ AllAttended /\ [Next]_vars => AllAttended'
  BY NextAttends
<1>3. IInv /\ AllAttended => NobodyForgotten
  <2> SUFFICES ASSUME IInv, AllAttended, NEW c \in Calls, call[c].at = "ready",
                      awaiting = <<>>
               PROVE  remaining = 0
    BY DEF NobodyForgotten, AllAttended, Attended
  <2>1. sock = "up" /\ remaining <= Len(awaiting) /\ remaining \in Nat /\ Len(awaiting) = 0
    BY DEF AllAttended, Attended, IInv, GreetedFirst, TypeOK
  <2> QED
    BY <2>1
<1> QED
  BY <1>1, <1>2, <1>3, PipelineInvariant, PTL DEF Spec
=============================================================================
