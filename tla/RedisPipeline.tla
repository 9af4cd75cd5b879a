---------------------------- MODULE RedisPipeline ----------------------------
(***************************************************************************)
(* The rate limits of the gateway and the Redis client under them:         *)
(* server/src/utils/redisClient.ts (one pipelined connection, its          *)
(* handshake, timers, teardown and the epoch check of every fresh          *)
(* connection), utils/redisRateLimit.ts (the Lua script, one atomic step   *)
(* of the server) and the loops over buckets in middlewares/               *)
(* authRateLimit.ts and publicRateLimit.ts.                                *)
(*                                                                         *)
(* The client has no request numbers: a reply belongs to the oldest        *)
(* command that waits for one.  A connection is a FIFO of commands to the  *)
(* server and one of replies back; after the client has dropped it the     *)
(* server may still execute what was written to it.  One step is one task  *)
(* of the event loop or one continuation of a promise, and continuations   *)
(* (due) go before tasks.                                                  *)
(*                                                                         *)
(* Abstracted: whether a bucket has room (the server chooses), times       *)
(* (timers fire at any moment, cool is the reconnect cooldown), and the    *)
(* back-pressure of flush: a command held back by it is one the server     *)
(* has not got to yet.                                                     *)
(***************************************************************************)
EXTENDS Integers, Sequences

CONSTANTS
    Calls,      \* requests that pass a limiter, each once
    FailOpen,   \* those of a limiter with failureMode 'open'
    Buckets,    \* buckets a request has to pass, in order
    Handshake,  \* "auth" and "select", as far as REDIS_URL asks for them
    Refusable,  \* operations the server may answer with an error
    MaxConns,   \* bound of connections
    Losses,     \* bound of restarts and flushes of Redis
    Garbled,    \* bound of malformed replies
    None

HandshakeOps == {"auth", "select"}
EpochOps == {"info", "get", "setrun", "setwarm"}

ASSUME RedisAssumption ==
    /\ FailOpen \subseteq Calls
    /\ Buckets \in Nat \ {0}
    /\ Handshake \in Seq(HandshakeOps)
    /\ Handshake # <<>>
    /\ {MaxConns, Losses, Garbled} \subseteq Nat
    /\ None \notin Calls

VARIABLES
    sock,       \* socket and connecting
    remaining,  \* handshake commands without a reply; ready resolves at 0
    cool,       \* Date.now() < retryNotBefore
    closed,
    awaiting,   \* pending commands that are sent
    backlog,    \* pending commands that are not: queued without a socket
    due,        \* the reply whose promise continues before the next task
    call,       \* where each request is
    conn,       \* number of the newest connection
    wire,       \* commands written to a connection, not executed yet
    inbox,      \* replies of the newest connection
    passed,     \* handshake operations that succeeded on a connection
    lost,       \* connections whose server side is gone
    run,        \* run_id of the server
    stored,     \* the key epoch:runid, 0 when absent
    marked,     \* the run in which the warm-up marker was set last
    hits,       \* buckets that counted a request (history)
    strays,     \* requests counted in the wrong database
    losses,
    garbled

client == <<sock, remaining, cool, closed, awaiting, backlog, due, call>>
server == <<run, stored, marked, hits, strays, passed, lost, losses>>
vars == <<client, conn, wire, inbox, server, garbled>>

Final == {"admitted", "blocked", "refused"}
Command == [op : HandshakeOps \cup EpochOps \cup {"ready"}, call : {None}, run : Nat]
           \cup [op : {"eval"}, call : Calls, run : {0}]
Reply == [cmd : Command, val : {"ok", "free", "blocked", "error"}, run : Nat]
CallRow == [at : {"idle", "connect", "ready", "queued", "answered"} \cup Final,
            bucket : 1..Buckets]

TypeOK ==
    /\ sock \in {"none", "connecting", "up"}
    /\ remaining \in 0..Len(Handshake)
    /\ cool \in BOOLEAN
    /\ closed \in BOOLEAN
    /\ awaiting \in Seq(Command)
    /\ backlog \in Seq(Command)
    /\ due \in SUBSET Reply
    /\ call \in [Calls -> CallRow]
    /\ conn \in 0..MaxConns
    /\ wire \in [1..MaxConns -> Seq(Command)]
    /\ inbox \in Seq(Reply)
    /\ passed \in [1..MaxConns -> SUBSET HandshakeOps]
    /\ lost \in SUBSET (1..MaxConns)
    /\ run \in Nat \ {0}
    /\ stored \in Nat
    /\ marked \in Nat
    /\ hits \in SUBSET (Calls \X (1..Buckets))
    /\ strays \in SUBSET (Calls \X (1..Buckets))
    /\ losses \in 0..Losses
    /\ garbled \in 0..Garbled

Init ==
    /\ sock = "none"
    /\ remaining = 0
    /\ cool = FALSE
    /\ closed = FALSE
    /\ awaiting = <<>>
    /\ backlog = <<>>
    /\ due = {}
    /\ call = [c \in Calls |-> [at |-> "idle", bucket |-> 1]]
    /\ conn = 0
    /\ wire = [g \in 1..MaxConns |-> <<>>]
    /\ inbox = <<>>
    /\ passed = [g \in 1..MaxConns |-> {}]
    /\ lost = {}
    /\ run = 1
    /\ stored = 0
    /\ marked = 0
    /\ hits = {}
    /\ strays = {}
    /\ losses = 0
    /\ garbled = 0

-----------------------------------------------------------------------------
Cmd(op, c, r) == [op |-> op, call |-> c, run |-> r]
Greeting == [i \in 1..Len(Handshake) |-> Cmd(Handshake[i], None, 0)]
Critical(cmd) == cmd.op \in HandshakeOps
Resolved == {[cmd |-> Cmd("ready", None, 0), val |-> "ok", run |-> 0]}

\* The microtasks of a task have all run.
Quiet == due = {} /\ \A c \in Calls : ~(call[c].at = "ready" /\ remaining = 0)

\* The catch of the limiter: 503, or the handler runs unthrottled.
Denial(c) == IF c \in FailOpen THEN "admitted" ELSE "refused"

Denied(C) ==
    [c \in Calls |-> IF c \in C THEN [call[c] EXCEPT !.at = Denial(c)]
                     ELSE call[c]]

At(places) == {c \in Calls : call[c].at \in places}

\* push and flush
Send(cmd) ==
    IF sock = "up"
    THEN /\ awaiting' = Append(awaiting, cmd)
         /\ wire' = [wire EXCEPT ![conn] = Append(@, cmd)]
         /\ UNCHANGED backlog
    ELSE /\ backlog' = Append(backlog, cmd)
         /\ UNCHANGED <<awaiting, wire>>

\* Defects kept for comparison: exec does not await the handshake; its counter
\* is not set anew; a late command is dropped alone; a mute handshake has no
\* timer.
ReadyEarly == TRUE

\* what exec awaits before it queues a command
Ready == remaining = 0

-----------------------------------------------------------------------------
\* exec with the command of bucket b; the counter of connect attempts, and
\* the awaits of a connection that is there, are none of the state.
Exec(c, b) ==
    LET Moved(place) == call' = [call EXCEPT ![c] = [at |-> place, bucket |-> b]]
    IN  \/ /\ closed \/ (sock # "up" /\ cool)
           /\ Moved(Denial(c))
           /\ UNCHANGED <<sock, awaiting, backlog, wire>>
        \/ /\ ~closed /\ sock # "up" /\ ~cool
           /\ Moved("connect")
           /\ sock' = "connecting"
           /\ UNCHANGED <<awaiting, backlog, wire>>
        \/ /\ ~closed /\ sock = "up" /\ ~Ready
           /\ Moved("ready")
           /\ UNCHANGED <<sock, awaiting, backlog, wire>>
        \/ /\ ~closed /\ sock = "up" /\ Ready
           /\ Moved("queued")
           /\ Send(Cmd("eval", c, 0))
           /\ UNCHANGED sock

Request(c) ==
    /\ Quiet
    /\ call[c].at = "idle"
    /\ Exec(c, 1)
    /\ UNCHANGED <<remaining, cool, closed, due, conn, inbox, server, garbled>>

ExpectedOnce == remaining

Expected == Len(Handshake)

Connected ==
    /\ Quiet
    /\ sock = "connecting"
    /\ ~closed
    /\ conn < MaxConns
    /\ sock' = "up"
    /\ conn' = conn + 1
    /\ remaining' = Expected
    /\ awaiting' = Greeting \o awaiting \o backlog
    /\ wire' = [wire EXCEPT ![conn + 1] = Greeting \o backlog]
    /\ backlog' = <<>>
    /\ inbox' = <<>>
    /\ call' = [c \in Calls |-> IF c \in At({"connect"})
                                THEN [call[c] EXCEPT !.at = "ready"] ELSE call[c]]
    /\ UNCHANGED <<cool, closed, due, server, garbled>>

\* finishConnect of a closed client, a refused connection or the timer
ConnectFails ==
    /\ Quiet
    /\ sock = "connecting"
    /\ sock' = "none"
    /\ cool' = (cool \/ ~closed)
    /\ call' = Denied(At({"connect"}))
    /\ UNCHANGED <<remaining, closed, awaiting, backlog, due, conn, wire, inbox,
                   server, garbled>>

CooldownEnds ==
    /\ Quiet
    /\ cool
    /\ cool' = FALSE
    /\ UNCHANGED <<sock, remaining, closed, awaiting, backlog, due, call, conn,
                   wire, inbox, server, garbled>>

-----------------------------------------------------------------------------
\* failPending: the queued commands, and ready when its handshake is among
\* them; what then awaits ready finds no socket in either case.
FailPending ==
    /\ awaiting' = <<>>
    /\ backlog' = <<>>
    /\ call' = Denied(At({"queued", "ready"}))

TearDown ==
    /\ FailPending
    /\ sock' = IF sock = "up" THEN "none" ELSE sock
    /\ inbox' = <<>>
    /\ cool' = TRUE

Disconnect ==
    /\ Quiet
    /\ sock = "up"
    /\ TearDown
    /\ UNCHANGED <<remaining, closed, due, conn, wire, server, garbled>>

TimedOnceReady == remaining = 0 /\ awaiting \o backlog # <<>>

Timed == awaiting \o backlog # <<>>

ExpireAlone ==
    /\ Quiet
    /\ awaiting # <<>>
    /\ call' = IF Head(awaiting).op = "eval" THEN Denied({Head(awaiting).call}) ELSE call
    /\ awaiting' = Tail(awaiting)
    /\ UNCHANGED <<sock, remaining, cool, closed, backlog, due, conn, wire, inbox,
                   server, garbled>>

\* The timer of any pending command; also of one left over without a socket.
Expire ==
    /\ Quiet
    /\ Timed
    /\ TearDown
    /\ UNCHANGED <<remaining, closed, due, conn, wire, server, garbled>>

\* Bytes that do not parse, possibly in the chunk of the reply before them:
\* then the continuation of that reply finds no socket.
Garbage ==
    /\ due # {} \/ Quiet
    /\ sock = "up"
    /\ garbled < Garbled
    /\ garbled' = garbled + 1
    /\ TearDown
    /\ UNCHANGED <<remaining, closed, due, conn, wire, server>>

Close ==
    /\ Quiet
    /\ ~closed
    /\ closed' = TRUE
    /\ FailPending
    /\ sock' = IF sock = "up" THEN "none" ELSE sock
    /\ inbox' = <<>>
    /\ UNCHANGED <<remaining, cool, due, conn, wire, server, garbled>>

-----------------------------------------------------------------------------
\* settleCommand of the oldest pending command
Settle(p, r) ==
    IF r.val = "error"
    THEN /\ call' = IF p.op = "eval" THEN Denied({p.call}) ELSE call
         /\ UNCHANGED <<remaining, due>>
    ELSE IF Critical(p)
         THEN /\ remaining' = remaining - 1
              /\ due' = IF remaining = 1 THEN Resolved ELSE {}
              /\ UNCHANGED call
         ELSE /\ due' = {[r EXCEPT !.cmd = p]}
              /\ call' = IF p.op = "eval" THEN [call EXCEPT ![p.call].at = "answered"]
                         ELSE call
              /\ UNCHANGED remaining

\* One round of consume; a refused AUTH or SELECT resets the pipeline, and so
\* would a reply without a command.
Consume ==
    /\ Quiet
    /\ sock = "up"
    /\ inbox # <<>>
    /\ IF awaiting = <<>> \/ (Critical(Head(awaiting)) /\ Head(inbox).val = "error")
       THEN TearDown /\ UNCHANGED <<remaining, due>>
       ELSE /\ Settle(Head(awaiting), Head(inbox))
            /\ awaiting' = Tail(awaiting)
            /\ inbox' = Tail(inbox)
            /\ UNCHANGED <<sock, cool, backlog>>
    /\ UNCHANGED <<closed, conn, wire, server, garbled>>

-----------------------------------------------------------------------------
\* The promise of an answered command continues.
Continue(op) ==
    /\ \E r \in due : r.cmd.op = op
    /\ due' = {}
    /\ UNCHANGED <<remaining, cool, closed, conn, inbox, server, garbled>>

\* ready resolves: verifyRedisEpoch starts, then the requests that wait.
StartEpochCheck ==
    /\ Continue("ready")
    /\ Send(Cmd("info", None, 0))
    /\ UNCHANGED <<sock, call>>

AfterInfo ==
    /\ Continue("info")
    /\ \E r \in due : Send(Cmd("get", None, r.run))
    /\ UNCHANGED <<sock, call>>

\* stored === runId
SameEpoch(r) == r.run = r.cmd.run

AfterGet ==
    /\ Continue("get")
    /\ \E r \in due :
         \/ SameEpoch(r) /\ UNCHANGED <<awaiting, backlog, wire>>
         \/ ~SameEpoch(r) /\ Send(Cmd("setrun", None, r.cmd.run))
    /\ UNCHANGED <<sock, call>>

AfterSetRun ==
    /\ Continue("setrun")
    /\ Send(Cmd("setwarm", None, 0))
    /\ UNCHANGED <<sock, call>>

AfterSetWarm ==
    /\ Continue("setwarm")
    /\ UNCHANGED <<sock, call, awaiting, backlog, wire>>

\* hitRedisRateLimit reads every answer that is no later time as "not
\* blocked"; then the loop goes on to the next bucket.
AfterEval ==
    /\ Continue("eval")
    /\ \E r \in due :
         LET c == r.cmd.call
         IN  \/ /\ r.val = "blocked"
                /\ call' = [call EXCEPT ![c].at = "blocked"]
                /\ UNCHANGED <<sock, awaiting, backlog, wire>>
             \/ /\ r.val # "blocked"
                /\ call[c].bucket = Buckets
                /\ call' = [call EXCEPT ![c].at = "admitted"]
                /\ UNCHANGED <<sock, awaiting, backlog, wire>>
             \/ /\ r.val # "blocked"
                /\ call[c].bucket < Buckets
                /\ Exec(c, call[c].bucket + 1)

\* A request that waited for the handshake queues its command.
Released(c) ==
    /\ due = {}
    /\ call[c].at = "ready"
    /\ remaining = 0
    /\ sock = "up"
    /\ Send(Cmd("eval", c, 0))
    /\ call' = [call EXCEPT ![c].at = "queued"]
    /\ UNCHANGED <<sock, remaining, cool, closed, due, conn, inbox, server,
                   garbled>>

-----------------------------------------------------------------------------
\* The server.  A reply reaches the client while its connection is the one in
\* use.
Answer(g, cmd, val, r) ==
    inbox' = IF g = conn /\ sock = "up"
             THEN Append(inbox, [cmd |-> cmd, val |-> val, run |-> r]) ELSE inbox

Asked == {Handshake[i] : i \in 1..Len(Handshake)}
Barred(g) == "auth" \in Asked \ passed[g]
InDatabase(g) == Asked \subseteq passed[g]

Hit(cmd) == <<cmd.call, call[cmd.call].bucket>>

\* The Lua script in one step: blocked, full, or the hit is recorded.
Script(g, cmd) ==
    \/ /\ Answer(g, cmd, "blocked", 0)
       /\ UNCHANGED <<hits, strays>>
    \/ /\ Answer(g, cmd, "free", 0)
       /\ IF InDatabase(g)
          THEN hits' = hits \cup {Hit(cmd)} /\ UNCHANGED strays
          ELSE strays' = strays \cup {Hit(cmd)} /\ UNCHANGED hits

Served(g, cmd) ==
    \/ /\ cmd.op \in Refusable \/ (Barred(g) /\ cmd.op # "auth")
       /\ Answer(g, cmd, "error", 0)
       /\ UNCHANGED <<passed, stored, marked, hits, strays>>
    \/ /\ Critical(cmd)
       /\ cmd.op = "auth" \/ ~Barred(g)
       /\ passed' = [passed EXCEPT ![g] = @ \cup {cmd.op}]
       /\ Answer(g, cmd, "ok", 0)
       /\ UNCHANGED <<stored, marked, hits, strays>>
    \/ /\ ~Critical(cmd)
       /\ ~Barred(g)
       /\ \/ cmd.op = "eval" /\ Script(g, cmd) /\ UNCHANGED <<stored, marked>>
          \/ /\ cmd.op \in EpochOps
             /\ Answer(g, cmd, "ok", IF cmd.op = "get" /\ InDatabase(g) THEN stored
                                     ELSE IF cmd.op = "info" THEN run ELSE 0)
             /\ stored' = IF cmd.op = "setrun" /\ InDatabase(g) THEN cmd.run ELSE stored
             /\ marked' = IF cmd.op = "setwarm" /\ InDatabase(g) THEN run ELSE marked
             /\ UNCHANGED <<hits, strays>>
       /\ UNCHANGED passed

\* Also on a connection the client has dropped.
Serve(g) ==
    /\ Quiet
    /\ g \notin lost
    /\ wire[g] # <<>>
    /\ wire' = [wire EXCEPT ![g] = Tail(@)]
    /\ Served(g, Head(wire[g]))
    /\ UNCHANGED <<client, conn, run, lost, losses, garbled>>

\* Redis restarts without its data.
Restart ==
    /\ Quiet
    /\ losses < Losses
    /\ losses' = losses + 1
    /\ run' = run + 1
    /\ stored' = 0
    /\ lost' = lost \cup 1..conn
    /\ UNCHANGED <<client, conn, wire, inbox, marked, hits, strays, passed, garbled>>

\* FLUSHALL
Flush ==
    /\ Quiet
    /\ losses < Losses
    /\ losses' = losses + 1
    /\ stored' = 0
    /\ marked' = 0
    /\ UNCHANGED <<client, conn, wire, inbox, run, hits, strays, passed, lost, garbled>>

-----------------------------------------------------------------------------
Next ==
    \/ \E c \in Calls : Request(c) \/ Released(c)
    \/ Connected \/ ConnectFails \/ CooldownEnds
    \/ Disconnect \/ Expire \/ Garbage \/ Close
    \/ Consume
    \/ StartEpochCheck \/ AfterInfo \/ AfterGet \/ AfterSetRun \/ AfterSetWarm
    \/ AfterEval
    \/ \E g \in 1..MaxConns : Serve(g)
    \/ Restart \/ Flush

Continuations ==
    \/ StartEpochCheck \/ AfterInfo \/ AfterGet \/ AfterSetRun \/ AfterSetWarm
    \/ AfterEval
    \/ \E c \in Calls : Released(c)

Spec == Init /\ [][Next]_vars

\* Promises continue and timers fire; nothing is assumed of Redis or of the
\* network.
FairSpec == Spec /\ WF_vars(Continuations) /\ WF_vars(ConnectFails) /\ WF_vars(Expire)

-----------------------------------------------------------------------------
\* A request of a limiter that fails closed gets through only when Redis has
\* counted it in every one of its buckets, whatever was lost, late, torn down
\* or left over on the way: no request lives on the reply of another command.
AdmittedAreCounted ==
    \A c \in Calls \ FailOpen : call[c].at = "admitted"
        => \A b \in 1..Buckets : <<c, b>> \in hits

\* No request is counted before AUTH and SELECT of its connection: the counters
\* of another database are nobody's.
CountedInPlace == strays = {}

\* What a request waits for is still to come: the outcome of a connect that is
\* under way, a handshake that is done or has commands (and so a timer) left in
\* the queue, its own command in the queue, the continuation of its own reply.
\* No teardown, timeout, close or reconnect leaves a promise that nothing will
\* settle any more.
NobodyForgotten ==
    \A c \in Calls :
        /\ call[c].at = "connect" => sock = "connecting"
        /\ call[c].at = "ready" => sock = "up" /\ (remaining = 0 \/ awaiting # <<>>)
        /\ call[c].at = "queued" =>
             \E i \in 1..Len(awaiting) : awaiting[i] = Cmd("eval", c, 0)
        /\ call[c].at = "answered" => \E r \in due : r.cmd = Cmd("eval", c, 0)

\* Every request that waits for Redis gets an answer, also when Redis is mute:
\* no promise of the client is left pending.
RequestsSettle ==
    \A c \in Calls : call[c].at # "idle" ~> call[c].at \in Final
=============================================================================
