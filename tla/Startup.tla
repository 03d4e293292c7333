------------------------------- MODULE Startup --------------------------------
(***************************************************************************)
(* Processes that start and find each other (start.rs `execute`), and the  *)
(* exchanges over TCP they do it by (join.rs, sync.rs, auth.rs).           *)
(*                                                                         *)
(* An exchange is one connection: the client writes a request, a task of   *)
(* the server's reads it, snapshots the table, merges what the request     *)
(* says, and answers on the same connection.  A connection may break and a *)
(* wait may time out at any time; the server's task does not hear of it.   *)
(*                                                                         *)
(* A table is the set of processes it has a record of: what the records    *)
(* say, and how one comes to be dropped, is Membership's.                  *)
(***************************************************************************)
EXTENDS Naturals, FiniteSets, Sequences

CONSTANTS
    Node,          \* processes, and the addresses they listen at
    Seeds,         \* Seeds[n]: the processes n is to join through, in order
    Keyring,       \* the ways keys may be given to the processes
    MaxExchanges,  \* MaxExchanges[n]: bound on the connections n opens
    NoSeed

ASSUME SeedsAssumption == Seeds \in [Node -> Seq(Node)] /\ NoSeed \notin Node
ASSUME ExchangesAssumption == MaxExchanges \in [Node -> Nat]

VARIABLES
    key,       \* key[n]: the --key n was started with
    phase,     \* phase[n]: how far `execute` is
    tried,     \* tried[n]: how many seeds have failed n
    through,   \* through[n]: the seed n joined through
    known,     \* known[n]: the processes n has a record of
    opened,    \* opened[n]: how many connections n has opened
    waits,     \* waits[n]: n waits for the reply on its last connection
    conn       \* the connections some server has yet to answer, or some client to
               \* read the answer of

vars == <<key, phase, tried, through, known, opened, waits, conn>>

\* "new", "bound" (the gossip sockets), "joining" (all sockets, and the loops run),
\* "running"; then "failed" for a process that did not get its sockets, "gone" for
\* any other that ended, and "stalled" for one that lives and does nothing: the
\* machine it is on still accepts connections for it.
Phase == {"new", "bound", "joining", "running", "failed", "gone", "stalled"}

Bound(n) == phase[n] \in {"bound", "joining", "running", "stalled"}

\* A mutant: the accept loop starts after the join.
Serving_Joined(n) == phase[n] = "running"

\* The accept loop runs.
Serving(n) == phase[n] \in {"joining", "running"}

\* Nobody has a record of itself.
Others(n, members) == members \ {n}

Absorb(n, members) ==
    known' = [known EXCEPT ![n] = @ \union Others(n, members)]

Init ==
    /\ key \in Keyring
    /\ phase = [n \in Node |-> "new"]
    /\ tried = [n \in Node |-> 0]
    /\ through = [n \in Node |-> NoSeed]
    /\ known = [n \in Node |-> {}]
    /\ opened = [n \in Node |-> 0]
    /\ waits = [n \in Node |-> FALSE]
    /\ conn = {}

-----------------------------------------------------------------------------
(* execute.                                                                 *)

\* The gossip sockets, or the port is taken.
Bind(n) ==
    /\ phase[n] = "new"
    /\ \E p \in {"bound", "failed"} : phase' = [phase EXCEPT ![n] = p]
    /\ UNCHANGED <<key, tried, through, known, opened, waits, conn>>

\* The proxy's and the API's sockets, then the loops.
Serve(n) ==
    /\ phase[n] = "bound"
    /\ \E p \in {"failed", IF Seeds[n] = <<>> THEN "running" ELSE "joining"} :
          phase' = [phase EXCEPT ![n] = p]
    /\ conn' = IF phase'[n] = "failed" THEN {c \in conn : c.server # n} ELSE conn
    /\ UNCHANGED <<key, tried, through, known, opened, waits>>

\* A mutant: the proxy's socket is bound when the proxy starts.
AfterJoin_BindsLate == {"running", "failed"}

\* All that is left after the join is to start loops.
AfterJoin == {"running"}

SeedsLeft(n) == tried[n] < Len(Seeds[n])

\* A mutant: a failure counts twice.
NextSeed_Twice(n) == tried' = [tried EXCEPT ![n] = @ + 2]

\* The next seed's turn.
NextSeed(n) == tried' = [tried EXCEPT ![n] = @ + 1]

Exit(n) ==
    /\ phase' = [phase EXCEPT ![n] = "gone"]
    /\ through' = [through EXCEPT ![n] = NoSeed]
    /\ known' = [known EXCEPT ![n] = {}]
    /\ waits' = [waits EXCEPT ![n] = FALSE]
    /\ conn' = {c \in conn : c.server # n}
    /\ UNCHANGED <<key, tried, opened>>

\* None of the seeds accepted the join.
GiveUp(n) ==
    /\ phase[n] = "joining" /\ ~waits[n] /\ ~SeedsLeft(n)
    /\ Exit(n)

\* The process is killed, or shuts down.
End(n) == Bound(n) /\ Exit(n)

\* It hangs, its machine does not.
Stall(n) ==
    /\ phase[n] \in {"joining", "running"}
    /\ phase' = [phase EXCEPT ![n] = "stalled"]
    /\ waits' = [waits EXCEPT ![n] = FALSE]
    /\ through' = [through EXCEPT ![n] = NoSeed]
    /\ UNCHANGED <<key, tried, known, opened, conn>>

-----------------------------------------------------------------------------
(* The client's side of an exchange.                                        *)

Request(n, m, kind, members) ==
    /\ opened[n] < MaxExchanges[n]
    /\ conn' = conn \union
          {[client |-> n, server |-> m, no |-> opened[n], kind |-> kind,
            at |-> "sent", members |-> members, reply |-> {}]}
    /\ opened' = [opened EXCEPT ![n] = @ + 1]
    /\ waits' = [waits EXCEPT ![n] = TRUE]

\* A mutant: whatever comes while it waits is its reply.
Mine_Any(n) == {c \in conn : waits[n] /\ c.client = n}

\* The connection n waits on, unless it is closed.
Mine(n) == {c \in conn : waits[n] /\ c.client = n /\ c.no = opened[n] - 1}

\* join_through, on the next seed.
Join(n) ==
    /\ phase[n] = "joining" /\ ~waits[n] /\ SeedsLeft(n)
    /\ LET seed == Seeds[n][tried[n] + 1]
       IN  Bound(seed) /\ Request(n, seed, "join", {n})
    /\ UNCHANGED <<key, phase, tried, through, known>>

\* Nothing listens at the next seed's address.
Refused(n) ==
    /\ phase[n] = "joining" /\ ~waits[n] /\ SeedsLeft(n)
    /\ ~Bound(Seeds[n][tried[n] + 1])
    /\ NextSeed(n)
    /\ UNCHANGED <<key, phase, through, known, opened, waits, conn>>

\* sync_with; a partner that does not listen changes nothing.
Sync(n, m) ==
    /\ phase[n] = "running" /\ ~waits[n]
    /\ m \in known[n] /\ Bound(m)
    /\ Request(n, m, "sync", known[n] \union {n})
    /\ UNCHANGED <<key, phase, tried, through, known>>

\* The reply: who answered, and all it knew.
Receive(n, c) ==
    /\ c \in Mine(n) /\ c.at = "replied"
    /\ Absorb(n, c.reply \union {c.server})
    /\ waits' = [waits EXCEPT ![n] = FALSE]
    /\ conn' = conn \ {c}
    /\ \/ /\ c.kind = "join"
          /\ \E p \in AfterJoin : phase' = [phase EXCEPT ![n] = p]
          /\ through' = [through EXCEPT ![n] = c.server]
       \/ /\ c.kind = "sync"
          /\ UNCHANGED <<phase, through>>
    /\ UNCHANGED <<key, tried, opened>>

\* An exchange without a reply: the next seed, or another sync in its time.
Fails(n) ==
    /\ waits' = [waits EXCEPT ![n] = FALSE]
    /\ \/ phase[n] = "joining" /\ NextSeed(n)
       \/ phase[n] = "running" /\ UNCHANGED tried

\* The server closed the connection, or it broke.
Hangup(n) ==
    /\ waits[n] /\ Mine(n) = {}
    /\ Fails(n)
    /\ UNCHANGED <<key, phase, through, known, opened, conn>>

\* A mutant: a sync waits for its reply without a timeout.
CanTimeOut_Joins(n) == Mine(n) # {} /\ phase[n] = "joining"

\* Both kinds of exchange wait with a timeout.
CanTimeOut(n) == Mine(n) # {}

\* IO_TIMEOUT passes.  What was sent stays with the server.
TimeOut(n) ==
    /\ CanTimeOut(n)
    /\ Fails(n)
    /\ conn' = {c \in conn : c \notin Mine(n) \/ c.at # "replied"}
    /\ UNCHANGED <<key, phase, through, known, opened>>

-----------------------------------------------------------------------------
(* The server's side: a task for each connection.                           *)

\* A mutant: any tag will do.
Opens_Any(n, c) == TRUE

\* A request is read only if it is sealed with the reader's own key.
Opens(n, c) == key[c.client] = key[n]

\* The connection is dropped.
Reject(n, c) ==
    /\ Serving(n) /\ c.server = n /\ c.at = "sent" /\ ~Opens(n, c)
    /\ conn' = conn \ {c}
    /\ UNCHANGED <<key, phase, tried, through, known, opened, waits>>

\* The reply is made first.
Snapshot(n, c) ==
    /\ Serving(n) /\ c.server = n /\ c.at = "sent" /\ Opens(n, c)
    /\ conn' = (conn \ {c}) \union {[c EXCEPT !.at = "read", !.reply = known[n]]}
    /\ UNCHANGED <<key, phase, tried, through, known, opened, waits>>

\* A mutant: a joiner is left to be heard of in its time.
Told_Syncs(c) == IF c.kind = "sync" THEN c.members ELSE {}

\* What a request says: who sent it, and in a sync all that it knows.
Told(c) == c.members

\* Then the request is merged, and the reply written if its client still waits.
Answer(n, c) ==
    /\ Serving(n) /\ c.server = n /\ c.at = "read"
    /\ Absorb(n, Told(c))
    /\ conn' = (conn \ {c}) \union
          {[d EXCEPT !.at = "replied", !.members = {}] :
              d \in {c} \intersect Mine(c.client)}
    /\ UNCHANGED <<key, phase, tried, through, opened, waits>>

\* The network breaks a connection.
Break(c) ==
    /\ conn' = conn \ {c}
    /\ UNCHANGED <<key, phase, tried, through, known, opened, waits>>

StartStep(n) == Bind(n) \/ Serve(n)

ClientStep(n) ==
    \/ Join(n)
    \/ Refused(n)
    \/ GiveUp(n)
    \/ \E c \in conn : Receive(n, c)
    \/ Hangup(n)

ServerStep(n) == \E c \in conn : Reject(n, c) \/ Snapshot(n, c) \/ Answer(n, c)

\* Processes end or hang, connections break, replies are late.
Fault ==
    \/ \E n \in Node : End(n) \/ Stall(n) \/ TimeOut(n)
    \/ \E c \in conn : Break(c)

Next ==
    \/ \E n \in Node :
        \/ StartStep(n)
        \/ ClientStep(n)
        \/ ServerStep(n)
        \/ \E m \in Node : Sync(n, m)
    \/ Fault

\* The runtime runs every task that can go on.  When a sync begins, and whether a
\* process starts at all, is left open.
Fairness ==
    \A n \in Node :
        /\ WF_vars(ClientStep(n))
        /\ WF_vars(ServerStep(n))
        /\ WF_vars(Serve(n))

Spec == Init /\ [][Next]_vars /\ Fairness

\* Its timers fire.
TimersFire == \A n \in Node : WF_vars(TimeOut(n))

-----------------------------------------------------------------------------
(* Properties.                                                              *)

\* Types; no process tries more seeds than it has.
Connection ==
    [client : Node, server : Node, no : Nat, kind : {"join", "sync"},
     at : {"sent", "read", "replied"}, members : SUBSET Node, reply : SUBSET Node]
TypeOK ==
    /\ key \in Keyring
    /\ phase \in [Node -> Phase]
    /\ tried \in [Node -> Nat]
    /\ \A n \in Node : tried[n] <= Len(Seeds[n])
    /\ through \in [Node -> Node \union {NoSeed}]
    /\ known \in [Node -> SUBSET Node]
    /\ opened \in [Node -> Nat]
    /\ \A n \in Node : opened[n] <= MaxExchanges[n]
    /\ waits \in [Node -> BOOLEAN]
    /\ conn \subseteq Connection

\* "Bind before joining: once the seed has recorded us, it can hand our address to
\* the next node to join, which must find us listening", "if the proxy port is
\* taken, fail now" (start.rs, execute): nobody has a record of a process that does
\* not serve yet, or that never will for want of a socket.
OnlyServersAreKnown ==
    \A n, m \in Node : m \in known[n] => phase[m] \notin {"new", "bound", "failed"}

\* "A node with a key and a node without then reject each other loudly, instead of
\* one of them quietly accepting everything" (auth.rs, ClusterKey::none): whoever is
\* handed around, processes with different keys never have records of each other.
KeysKeepApart ==
    \A n, m \in Node : m \in known[n] => key[m] = key[n]

\* "Join the cluster through the first seed that answers" (join.rs, join): a process has
\* joined through the seed whose turn it was, all those before it having failed.  The
\* late answer of one that it had given up on is not taken for that of the next.
FirstThatAnswers ==
    \A n \in Node : through[n] # NoSeed =>
        SeedsLeft(n) /\ through[n] = Seeds[n][tried[n] + 1]

\* A process that has joined knows its seed, and its seed knows it, whatever became
\* of its other attempts (join.rs, join, handle_join_request, handle_join_response).
\* It may be its own seed: it listens by then, and answers itself.
JoinIsMutual ==
    \A n \in Node : through[n] \notin {NoSeed, n} =>
        /\ through[n] \in known[n]
        /\ Serving(through[n]) => n \in known[through[n]]

\* "One reply per request, until the peer hangs up" (join.rs, start_tcp_accept_loop):
\* two processes that join through each other, or sync with each other, do not wait
\* for each other.  Once there are no faults every exchange ends without a timeout,
\* unless its server hangs.
Hung(n) == \E c \in Mine(n) : phase[c.server] = "stalled"
NoMutualWait ==
    <>[][~Fault]_vars => \A n \in Node : waits[n] ~> (~waits[n] \/ Hung(n))

\* "How long we wait on a peer to connect or reply" (join.rs, IO_TIMEOUT): with any
\* faults, and even if the server hangs, nobody waits for a reply for ever.
WaitsEnd == TimersFire => \A n \in Node : waits[n] ~> ~waits[n]
=============================================================================
