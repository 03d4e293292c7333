-------------------------------- MODULE Proxy ---------------------------------
(***************************************************************************)
(* The readers of one agent's member table: the TCP proxy (proxy.rs) and   *)
(* the HTTP API (api.rs).  Each client is a task of its own: it reads the  *)
(* table under its lock, then the node's readiness under another, and a    *)
(* proxied one draws its place in the round robin and tries the backends   *)
(* from there, while the table changes under all of them.                  *)
(***************************************************************************)
EXTENDS Naturals, Sequences, FiniteSets, SequencesExt

CONSTANTS
    Member,     \* the members of the cluster
    Self,       \* the one this agent is
    Ip,         \* Ip[m]: the address of m's machine, in the order addresses sort
    Client,     \* clients of the proxy or the API
    Wants,      \* Wants[c]: the members with the tag c asks for, all without one
    Belief      \* what the table may say of a member, out of AnyBelief

\* Alive with its app answering or not, suspected, dead, or not there at all.
AnyBelief == {"ready", "down", "suspect", "dead", "absent"}

Peer == Member \ {Self}

ASSUME MemberAssumption ==
    /\ IsFiniteSet(Member) /\ Self \in Member
    /\ Ip \in [Member -> Nat] /\ Belief \subseteq AnyBelief
    /\ Wants \in [Client -> SUBSET Member]

VARIABLES
    table,    \* table[m]: what this agent believes of m
    ready,    \* LocalNode.ready
    next,     \* the round robin's counter, shared by all clients
    client,   \* client[c]: where its task is, the addresses found so far, the
              \* list, its start in it and the backends it tried
    ever,     \* history: the members that could take c's work at some time since
              \* c came, until it has its list
    always    \* history: and those that could all the time

vars == <<table, ready, next, client, ever, always>>

Serves(t, r, m) == IF m = Self THEN r ELSE t[m] = "ready"

\* MemberTable::ready: alive, and the app answers.
ReadyPeers(t) == {m \in Peer : t[m] = "ready"}

IpsOf(members) == {Ip[m] : m \in members}

New == [pc |-> "new", found |-> {}, list |-> <<>>, start |-> 0, tried |-> <<>>]

Init ==
    /\ table \in [Peer -> Belief]
    /\ ready \in BOOLEAN
    /\ next = 0
    /\ client = [c \in Client |-> New]
    /\ ever = [c \in Client |-> {}]
    /\ always = [c \in Client |-> {}]

-----------------------------------------------------------------------------
(* A client.                                                                *)

\* The accept loop spawns its task.
Accept(c) ==
    /\ client[c].pc = "new"
    /\ client' = [client EXCEPT ![c].pc = "table"]
    /\ ever' = [ever EXCEPT ![c] = {m \in Wants[c] : Serves(table, ready, m)}]
    /\ always' = [always EXCEPT ![c] = ever'[c]]
    /\ UNCHANGED <<table, ready, next>>

\* A mutant: a list that was made before is used again.
Found_Cached(c) ==
    IF \E d \in Client : client[d].list # <<>>
    THEN Range(client[CHOOSE d \in Client : client[d].list # <<>>].list)
    ELSE IpsOf(ReadyPeers(table) \intersect Wants[c])

\* The addresses of the ready peers with the tag.
Found(c) == IpsOf(ReadyPeers(table) \intersect Wants[c])

ReadTable(c) ==
    /\ client[c].pc = "table"
    /\ client' = [client EXCEPT ![c].pc = "self", ![c].found = Found(c)]
    /\ UNCHANGED <<table, ready, next, ever, always>>

\* sort and dedup: the addresses in their order, every one once.
InOrder(addrs) ==
    {list \in SetToSeqs(addrs) : \A i, j \in DOMAIN list : i < j => list[i] < list[j]}

\* This node's own address if it can take work.
Own(c) == IF ready /\ Self \in Wants[c] THEN {Ip[Self]} ELSE {}

ReadSelf(c) ==
    /\ client[c].pc = "self"
    /\ \E list \in InOrder(client[c].found \union Own(c)) :
          client' = [client EXCEPT ![c].pc = "listed", ![c].found = {}, ![c].list = list]
    /\ ever' = [ever EXCEPT ![c] = {}]
    /\ always' = [always EXCEPT ![c] = {}]
    /\ UNCHANGED <<table, ready, next>>

\* The API's answer is the list.
Answer(c) ==
    /\ client[c].pc = "listed"
    /\ client' = [client EXCEPT ![c].pc = "answered"]
    /\ UNCHANGED <<table, ready, next, ever, always>>

\* A mutant: every task counts in a copy of its own.
Advanced_Copy(n) == n

\* fetch_add: the proxy goes on from there.
Advanced(n) == n + 1

Draw(c) ==
    /\ client[c].pc = "listed"
    /\ client' = [client EXCEPT ![c].pc = "trying", ![c].start = next]
    /\ next' = Advanced(next)
    /\ UNCHANGED <<table, ready, ever, always>>

\* A mutant: each try looks where the round robin is now.
Turn_Shared(c) == next + Len(client[c].tried)

\* Where in the round c's next try is.
Turn(c) == client[c].start + Len(client[c].tried)

Backend(c) == client[c].list[(Turn(c) % Len(client[c].list)) + 1]

\* A mutant: one try too many.
HasTries_OneMore(c) ==
    client[c].list # <<>> /\ Len(client[c].tried) <= Len(client[c].list)

HasTries(c) == Len(client[c].tried) < Len(client[c].list)

\* The backend accepts, or refuses or is too slow.
Try(c, accepts) ==
    /\ client[c].pc = "trying" /\ HasTries(c)
    /\ client' = [client EXCEPT
          ![c].pc = IF accepts THEN "forwarding" ELSE "trying",
          ![c].tried = Append(@, Backend(c))]
    /\ UNCHANGED <<table, ready, next, ever, always>>

\* No backend accepted the connection.
TurnAway(c) ==
    /\ client[c].pc = "trying" /\ ~HasTries(c)
    /\ client' = [client EXCEPT ![c].pc = "turned_away"]
    /\ UNCHANGED <<table, ready, next, ever, always>>

-----------------------------------------------------------------------------
(* What the other tasks do to the table and the node.                       *)

Witness(t, r) ==
    LET can(c) == {m \in Wants[c] : Serves(t, r, m)}
        waits(c) == client[c].pc \in {"table", "self"}
    IN  /\ ever' = [c \in Client |-> IF waits(c) THEN ever[c] \union can(c) ELSE ever[c]]
        /\ always' = [c \in Client |->
                        IF waits(c) THEN always[c] \intersect can(c) ELSE always[c]]

\* Some rumor, mark or reap.
Learn(m, b) ==
    /\ table[m] # b
    /\ table' = [table EXCEPT ![m] = b]
    /\ Witness(table', ready)
    /\ UNCHANGED <<ready, next, client>>

\* The health check, or the leave.
SetReady(r) ==
    /\ ready # r
    /\ ready' = r
    /\ Witness(table, ready')
    /\ UNCHANGED <<table, next, client>>

Next ==
    \/ \E c \in Client :
        \/ Accept(c)
        \/ ReadTable(c)
        \/ ReadSelf(c)
        \/ Answer(c)
        \/ Draw(c)
        \/ \E accepts \in BOOLEAN : Try(c, accepts)
        \/ TurnAway(c)
    \/ \E m \in Peer, b \in Belief : Learn(m, b)
    \/ \E r \in BOOLEAN : SetReady(r)

Spec == Init /\ [][Next]_vars

-----------------------------------------------------------------------------
(* Properties.                                                              *)

State == [pc : {"new", "table", "self", "listed", "answered",
                "trying", "forwarding", "turned_away"},
          found : SUBSET IpsOf(Member),
          list : Seq(IpsOf(Member)),
          start : Nat,
          tried : Seq(IpsOf(Member))]

\* c has drawn its place in the round robin.
Drew(c) == client[c].pc \in {"trying", "forwarding", "turned_away"}

\* Types: what the counter holds is how many have drawn.
TypeOK ==
    /\ table \in [Peer -> Belief]
    /\ ready \in BOOLEAN
    /\ next = Cardinality({c \in Client : Drew(c)})
    /\ client \in [Client -> State]
    /\ \A c \in Client :
          /\ IsInjective(client[c].list)
          /\ Drew(c) => client[c].start < next
          /\ Len(client[c].tried) <= Len(client[c].list)
    /\ ever \in [Client -> SUBSET Member]
    /\ always \in [Client -> SUBSET Member]

\* "Every backend gets one try" (proxy.rs, forward): whatever the other clients
\* draw meanwhile, no backend is tried twice, and a client is turned away only
\* when each one on its list has been tried.
OneTryEach ==
    \A c \in Client :
        /\ IsInjective(client[c].tried)
        /\ client[c].pc = "turned_away" =>
              Range(client[c].tried) = Range(client[c].list)

\* "Shared by every connection, so two clients arriving at once start at different
\* backends" (proxy.rs, start_proxy): clients that got the same list, and are fewer
\* draws apart than it is long, start at different backends.
RoundRobin ==
    \A c, d \in Client :
        /\ c # d /\ client[c].tried # <<>> /\ client[d].tried # <<>>
        /\ client[c].list = client[d].list
        /\ client[c].start <= client[d].start
        /\ client[d].start - client[c].start < Len(client[c].list)
        => client[c].tried[1] # client[d].tried[1]

\* "Read fresh for every connection, so a member that died a moment ago is already
\* gone from the list" (proxy.rs, forward): a backend on the list is a member that
\* was alive, ready and tagged at some time after the client came, and a member
\* that was so all that time is on it.  The same for the API, "so the two never
\* disagree" (api.rs, backends).
ListIsCurrent ==
    [][\A c \in Client : ReadSelf(c) =>
          /\ Range(client'[c].list) \subseteq IpsOf(ever[c])
          /\ IpsOf(always[c]) \subseteq Range(client'[c].list)]_vars
=============================================================================
