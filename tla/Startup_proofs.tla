---------------------------- MODULE Startup_proofs ----------------------------
(***************************************************************************)
(* Proofs about Startup, for every set of processes, every list of seeds,  *)
(* every handing out of keys and every number of exchanges.                *)
(*                                                                         *)
(* Each property needs to know what the connections carry, and how far     *)
(* their two ends must be; IInv says it.                                   *)
(***************************************************************************)
EXTENDS Startup, TLAPS

USE SeedsAssumption, ExchangesAssumption

\* The phases of a process that has all its sockets, or had.
Late == {"joining", "running", "gone", "stalled"}

\* What a connection's request and its reply may say.
ConnInv(c) ==
    /\ phase[c.client] \in Late
    /\ c.at # "replied" => c.client \in c.members
    /\ c.at # "sent" => phase[c.server] \in Late /\ key[c.client] = key[c.server]
    /\ \A k \in c.members : phase[k] \in Late /\ key[k] = key[c.client]
    /\ \A k \in c.reply : phase[k] \in Late /\ key[k] = key[c.server]
    /\ c.at = "replied" /\ Serving(c.server) /\ c.server # c.client =>
          c.client \in known[c.server]

\* What a process may know, and wait for.
NodeInv(n) ==
    /\ n \notin known[n]
    /\ \A m \in known[n] : phase[m] \in Late /\ key[m] = key[n]
    /\ waits[n] => phase[n] \in {"joining", "running"}
    /\ waits[n] /\ phase[n] = "joining" => SeedsLeft(n)
    /\ known[n] # {} => phase[n] \in Late
    /\ through[n] \notin {NoSeed, n} =>
          /\ through[n] \in known[n]
          /\ Serving(through[n]) => n \in known[through[n]]

IInv ==
    /\ TypeOK
    /\ \A c \in conn : ConnInv(c)
    /\ \A n \in Node : NodeInv(n)

-----------------------------------------------------------------------------
(* Types.                                                                   *)

\* Init establishes the invariant.
LEMMA InitIInv == Init => IInv
<1> SUFFICES ASSUME Init PROVE IInv
  OBVIOUS
<1>1. TypeOK
  BY DEF Init, TypeOK, Phase
<1>2. \A n \in Node : NodeInv(n)
  BY DEF Init, NodeInv
<1> QED
  BY <1>1, <1>2 DEF Init, IInv

\* A list of seeds has a length.
LEMMA SeedsType == \A n \in Node : Seeds[n] \in Seq(Node) /\ Len(Seeds[n]) \in Nat
OBVIOUS

\* A failed exchange moves on by one seed, and only if there is one.
LEMMA FailsType ==
    ASSUME IInv, NEW n \in Node, waits[n], Fails(n)
    PROVE  /\ waits' = [waits EXCEPT ![n] = FALSE]
           /\ tried' \in [Node -> Nat]
           /\ \A m \in Node : tried'[m] <= Len(Seeds[m])
           /\ \A m \in Node : m # n => tried'[m] = tried[m]
<1>1. tried \in [Node -> Nat] /\ (\A m \in Node : tried[m] <= Len(Seeds[m]))
  BY DEF IInv, TypeOK
<1>2. phase[n] = "joining" => tried[n] < Len(Seeds[n])
  BY DEF IInv, NodeInv, SeedsLeft
<1>3. waits' = [waits EXCEPT ![n] = FALSE]
  BY DEF Fails
<1>4. CASE phase[n] = "joining" /\ NextSeed(n)
  <2>1. tried[n] + 1 \in Nat /\ tried[n] + 1 <= Len(Seeds[n])
    BY <1>1, <1>2, <1>4, SeedsType
  <2> QED
    BY <1>1, <1>3, <1>4, <2>1 DEF NextSeed
<1>5. CASE UNCHANGED tried
  BY <1>1, <1>3, <1>5
<1> QED
  BY <1>4, <1>5 DEF Fails

\* Every step of n's `execute` and of its client's side keeps the types.
LEMMA ClientType ==
    ASSUME IInv, NEW n \in Node,
           StartStep(n) \/ ClientStep(n) \/ (\E m \in Node : Sync(n, m))
              \/ End(n) \/ Stall(n) \/ TimeOut(n)
    PROVE  TypeOK'
<1> USE DEF Phase
<1>0. TypeOK
  BY DEF IInv
<1>1. CASE Bind(n)
  BY <1>0, <1>1 DEF Bind, TypeOK
<1>2. CASE Serve(n)
  BY <1>0, <1>2 DEF Serve, TypeOK
<1>3. ASSUME Exit(n) PROVE TypeOK'
  BY <1>0, <1>3 DEF Exit, TypeOK
<1>4. ASSUME NEW m \in Node, NEW kind \in {"join", "sync"}, NEW members \in SUBSET Node,
             Request(n, m, kind, members),
             UNCHANGED <<key, phase, tried, through, known>>
      PROVE  TypeOK'
  <2>1. [client |-> n, server |-> m, no |-> opened[n], kind |-> kind, at |-> "sent",
         members |-> members, reply |-> {}] \in Connection
    BY <1>0 DEF TypeOK, Connection
  <2>2. opened[n] + 1 \in Nat /\ opened[n] + 1 <= MaxExchanges[n]
    BY <1>0, <1>4 DEF Request, TypeOK
  <2>3. opened' \in [Node -> Nat] /\ \A k \in Node : opened'[k] <= MaxExchanges[k]
    BY <1>0, <1>4, <2>2 DEF Request, TypeOK
  <2>4. waits' \in [Node -> BOOLEAN]
    BY <1>0, <1>4 DEF Request, TypeOK
  <2>5. conn' \subseteq Connection
    BY <1>0, <1>4, <2>1 DEF Request, TypeOK
  <2> QED
    BY <1>0, <1>4, <2>3, <2>4, <2>5 DEF TypeOK
<1>5. CASE Join(n)
  <2>1. tried[n] \in Nat /\ tried[n] < Len(Seeds[n])
    BY <1>0, <1>5 DEF Join, SeedsLeft, TypeOK
  <2>2. Seeds[n][tried[n] + 1] \in Node
    BY <2>1, SeedsType
  <2> QED
    BY <1>4, <1>5, <2>2 DEF Join
<1>6. CASE Refused(n)
  <2>1. tried[n] \in Nat /\ tried[n] < Len(Seeds[n])
    BY <1>0, <1>6 DEF Refused, SeedsLeft, TypeOK
  <2>2. tried[n] + 1 \in Nat /\ tried[n] + 1 <= Len(Seeds[n])
    BY <2>1, SeedsType
  <2> QED
    BY <1>0, <1>6, <2>2 DEF Refused, NextSeed, TypeOK
<1>7. CASE GiveUp(n)
  BY <1>3, <1>7 DEF GiveUp
<1>8. ASSUME NEW c \in conn, Receive(n, c) PROVE TypeOK'
  <2>1. c \in Connection
    BY <1>0 DEF TypeOK
  <2>2. known' \in [Node -> SUBSET Node]
    BY <1>0, <1>8, <2>1 DEF Receive, Absorb, Others, TypeOK, Connection
  <2>3. phase' \in [Node -> Phase] /\ through' \in [Node -> Node \union {NoSeed}]
    <3>1. c.server \in Node
      BY <2>1 DEF Connection
    <3>2. CASE UNCHANGED <<phase, through>>
      BY <1>0, <3>2 DEF TypeOK
    <3>3. CASE phase' = [phase EXCEPT ![n] = "running"]
               /\ through' = [through EXCEPT ![n] = c.server]
      BY <1>0, <3>1, <3>3 DEF TypeOK
    <3> QED
      BY <1>8, <3>2, <3>3 DEF Receive, AfterJoin
  <2> QED
    BY <1>0, <1>8, <2>2, <2>3 DEF Receive, TypeOK
<1>9. CASE Hangup(n)
  BY <1>0, <1>9, FailsType DEF Hangup, TypeOK
<1>10. CASE \E m \in Node : Sync(n, m)
  <2>1. PICK m \in Node : Sync(n, m)
    BY <1>10
  <2>2. known[n] \union {n} \in SUBSET Node
    BY <1>0 DEF TypeOK
  <2> QED
    BY <1>4, <2>1, <2>2 DEF Sync
<1>11. CASE End(n)
  BY <1>3, <1>11 DEF End
<1>12. CASE Stall(n)
  BY <1>0, <1>12 DEF Stall, TypeOK
<1>13. CASE TimeOut(n)
  <2>1. waits[n]
    BY <1>13 DEF TimeOut, CanTimeOut, Mine
  <2> QED
    BY <1>0, <1>13, <2>1, FailsType DEF TimeOut, TypeOK
<1> QED
  BY <1>1, <1>2, <1>5, <1>6, <1>7, <1>8, <1>9, <1>10, <1>11, <1>12, <1>13
  DEF StartStep, ClientStep

\* So does every step of its server's side, and a broken connection.
LEMMA ServerType ==
    ASSUME IInv, NEW n \in Node, NEW c \in conn,
           Reject(n, c) \/ Snapshot(n, c) \/ Answer(n, c) \/ Break(c)
    PROVE  TypeOK'
<1>0. TypeOK /\ c \in Connection
  BY DEF IInv, TypeOK
<1>1. CASE Reject(n, c)
  BY <1>0, <1>1 DEF Reject, TypeOK
<1>2. CASE Snapshot(n, c)
  <2>1. [c EXCEPT !.at = "read", !.reply = known[n]] \in Connection
    BY <1>0 DEF TypeOK, Connection
  <2> QED
    BY <1>0, <1>2, <2>1 DEF Snapshot, TypeOK
<1>3. CASE Answer(n, c)
  <2>1. [c EXCEPT !.at = "replied", !.members = {}] \in Connection
    BY <1>0 DEF Connection
  <2>2. {[d EXCEPT !.at = "replied", !.members = {}] : d \in {c} \intersect Mine(c.client)}
           \subseteq Connection
    BY <2>1
  <2>3. known' \in [Node -> SUBSET Node]
    BY <1>0, <1>3 DEF Answer, Absorb, Others, Told, TypeOK, Connection
  <2> QED
    BY <1>0, <1>3, <2>2, <2>3 DEF Answer, TypeOK
<1>4. CASE Break(c)
  BY <1>0, <1>4 DEF Break, TypeOK
<1> QED
  BY <1>1, <1>2, <1>3, <1>4

-----------------------------------------------------------------------------
(* What a step leaves as it is.                                             *)

\* Nobody who had all its sockets is as if it had not; and one that serves, and
\* had them before, served before and has forgotten nobody.
Onward ==
    /\ key' = key
    /\ \A k \in Node : phase[k] \in Late => phase'[k] \in Late
    /\ \A k \in Node : phase[k] \in Late /\ phase'[k] \in {"joining", "running"} =>
          phase[k] \in {"joining", "running"} /\ known[k] \subseteq known'[k]

\* So a connection keeps its invariant,
LEMMA ConnStays ==
    ASSUME TypeOK, Onward, NEW c \in Connection, ConnInv(c)
    PROVE  ConnInv(c)'
<1>1. c.client \in Node /\ c.server \in Node /\ c.members \subseteq Node /\ c.reply \subseteq Node
  BY DEF Connection
<1>2. c.at = "replied" /\ Serving(c.server)' => phase[c.server] \in Late /\ Serving(c.server)
  BY <1>1 DEF ConnInv, Onward, Serving
<1>3. c.at = "replied" /\ Serving(c.server)' => known[c.server] \subseteq known'[c.server]
  BY <1>1, <1>2 DEF Onward, Serving
<1> QED
  BY <1>1, <1>2, <1>3 DEF ConnInv, Onward

\* and a process that nothing happens to its own.
LEMMA NodeStays ==
    ASSUME TypeOK, Onward, NEW n \in Node, NodeInv(n),
           known'[n] = known[n], phase'[n] = phase[n], waits'[n] = waits[n],
           tried'[n] = tried[n], through'[n] = through[n]
    PROVE  NodeInv(n)'
<1>1. known[n] \subseteq Node /\ through[n] \in Node \union {NoSeed}
  BY DEF TypeOK
<1>2. through[n] \notin {NoSeed, n} =>
        /\ through[n] \in Node
        /\ phase[through[n]] \in Late
        /\ Serving(through[n])' => Serving(through[n]) /\ known[through[n]] \subseteq known'[through[n]]
  BY <1>1 DEF NodeInv, Onward, Serving
<1> QED
  BY <1>1, <1>2 DEF NodeInv, Onward, SeedsLeft

\* A process that is not yet Late knows nobody, waits for nobody and has joined
\* through nobody else.
LEMMA EarlyNode ==
    ASSUME TypeOK, NEW n \in Node, NodeInv(n), phase[n] \notin Late
    PROVE  known[n] = {} /\ ~waits[n] /\ through[n] \in {NoSeed, n}
BY DEF NodeInv, Late, TypeOK

\* The connections of a step that opens none, and the processes other than n.
LEMMA RestStays ==
    ASSUME IInv, TypeOK', Onward, conn' \subseteq conn, NEW n \in Node, NodeInv(n)',
           \A k \in Node \ {n} :
              known'[k] = known[k] /\ phase'[k] = phase[k] /\ waits'[k] = waits[k]
              /\ tried'[k] = tried[k] /\ through'[k] = through[k]
    PROVE  IInv'
<1>1. \A c \in conn' : ConnInv(c)'
  BY ConnStays DEF IInv, TypeOK
<1>2. \A k \in Node \ {n} : NodeInv(k)'
  BY NodeStays DEF IInv
<1> QED
  BY <1>1, <1>2 DEF IInv

-----------------------------------------------------------------------------
(* Every step keeps the invariant.                                          *)

\* A process gets its gossip sockets, or ends without.
LEMMA BindIInv == ASSUME IInv, NEW n \in Node, Bind(n) PROVE IInv'
<1>1. TypeOK /\ NodeInv(n) /\ TypeOK'
  BY ClientType DEF IInv, StartStep
<1>2. phase[n] \notin Late /\ phase'[n] \in {"bound", "failed"}
  BY <1>1 DEF Bind, TypeOK, Late
<1>3. known[n] = {} /\ ~waits[n] /\ through[n] \in {NoSeed, n}
  BY <1>1, <1>2, EarlyNode
<1>4. \A k \in Node \ {n} : phase'[k] = phase[k]
  BY <1>1 DEF Bind, TypeOK
<1>5. Onward
  BY <1>2, <1>4 DEF Bind, Onward
<1>6. NodeInv(n)'
  BY <1>3 DEF Bind, NodeInv
<1> QED
  BY <1>1, <1>4, <1>5, <1>6, RestStays DEF Bind

\* It gets the other sockets, or ends without: nobody knows it yet.
LEMMA ServeIInv == ASSUME IInv, NEW n \in Node, Serve(n) PROVE IInv'
<1>1. TypeOK /\ NodeInv(n) /\ TypeOK'
  BY ClientType DEF IInv, StartStep
<1>2. phase[n] \notin Late
  BY DEF Serve, Late
<1>3. known[n] = {} /\ ~waits[n] /\ through[n] \in {NoSeed, n}
  BY <1>1, <1>2, EarlyNode
<1>4. \A k \in Node \ {n} : phase'[k] = phase[k]
  BY <1>1 DEF Serve, TypeOK
<1>5. Onward
  BY <1>2, <1>4 DEF Serve, Onward
<1>6. NodeInv(n)'
  BY <1>3 DEF Serve, NodeInv
<1>7. conn' \subseteq conn
  BY DEF Serve
<1> QED
  BY <1>1, <1>4, <1>5, <1>6, <1>7, RestStays DEF Serve

\* It is gone, with what it knew and with the connections it served.
LEMMA ExitIInv == ASSUME IInv, NEW n \in Node, Exit(n), TypeOK' PROVE IInv'
<1>1. TypeOK /\ NodeInv(n)
  BY DEF IInv
<1>2. /\ phase'[n] = "gone" /\ known'[n] = {} /\ ~waits'[n] /\ through'[n] = NoSeed
      /\ \A k \in Node \ {n} :
            known'[k] = known[k] /\ phase'[k] = phase[k] /\ waits'[k] = waits[k]
            /\ tried'[k] = tried[k] /\ through'[k] = through[k]
  BY <1>1 DEF Exit, TypeOK
<1>3. Onward
  BY <1>2 DEF Exit, Onward, Late
<1>4. NodeInv(n)'
  BY <1>2 DEF NodeInv
<1>5. conn' \subseteq conn
  BY DEF Exit
<1> QED
  BY <1>2, <1>3, <1>4, <1>5, RestStays

\* It hangs: it knows what it knew, and does not serve.
LEMMA StallIInv == ASSUME IInv, NEW n \in Node, Stall(n) PROVE IInv'
<1>1. TypeOK /\ NodeInv(n) /\ TypeOK'
  BY ClientType DEF IInv
<1>2. /\ phase'[n] = "stalled" /\ ~waits'[n] /\ through'[n] = NoSeed
      /\ \A k \in Node \ {n} :
            known'[k] = known[k] /\ phase'[k] = phase[k] /\ waits'[k] = waits[k]
            /\ tried'[k] = tried[k] /\ through'[k] = through[k]
  BY <1>1 DEF Stall, TypeOK
<1>3. Onward
  BY <1>2 DEF Stall, Onward, Late
<1>4. \A m \in known[n] : phase'[m] \in Late
  BY <1>1, <1>3 DEF NodeInv, Onward, TypeOK
<1>5. NodeInv(n)'
  BY <1>1, <1>2, <1>4 DEF NodeInv, Stall, Late
<1>6. conn' \subseteq conn
  BY DEF Stall
<1> QED
  BY <1>1, <1>2, <1>3, <1>5, <1>6, RestStays

\* A request of a process that knows, or is, all it names.
LEMMA RequestIInv ==
    ASSUME IInv, TypeOK', NEW n \in Node, NEW m \in Node, NEW kind \in {"join", "sync"},
           NEW members \in SUBSET Node, Request(n, m, kind, members),
           n \in members, members \subseteq known[n] \union {n},
           phase[n] \in {"joining", "running"}, phase[n] = "joining" => SeedsLeft(n),
           UNCHANGED <<key, phase, tried, through, known>>
    PROVE  IInv'
<1>0. PICK c : c = [client |-> n, server |-> m, no |-> opened[n], kind |-> kind,
                    at |-> "sent", members |-> members, reply |-> {}]
  OBVIOUS
<1>1. TypeOK /\ NodeInv(n)
  BY DEF IInv
<1>2. Onward
  BY DEF Onward
<1>3. \A k \in Node \ {n} : waits'[k] = waits[k]
  BY <1>1 DEF Request, TypeOK
<1>4. \A k \in Node \ {n} : NodeInv(k)'
  BY <1>1, <1>2, <1>3, NodeStays DEF IInv
<1>5. NodeInv(n)'
  BY <1>1 DEF NodeInv, SeedsLeft, Serving
<1>6. /\ c.client = n /\ c.server = m /\ c.at = "sent"
      /\ c.members = members /\ c.reply = {}
  BY <1>0
<1>7. conn' = conn \union {c}
  BY <1>0 DEF Request
<1>8. \A k \in members : phase[k] \in Late /\ key[k] = key[n]
  BY <1>1 DEF NodeInv, Late
<1>9. ConnInv(c)'
  BY <1>6, <1>8 DEF ConnInv, Late
<1>10. \A d \in conn : ConnInv(d)'
  BY <1>1, <1>2, ConnStays DEF IInv, TypeOK
<1> QED
  BY <1>4, <1>5, <1>7, <1>9, <1>10 DEF IInv

\* A join names the joiner,
LEMMA JoinIInv == ASSUME IInv, NEW n \in Node, Join(n) PROVE IInv'
<1>1. TypeOK'
  BY ClientType DEF ClientStep
<1>2. tried[n] \in Nat /\ tried[n] < Len(Seeds[n])
  BY DEF IInv, TypeOK, Join, SeedsLeft
<1>3. Seeds[n][tried[n] + 1] \in Node
  BY <1>2, SeedsType
<1>4. PICK seed \in Node : Request(n, seed, "join", {n})
  BY <1>3 DEF Join
<1>5. /\ phase[n] = "joining" /\ SeedsLeft(n)
      /\ UNCHANGED <<key, phase, tried, through, known>>
  BY DEF Join
<1> QED
  BY <1>1, <1>4, <1>5, RequestIInv

\* a sync all that its client knows besides.
LEMMA SyncIInv == ASSUME IInv, NEW n \in Node, NEW m \in Node, Sync(n, m) PROVE IInv'
<1>1. TypeOK'
  BY ClientType
<1>2. known[n] \union {n} \in SUBSET Node
  BY DEF IInv, TypeOK
<1>3. /\ phase[n] = "running" /\ Request(n, m, "sync", known[n] \union {n})
      /\ UNCHANGED <<key, phase, tried, through, known>>
  BY DEF Sync
<1> QED
  BY <1>1, <1>2, <1>3, RequestIInv

\* An exchange that failed, whatever became of its connection.
LEMMA FailsIInv ==
    ASSUME IInv, TypeOK', NEW n \in Node, ~waits'[n], conn' \subseteq conn,
           \A k \in Node \ {n} : waits'[k] = waits[k] /\ tried'[k] = tried[k],
           UNCHANGED <<key, phase, through, known>>
    PROVE  IInv'
<1>1. TypeOK /\ NodeInv(n)
  BY DEF IInv
<1>2. Onward
  BY DEF Onward
<1>3. NodeInv(n)'
  BY <1>1 DEF NodeInv, Serving
<1> QED
  BY <1>2, <1>3, RestStays

\* The client's side, exchanges that fail: the next seed's turn, if there is one.
LEMMA FailingIInv ==
    ASSUME IInv, NEW n \in Node, Refused(n) \/ Hangup(n) \/ TimeOut(n)
    PROVE  IInv'
<1>1. TypeOK'
  BY ClientType DEF ClientStep
<1>2. TypeOK
  BY DEF IInv
<1>3. CASE Refused(n)
  <2>1. ~waits'[n] /\ \A k \in Node \ {n} : waits'[k] = waits[k] /\ tried'[k] = tried[k]
    BY <1>2, <1>3 DEF Refused, NextSeed, TypeOK
  <2> QED
    BY <1>1, <1>3, <2>1, FailsIInv DEF Refused
<1>4. ASSUME waits[n], Fails(n), conn' \subseteq conn, UNCHANGED <<key, phase, through, known>>
      PROVE  IInv'
  <2>1. ~waits'[n] /\ \A k \in Node \ {n} : waits'[k] = waits[k] /\ tried'[k] = tried[k]
    BY <1>2, <1>4, FailsType DEF TypeOK
  <2> QED
    BY <1>1, <1>4, <2>1, FailsIInv
<1>5. CASE Hangup(n)
  BY <1>4, <1>5 DEF Hangup
<1>6. CASE TimeOut(n)
  <2>1. waits[n]
    BY <1>6 DEF TimeOut, CanTimeOut, Mine
  <2>2. conn' \subseteq conn
    BY <1>6 DEF TimeOut
  <2> QED
    BY <1>4, <1>6, <2>1, <2>2 DEF TimeOut
<1> QED
  BY <1>3, <1>5, <1>6

\* The reply: its server serves, and has recorded the client, or has ended since.
LEMMA ReceiveIInv ==
    ASSUME IInv, NEW n \in Node, NEW c \in conn, Receive(n, c)
    PROVE  IInv'
<1>1. TypeOK /\ NodeInv(n) /\ ConnInv(c) /\ c \in Connection
  BY DEF IInv, TypeOK
<1>2. TypeOK'
  BY ClientType DEF ClientStep
<1>3. waits[n] /\ c.client = n /\ c.at = "replied" /\ c.server \in Node /\ c.reply \subseteq Node
  BY <1>1 DEF Receive, Mine, Connection
<1>4. /\ known'[n] = known[n] \union Others(n, c.reply \union {c.server})
      /\ ~waits'[n]
      /\ \A k \in Node \ {n} : known'[k] = known[k] /\ waits'[k] = waits[k]
  BY <1>1 DEF Receive, Absorb, TypeOK
<1>5. phase[n] \in {"joining", "running"}
  BY <1>1, <1>3 DEF NodeInv
<1>6. /\ phase'[n] \in {"joining", "running"}
      /\ \A k \in Node \ {n} : phase'[k] = phase[k] /\ through'[k] = through[k]
      /\ through'[n] \in {through[n], c.server}
  BY <1>1, <1>5 DEF Receive, AfterJoin, TypeOK
<1>7. Onward
  BY <1>4, <1>5, <1>6 DEF Receive, Onward, Late
<1>8. \A m \in known'[n] : phase[m] \in Late /\ key[m] = key[n]
  BY <1>1, <1>3, <1>4 DEF NodeInv, ConnInv, Others
<1>9. \A m \in known'[n] : phase'[m] \in Late /\ key'[m] = key'[n]
  BY <1>2, <1>7, <1>8 DEF Onward, TypeOK
<1>10. \A m \in Node \ {n} :
         Serving(m) /\ n \in known[m] => n \in known'[m]
  BY <1>4
<1>11. \A m \in Node \ {n} : Serving(m)' => Serving(m)
  BY <1>6 DEF Serving
<1>12. through'[n] \notin {NoSeed, n} =>
         /\ through'[n] \in Node \ {n}
         /\ through'[n] \in known'[n]
         /\ Serving(through'[n]) => n \in known[through'[n]]
  BY <1>1, <1>3, <1>4, <1>6 DEF NodeInv, ConnInv, Others, TypeOK
<1>13. NodeInv(n)'
  <2>1. n \notin known'[n]
    BY <1>1, <1>4 DEF NodeInv, Others
  <2>2. through'[n] \notin {NoSeed, n} =>
          /\ through'[n] \in known'[n]
          /\ phase'[through'[n]] \in {"joining", "running"} => n \in known'[through'[n]]
    BY <1>10, <1>11, <1>12 DEF Serving
  <2> QED
    BY <1>4, <1>6, <1>9, <2>1, <2>2 DEF NodeInv, Late, Serving
<1>14. conn' \subseteq conn /\ tried' = tried
  BY DEF Receive
<1> QED
  BY <1>2, <1>4, <1>6, <1>7, <1>13, <1>14, RestStays

\* The server's side.  The request is dropped, or the network drops anything.
LEMMA DropIInv ==
    ASSUME IInv, NEW n \in Node, NEW c \in conn, Reject(n, c) \/ Break(c)
    PROVE  IInv'
<1>1. TypeOK /\ TypeOK'
  BY ServerType DEF IInv
<1>2. conn' \subseteq conn /\ UNCHANGED <<key, phase, tried, through, known, waits>>
  BY DEF Reject, Break
<1>3. Onward
  BY <1>2 DEF Onward
<1>4. NodeInv(n)'
  BY <1>1, <1>2, <1>3, NodeStays DEF IInv
<1> QED
  BY <1>1, <1>2, <1>3, <1>4, RestStays

\* The reply is made of what the server knows.
LEMMA SnapshotIInv ==
    ASSUME IInv, NEW n \in Node, NEW c \in conn, Snapshot(n, c)
    PROVE  IInv'
<1>1. TypeOK /\ TypeOK' /\ NodeInv(n) /\ ConnInv(c) /\ c \in Connection
  BY ServerType DEF IInv, TypeOK
<1>2. Onward /\ UNCHANGED <<key, phase, tried, through, known, waits>>
  BY DEF Snapshot, Onward
<1>3. \A k \in Node : NodeInv(k)'
  BY <1>1, <1>2, NodeStays DEF IInv
<1>4. PICK d : d = [c EXCEPT !.at = "read", !.reply = known[n]]
  OBVIOUS
<1>5. /\ d.client = c.client /\ d.server = c.server /\ d.members = c.members
      /\ d.at = "read" /\ d.reply = known[n]
  BY <1>1, <1>4 DEF Connection
<1>6. phase[n] \in Late /\ c.server = n /\ c.at = "sent" /\ key[c.client] = key[n]
  BY DEF Snapshot, Serving, Opens, Late
<1>7. ConnInv(d)'
  BY <1>1, <1>2, <1>5, <1>6 DEF ConnInv, NodeInv
<1>8. conn' = (conn \ {c}) \union {d}
  BY <1>4 DEF Snapshot
<1>9. \A k \in conn : ConnInv(k)'
  BY <1>1, <1>2, ConnStays DEF IInv, TypeOK
<1> QED
  BY <1>1, <1>3, <1>7, <1>8, <1>9 DEF IInv

\* The request is merged: its client is known from here on.
LEMMA AnswerIInv ==
    ASSUME IInv, NEW n \in Node, NEW c \in conn, Answer(n, c)
    PROVE  IInv'
<1>1. TypeOK /\ TypeOK' /\ NodeInv(n) /\ ConnInv(c) /\ c \in Connection
  BY ServerType DEF IInv, TypeOK
<1>2. /\ phase[n] \in Late /\ c.server = n /\ c.at = "read"
      /\ UNCHANGED <<key, phase, tried, through, waits>>
  BY DEF Answer, Serving, Late
<1>3. /\ known'[n] = known[n] \union (c.members \ {n})
      /\ \A k \in Node \ {n} : known'[k] = known[k]
  BY <1>1 DEF Answer, Absorb, Others, Told, TypeOK
<1>4. Onward
  BY <1>2, <1>3 DEF Onward
<1>5. \A k \in Node \ {n} : NodeInv(k)'
  BY <1>1, <1>2, <1>3, <1>4, NodeStays DEF IInv
<1>6. \A m \in known'[n] : phase[m] \in Late /\ key[m] = key[n]
  BY <1>1, <1>2, <1>3 DEF NodeInv, ConnInv
<1>7. through[n] \notin {NoSeed, n} =>
        /\ through[n] \in known'[n]
        /\ Serving(through[n]) => n \in known'[through[n]]
  BY <1>1, <1>3 DEF NodeInv, TypeOK
<1>8. NodeInv(n)'
  BY <1>1, <1>2, <1>3, <1>6, <1>7 DEF NodeInv, Serving, SeedsLeft
<1>9. \A k \in conn : ConnInv(k)'
  BY <1>1, <1>4, ConnStays DEF IInv, TypeOK
<1>10. PICK d : d = [c EXCEPT !.at = "replied", !.members = {}]
  OBVIOUS
<1>11. /\ d.client = c.client /\ d.server = c.server /\ d.reply = c.reply
       /\ d.at = "replied" /\ d.members = {}
  BY <1>1, <1>10 DEF Connection
<1>12. ConnInv(d)'
  BY <1>1, <1>2, <1>3, <1>11 DEF ConnInv, Connection
<1>13. conn' \subseteq conn \union {d}
  BY <1>10 DEF Answer
<1> QED
  BY <1>1, <1>5, <1>8, <1>9, <1>12, <1>13 DEF IInv

-----------------------------------------------------------------------------
(* The theorems.                                                            *)

\* Every step does.
LEMMA NextIInv == IInv /\ [Next]_vars => IInv'
<1> SUFFICES ASSUME IInv, [Next]_vars PROVE IInv'
  OBVIOUS
<1>1. ASSUME NEW n \in Node, StartStep(n) PROVE IInv'
  BY <1>1, BindIInv, ServeIInv DEF StartStep
<1>2. ASSUME NEW n \in Node, Exit(n), TypeOK' PROVE IInv'
  BY <1>2, ExitIInv
<1>3. ASSUME NEW n \in Node, ClientStep(n) PROVE IInv'
  <2>1. TypeOK'
    BY <1>3, ClientType
  <2>2. CASE GiveUp(n)
    BY <1>2, <2>1, <2>2 DEF GiveUp
  <2> QED
    BY <1>3, <2>2, JoinIInv, FailingIInv, ReceiveIInv DEF ClientStep
<1>4. ASSUME NEW n \in Node, ServerStep(n) PROVE IInv'
  BY <1>4, DropIInv, SnapshotIInv, AnswerIInv DEF ServerStep
<1>5. ASSUME NEW n \in Node, NEW m \in Node, Sync(n, m) PROVE IInv'
  BY <1>5, SyncIInv
<1>6. ASSUME NEW n \in Node, End(n) PROVE IInv'
  <2>1. TypeOK'
    BY <1>6, ClientType
  <2> QED
    BY <1>2, <1>6, <2>1 DEF End
<1>7. ASSUME NEW n \in Node, Stall(n) \/ TimeOut(n) PROVE IInv'
  BY <1>7, StallIInv, FailingIInv
<1>8. ASSUME NEW c \in conn, Break(c) PROVE IInv'
  <2>1. PICK n \in Node : n = c.client
    BY DEF IInv, TypeOK, Connection
  <2> QED
    BY <1>8, <2>1, DropIInv
<1>9. CASE UNCHANGED vars
  BY <1>9 DEF vars, IInv, TypeOK, ConnInv, NodeInv, Serving, SeedsLeft
<1> QED
  BY <1>1, <1>3, <1>4, <1>5, <1>6, <1>7, <1>8, <1>9 DEF Next, Fault

\* The invariant behind the others holds in every reachable state.
THEOREM Invariance == Spec => []IInv
BY InitIInv, NextIInv, PTL DEF Spec

\* Every variable keeps its type, and nobody tries more seeds than it has.
THEOREM TypeCorrect == Spec => []TypeOK
<1>1. IInv => TypeOK
  BY DEF IInv
<1> QED
  BY <1>1, Invariance, PTL

\* Whoever is known to anybody has all its sockets, or had them.
THEOREM KnownServe == Spec => []OnlyServersAreKnown
<1>1. IInv => OnlyServersAreKnown
  BY DEF IInv, NodeInv, OnlyServersAreKnown, Late
<1> QED
  BY <1>1, Invariance, PTL

\* Processes with different keys never have records of each other.
THEOREM KeysAreApart == Spec => []KeysKeepApart
<1>1. IInv => KeysKeepApart
  BY DEF IInv, NodeInv, KeysKeepApart
<1> QED
  BY <1>1, Invariance, PTL

\* A process that has joined and a seed that serves know each other.
THEOREM JoinsAreMutual == Spec => []JoinIsMutual
<1>1. IInv => JoinIsMutual
  BY DEF IInv, NodeInv, JoinIsMutual
<1> QED
  BY <1>1, Invariance, PTL

-----------------------------------------------------------------------------
(* Whose turn it is.  A process has one wait at a time, and its number      *)
(* tells the connection it waits on from those it has given up.             *)

\* A join that its client waits on is with the seed whose turn it is.
TurnConn(c) ==
    /\ c.no < opened[c.client]
    /\ waits[c.client] /\ c.no = opened[c.client] - 1 /\ c.kind = "join" =>
          /\ phase[c.client] = "joining"
          /\ c.server = Seeds[c.client][tried[c.client] + 1]

\* A process that has joined tries no further seeds.
TurnNode(n) ==
    through[n] # NoSeed =>
        /\ phase[n] = "running"
        /\ SeedsLeft(n) /\ through[n] = Seeds[n][tried[n] + 1]

TurnInv ==
    /\ IInv
    /\ \A c \in conn : TurnConn(c)
    /\ \A n \in Node : TurnNode(n)

\* Init establishes it.
LEMMA InitTurnInv == Init => TurnInv
BY InitIInv DEF Init, TurnInv, TurnNode

\* A connection keeps its part while its client waits for the same, or for nothing.
LEMMA TurnConnStays ==
    ASSUME NEW c \in Connection, TurnConn(c), opened' = opened,
           \/ ~waits'[c.client]
           \/ /\ waits'[c.client] = waits[c.client] /\ phase'[c.client] = phase[c.client]
              /\ tried'[c.client] = tried[c.client]
    PROVE  TurnConn(c)'
BY DEF TurnConn

\* So do all in a step of n that opens none and after which n does not wait, or waits
\* as before.
LEMMA TurnStays ==
    ASSUME TurnInv, IInv', NEW n \in Node, conn' \subseteq conn, opened' = opened,
           ~waits'[n] \/ (waits'[n] = waits[n] /\ phase'[n] = phase[n] /\ tried'[n] = tried[n]),
           \A k \in Node \ {n} :
              phase'[k] = phase[k] /\ waits'[k] = waits[k]
              /\ tried'[k] = tried[k] /\ through'[k] = through[k],
           TurnNode(n)'
    PROVE  TurnInv'
<1>1. \A c \in conn : c \in Connection /\ c.client \in Node /\ TurnConn(c)
  BY DEF TurnInv, IInv, TypeOK, Connection
<1>2. \A c \in conn' : TurnConn(c)'
  <2> SUFFICES ASSUME NEW c \in conn PROVE TurnConn(c)'
    OBVIOUS
  <2>1. c.client \in Node /\ TurnConn(c) /\ c \in Connection
    BY <1>1
  <2>2. \/ ~waits'[c.client]
        \/ /\ waits'[c.client] = waits[c.client] /\ phase'[c.client] = phase[c.client]
           /\ tried'[c.client] = tried[c.client]
    BY <2>1
  <2> QED
    BY <2>1, <2>2, TurnConnStays
<1>3. \A k \in Node \ {n} : TurnNode(k)'
  BY DEF TurnInv, TurnNode, SeedsLeft
<1> QED
  BY <1>2, <1>3 DEF TurnInv

\* The steps of `execute`: who does not run has joined through nobody.
LEMMA ExecuteTurn ==
    ASSUME TurnInv, IInv', NEW n \in Node, Bind(n) \/ Serve(n) \/ Exit(n) \/ Stall(n)
    PROVE  TurnInv'
<1>1. TypeOK /\ NodeInv(n) /\ TurnNode(n)
  BY DEF TurnInv, IInv
<1>2. CASE Bind(n) \/ Serve(n)
  <2>1. phase[n] \in {"new", "bound"} /\ opened' = opened /\ conn' \subseteq conn
        /\ UNCHANGED <<tried, through, waits>>
    BY <1>2 DEF Bind, Serve
  <2>2. \A k \in Node \ {n} : phase'[k] = phase[k]
    BY <1>1, <1>2 DEF Bind, Serve, TypeOK
  <2>3. ~waits[n]
    BY <1>1, <2>1, EarlyNode DEF Late
  <2>4. TurnNode(n)'
    BY <1>1, <2>1 DEF TurnNode
  <2> QED
    BY <2>1, <2>2, <2>3, <2>4, TurnStays
<1>3. CASE Exit(n) \/ Stall(n)
  <2>1. /\ ~waits'[n] /\ through'[n] = NoSeed /\ opened' = opened /\ tried' = tried
        /\ conn' \subseteq conn
        /\ \A k \in Node \ {n} :
              phase'[k] = phase[k] /\ waits'[k] = waits[k] /\ through'[k] = through[k]
    BY <1>1, <1>3 DEF Exit, Stall, TypeOK
  <2>2. TurnNode(n)'
    BY <2>1 DEF TurnNode
  <2> QED
    BY <2>1, <2>2, TurnStays
<1> QED
  BY <1>2, <1>3

\* A connection is opened under a number of its own; a join is with the next seed.
LEMMA RequestTurn ==
    ASSUME TurnInv, IInv', NEW n \in Node, NEW m \in Node, NEW kind \in {"join", "sync"},
           NEW members, Request(n, m, kind, members),
           kind = "join" => phase[n] = "joining" /\ m = Seeds[n][tried[n] + 1],
           UNCHANGED <<phase, tried, through>>
    PROVE  TurnInv'
<1>1. TypeOK /\ opened[n] \in Nat
  BY DEF TurnInv, IInv, TypeOK
<1>2. opened'[n] = opened[n] + 1 /\ \A k \in Node \ {n} : opened'[k] = opened[k]
  BY <1>1 DEF Request, TypeOK
<1>3. \A k \in Node \ {n} : waits'[k] = waits[k]
  BY <1>1 DEF Request, TypeOK
<1>4. PICK c : c = [client |-> n, server |-> m, no |-> opened[n], kind |-> kind,
                    at |-> "sent", members |-> members, reply |-> {}]
  OBVIOUS
<1>5. c.client = n /\ c.server = m /\ c.no = opened[n] /\ c.kind = kind
  BY <1>4
<1>6. TurnConn(c)'
  BY <1>1, <1>2, <1>5 DEF TurnConn
<1>7. ASSUME NEW d \in conn PROVE TurnConn(d)'
  <2>1. d.client \in Node /\ d.no \in Nat /\ TurnConn(d)
    BY <1>1 DEF TurnInv, TypeOK, Connection
  <2>2. CASE d.client = n
    <3>1. d.no < opened[n]
      BY <2>1, <2>2 DEF TurnConn
    <3>2. d.no < opened'[n] /\ d.no # opened'[n] - 1
      BY <1>1, <1>2, <2>1, <3>1
    <3> QED
      BY <2>2, <3>2 DEF TurnConn
  <2>3. CASE d.client # n
    BY <1>2, <1>3, <2>1, <2>3 DEF TurnConn
  <2> QED
    BY <2>2, <2>3
<1>8. conn' = conn \union {c}
  BY <1>4 DEF Request
<1>9. \A k \in Node : TurnNode(k)'
  BY DEF TurnInv, TurnNode, SeedsLeft
<1> QED
  BY <1>6, <1>7, <1>8, <1>9 DEF TurnInv

\* A failure moves on only a process that has not joined.
LEMMA FailingTurn ==
    ASSUME TurnInv, IInv', NEW n \in Node, Refused(n) \/ Hangup(n) \/ TimeOut(n)
    PROVE  TurnInv'
<1>1. TypeOK /\ TurnNode(n) /\ IInv
  BY DEF TurnInv, IInv
<1>2. /\ ~waits'[n] /\ opened' = opened /\ conn' \subseteq conn /\ UNCHANGED <<phase, through>>
      /\ phase[n] = "running" => tried'[n] = tried[n]
      /\ \A k \in Node \ {n} : waits'[k] = waits[k] /\ tried'[k] = tried[k]
  <2>1. CASE Refused(n)
    BY <1>1, <2>1 DEF Refused, NextSeed, TypeOK
  <2>2. ASSUME waits[n], Fails(n)
        PROVE  /\ ~waits'[n]
               /\ phase[n] = "running" => tried'[n] = tried[n]
               /\ \A k \in Node \ {n} : waits'[k] = waits[k] /\ tried'[k] = tried[k]
    BY <1>1, <2>2, FailsType DEF Fails, TypeOK
  <2>3. CASE Hangup(n)
    BY <2>2, <2>3 DEF Hangup
  <2>4. CASE TimeOut(n)
    BY <2>2, <2>4 DEF TimeOut, CanTimeOut, Mine
  <2> QED
    BY <2>1, <2>3, <2>4
<1>3. TurnNode(n)'
  BY <1>1, <1>2 DEF TurnNode, SeedsLeft
<1> QED
  BY <1>2, <1>3, TurnStays

\* The reply it waits for is that of the seed whose turn it is.
LEMMA ReceiveTurn ==
    ASSUME TurnInv, IInv', NEW n \in Node, NEW c \in conn, Receive(n, c)
    PROVE  TurnInv'
<1>1. TypeOK /\ NodeInv(n) /\ TurnNode(n) /\ TurnConn(c)
  BY DEF TurnInv, IInv
<1>2. waits[n] /\ c.client = n /\ c.no = opened[n] - 1
  BY DEF Receive, Mine
<1>3. /\ ~waits'[n] /\ opened' = opened /\ tried' = tried /\ conn' \subseteq conn
      /\ \A k \in Node \ {n} :
            phase'[k] = phase[k] /\ waits'[k] = waits[k] /\ through'[k] = through[k]
  BY <1>1 DEF Receive, TypeOK
<1>4. TurnNode(n)'
  <2>1. CASE c.kind = "join" /\ phase' = [phase EXCEPT ![n] = "running"]
             /\ through' = [through EXCEPT ![n] = c.server]
    <3>1. phase[n] = "joining" /\ c.server = Seeds[n][tried[n] + 1] /\ SeedsLeft(n)
      BY <1>1, <1>2, <2>1 DEF TurnConn, NodeInv
    <3>2. phase'[n] = "running" /\ through'[n] = c.server
      BY <1>1, <2>1 DEF TypeOK
    <3> QED
      BY <1>3, <3>1, <3>2 DEF TurnNode, SeedsLeft
  <2>2. CASE UNCHANGED <<phase, through>>
    BY <1>1, <1>3, <2>2 DEF TurnNode, SeedsLeft
  <2> QED
    BY <2>1, <2>2 DEF Receive, AfterJoin
<1> QED
  BY <1>3, <1>4, TurnStays

\* A server changes nobody's turn.
LEMMA ServerTurn ==
    ASSUME TurnInv, IInv', NEW n \in Node, NEW c \in conn,
           Reject(n, c) \/ Snapshot(n, c) \/ Answer(n, c) \/ Break(c)
    PROVE  TurnInv'
<1>1. TypeOK /\ c \in Connection /\ TurnConn(c)
  BY DEF TurnInv, IInv, TypeOK
<1>2. UNCHANGED <<phase, tried, through, opened, waits>>
  BY DEF Reject, Snapshot, Answer, Break
<1>3. \A k \in Node : TurnNode(k)'
  BY <1>2 DEF TurnInv, TurnNode, SeedsLeft
<1>4. \A d \in conn : TurnConn(d)'
  BY <1>2 DEF TurnInv, TurnConn
<1>5. ASSUME NEW d, d.client = c.client, d.server = c.server, d.no = c.no, d.kind = c.kind
      PROVE  TurnConn(d)'
  BY <1>1, <1>2, <1>5 DEF TurnConn
<1>6. \A d \in conn' : TurnConn(d)'
  <2>1. CASE Reject(n, c) \/ Break(c)
    BY <1>4, <2>1 DEF Reject, Break
  <2>2. CASE Snapshot(n, c)
    <3>1. PICK d : d = [c EXCEPT !.at = "read", !.reply = known[n]]
      OBVIOUS
    <3>2. d.client = c.client /\ d.server = c.server /\ d.no = c.no /\ d.kind = c.kind
      BY <1>1, <3>1 DEF Connection
    <3>3. conn' = (conn \ {c}) \union {d}
      BY <2>2, <3>1 DEF Snapshot
    <3>4. TurnConn(d)'
      BY <1>5, <3>2
    <3> QED
      BY <1>4, <3>3, <3>4
  <2>3. CASE Answer(n, c)
    <3>1. PICK d : d = [c EXCEPT !.at = "replied", !.members = {}]
      OBVIOUS
    <3>2. d.client = c.client /\ d.server = c.server /\ d.no = c.no /\ d.kind = c.kind
      BY <1>1, <3>1 DEF Connection
    <3>3. conn' \subseteq conn \union {d}
      BY <2>3, <3>1 DEF Answer
    <3>4. TurnConn(d)'
      BY <1>5, <3>2
    <3> QED
      BY <1>4, <3>3, <3>4
  <2> QED
    BY <2>1, <2>2, <2>3
<1> QED
  BY <1>3, <1>6 DEF TurnInv

\* Every step keeps it.
LEMMA NextTurnInv == TurnInv /\ [Next]_vars => TurnInv'
<1> SUFFICES ASSUME TurnInv, [Next]_vars PROVE TurnInv'
  OBVIOUS
<1>1. IInv /\ IInv'
  BY NextIInv DEF TurnInv
<1>2. ASSUME NEW n \in Node, StartStep(n) \/ End(n) \/ Stall(n) PROVE TurnInv'
  BY <1>1, <1>2, ExecuteTurn DEF StartStep, End
<1>3. ASSUME NEW n \in Node, Join(n) PROVE TurnInv'
  <2>1. tried[n] \in Nat /\ tried[n] < Len(Seeds[n])
    BY <1>1, <1>3 DEF IInv, TypeOK, Join, SeedsLeft
  <2>2. PICK m \in Node : m = Seeds[n][tried[n] + 1]
    BY <2>1, SeedsType
  <2>3. Request(n, m, "join", {n}) /\ phase[n] = "joining" /\ UNCHANGED <<phase, tried, through>>
    BY <1>3, <2>2 DEF Join
  <2> QED
    BY <1>1, <2>2, <2>3, RequestTurn
<1>4. ASSUME NEW n \in Node, NEW m \in Node, Sync(n, m) PROVE TurnInv'
  <2>1. Request(n, m, "sync", known[n] \union {n}) /\ UNCHANGED <<phase, tried, through>>
    BY <1>4 DEF Sync
  <2> QED
    BY <1>1, <2>1, RequestTurn
<1>5. ASSUME NEW n \in Node, Refused(n) \/ Hangup(n) \/ TimeOut(n) PROVE TurnInv'
  BY <1>1, <1>5, FailingTurn
<1>6. ASSUME NEW n \in Node, ClientStep(n) PROVE TurnInv'
  <2>1. CASE GiveUp(n)
    BY <1>1, <2>1, ExecuteTurn DEF GiveUp
  <2> QED
    BY <1>1, <1>3, <1>5, <1>6, <2>1, ReceiveTurn DEF ClientStep
<1>7. ASSUME NEW n \in Node, ServerStep(n) PROVE TurnInv'
  BY <1>1, <1>7, ServerTurn DEF ServerStep
<1>8. ASSUME NEW c \in conn, Break(c) PROVE TurnInv'
  <2>1. PICK n \in Node : n = c.client
    BY <1>1 DEF IInv, TypeOK, Connection
  <2> QED
    BY <1>1, <1>8, <2>1, ServerTurn
<1>9. CASE UNCHANGED vars
  BY <1>1, <1>9 DEF vars, TurnInv, TurnConn, TurnNode, SeedsLeft
<1> QED
  BY <1>2, <1>4, <1>5, <1>6, <1>7, <1>8, <1>9 DEF Next, Fault

\* Whoever has joined has done so through the seed whose turn it was, however late those
\* that it had given up on may answer.
THEOREM JoinedInTurn == Spec => []FirstThatAnswers
<1>1. TurnInv => FirstThatAnswers
  BY DEF TurnInv, TurnNode, FirstThatAnswers
<1> QED
  BY <1>1, InitTurnInv, NextTurnInv, PTL DEF Spec
=============================================================================
