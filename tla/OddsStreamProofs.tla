--------------------------- MODULE OddsStreamProofs ---------------------------
(***************************************************************************)
(* The live odds, for any number of workers, markets, pages, sockets,      *)
(* edits and faults: what a page shows was committed, each socket gets its *)
(* frames in the order of publication, and the registries count right.     *)
(***************************************************************************)
EXTENDS OddsStream, FiniteSetTheorems, SequenceTheorems, TLAPS

-----------------------------------------------------------------------------
(* The inductive invariant *)

Used(s) == sock[s] # Unused

Message == [market : Markets, version : Versions]

\* What the state is made of; the lengths that TypeOK bounds follow from the
\* order of the messages.
Shape ==
  /\ odds \in [Markets -> Versions] /\ edits \in Versions
  /\ committed \in [Markets -> SUBSET Versions]
  /\ writers \subseteq [at : {"flushed", "committed"}, market : Markets, version : Versions]
  /\ published \in [Markets -> Seq(Versions)]
  /\ inbox \in [Workers -> Seq(Message)]
  /\ subUp \in [Workers -> BOOLEAN] /\ faults \in 0..MaxFaults
  /\ fans \in [Workers -> SUBSET Fan]
  /\ sock \in [Sockets -> [state  : {"unused", "open", "hung", "dead", "gone"},
                           client : Clients \cup {None},
                           worker : Workers \cup {None}]]
  /\ registry \in [Workers -> SUBSET Sockets] /\ total \in [Workers -> Nat]
  /\ frames \in [Sockets -> Seq(Versions)] /\ got \in [Sockets -> Seq(Versions)]
  /\ \A s \in Sockets : Len(frames[s]) <= MaxFrames
  /\ due \subseteq Sockets \X Versions
  /\ current \in [Clients -> Sockets \cup {None}]
  /\ shown \in [Clients -> Versions \cup {None}]

\* A version is handed out once, to one edit of one market; it is published
\* once, after it was committed, and not while its edit is still under way.
Numbered ==
  /\ \A m \in Markets : odds[m] \in committed[m]
  /\ \A m \in Markets : \A i \in DOMAIN published[m] :
       published[m][i] \in committed[m] /\ published[m][i] \in 1..edits
  /\ \A m, n \in Markets : \A i \in DOMAIN published[m] : \A j \in DOMAIN published[n] :
       published[m][i] = published[n][j] => m = n /\ i = j
  /\ \A p \in writers :
       /\ p.version \in 1..edits
       /\ p.at = "committed" => p.version \in committed[p.market]
       /\ \A m \in Markets : \A i \in DOMAIN published[m] : published[m][i] # p.version
  /\ \A p, q \in writers : p.version = q.version => p = q

\* Sockets are used in their order, each by one client at one worker.
Handshakes ==
  /\ \E n \in 0..MaxSockets : \A s \in Sockets : Used(s) <=> s <= n
  /\ \A s \in Sockets : Used(s) => /\ sock[s].state # "unused"
                                   /\ sock[s].client \in Clients /\ sock[s].worker \in Workers
  /\ \A c \in Clients : current[c] # None => Used(current[c]) /\ sock[current[c]].client = c

\* A broadcast goes to sockets of its worker and its market; those it has
\* found broken will not come back.
Targets ==
  \A w \in Workers : \A f \in fans[w] :
    /\ \A s \in f.to : Used(s) /\ sock[s].worker = w /\ MarketOf(s) = f.msg.market
    /\ \A s \in f.stale : Used(s) /\ sock[s].worker = w /\ sock[s].state \in {"dead", "gone"}

\* The registry of a worker holds sockets of its own, every open one among
\* them, within the ceilings, and total counts them.
Registered ==
  \A w \in Workers :
    /\ \A s \in registry[w] : Used(s) /\ sock[s].worker = w
    /\ total[w] = Cardinality(registry[w]) /\ total[w] <= MaxTotal
    /\ \A m \in Markets : Cardinality(Bucket(w, m)) <= MaxPerMarket
    /\ \A s \in Sockets : IsOpen(s) /\ sock[s].worker = w => s \in registry[w]

\* The messages of a market in the order of its channel chan, which may grow.
Occurs(chan, v)    == \E i \in DOMAIN chan : chan[i] = v
Before(chan, u, v) == \E i, j \in DOMAIN chan : i < j /\ chan[i] = u /\ chan[j] = v

Ordered(chan, q) ==
  /\ \A i \in DOMAIN q : Occurs(chan, q[i])
  /\ \A i, j \in DOMAIN q : i < j => Before(chan, q[i], q[j])
AllBefore(chan, q, v) == \A i \in DOMAIN q : Before(chan, q[i], v)

\* The messages of a worker's subscriber, and the one it is broadcasting.
BoxInOrder(pub, box) ==
  /\ \A k \in DOMAIN box : Occurs(pub[box[k].market], box[k].version)
  /\ \A j, k \in DOMAIN box :
       j < k /\ box[j].market = box[k].market
         => Before(pub[box[k].market], box[j].version, box[k].version)
BeforeBox(pub, msg, box) ==
  /\ Occurs(pub[msg.market], msg.version)
  /\ \A k \in DOMAIN box : box[k].market = msg.market
       => Before(pub[msg.market], msg.version, box[k].version)

WorkerInOrder(w) ==
  /\ BoxInOrder(published, inbox[w])
  /\ \A f, g \in fans[w] : f = g
  /\ \A f \in fans[w] : BeforeBox(published, f.msg, inbox[w])

\* What a socket of market m was sent, q, comes in order and before what a
\* broadcast has still to send it and what the subscriber holds for it.
Stream(chan, m, q, coming, box) ==
  /\ Ordered(chan, q)
  /\ \A v \in coming : AllBefore(chan, q, v)
  /\ \A k \in DOMAIN box : box[k].market = m => AllBefore(chan, q, box[k].version)

Sent(s)   == got[s] \o frames[s]
Coming(s) == {f.msg.version : f \in {g \in fans[sock[s].worker] : s \in g.to}}

SocketInOrder(s) ==
  /\ ~Used(s) => got[s] = <<>> /\ frames[s] = <<>>
  /\ Used(s) => Stream(published[MarketOf(s)], MarketOf(s), Sent(s), Coming(s), inbox[sock[s].worker])

InOrder ==
  /\ \A w \in Workers : WorkerInOrder(w)
  /\ \A s \in Sockets : SocketInOrder(s)

IInv ==
  /\ Shape /\ Numbered /\ Handshakes /\ Targets /\ Registered /\ InOrder
  /\ ShownWasCommitted


-----------------------------------------------------------------------------
(* Constants, and what a broken socket costs its registry *)

LEMMA Constants ==
    /\ MaxTotal \in Nat /\ MaxPerMarket \in Nat /\ MaxFrames \in Nat /\ MaxEdits \in Nat
    /\ MaxSockets \in Nat /\ MaxFaults \in Nat
    /\ \A c \in Clients : Watches[c] \in Markets
    /\ None \notin Clients /\ None \notin Workers /\ None \notin Sockets /\ None \notin Versions
BY WatchesAssumption, BoundsAssumption, NoneAssumption DEF Sockets, Versions

LEMMA SocketsFinite ==
    ASSUME NEW S \in SUBSET Sockets
    PROVE  IsFiniteSet(S) /\ Cardinality(S) \in Nat
<1>1. IsFiniteSet(Sockets)
  BY Constants, FS_Interval DEF Sockets
<1> QED BY <1>1, FS_Subset, FS_CardinalityType

(* disconnect takes a socket out of the registry and counts it once.       *)
LEMMA DisconnectCounts ==
    ASSUME Shape, Registered, NEW w \in Workers, NEW s \in Sockets, disconnect(w, s)
    PROVE  /\ registry' \in [Workers -> SUBSET Sockets] /\ total' \in [Workers -> Nat]
           /\ \A v \in Workers : registry'[v] = IF v = w THEN registry[v] \ {s} ELSE registry[v]
           /\ \A v \in Workers : total'[v] = Cardinality(registry'[v]) /\ total'[v] <= total[v]
<1>1. \A v \in Workers : registry'[v] = IF v = w THEN registry[v] \ {s} ELSE registry[v]
  BY DEF disconnect, Shape
<1>2. registry' \in [Workers -> SUBSET Sockets]
  BY DEF disconnect, Shape
<1>3. /\ Cardinality(registry[w] \ {s}) =
           IF s \in registry[w] THEN Cardinality(registry[w]) - 1 ELSE Cardinality(registry[w])
      /\ Cardinality(registry[w] \ {s}) \in Nat /\ Cardinality(registry[w]) \in Nat
  <2>1. registry[w] \in SUBSET Sockets /\ registry[w] \ {s} \in SUBSET Sockets
    BY DEF Shape
  <2> QED BY <2>1, SocketsFinite, FS_RemoveElement
<1>4. \A v \in Workers : total[v] = Cardinality(registry[v]) /\ total[v] \in Nat
  BY DEF Registered, Shape
<1>5. total' = [total EXCEPT ![w] = IF s \in registry[w] THEN @ - 1 ELSE @]
  BY DEF disconnect
<1>6. total'[w] = Cardinality(registry'[w]) /\ total'[w] <= total[w] /\ total'[w] \in Nat
  <2>1. total'[w] = IF s \in registry[w] THEN total[w] - 1 ELSE total[w]
    BY <1>5 DEF Shape
  <2>2. Cardinality(registry'[w]) = Cardinality(registry[w] \ {s})
    BY <1>1
  <2>3. total[w] = Cardinality(registry[w])
    BY <1>4
  <2> QED BY <1>3, <2>1, <2>2, <2>3
<1>7. \A v \in Workers : v # w => total'[v] = total[v] /\ registry'[v] = registry[v]
  BY <1>1, <1>5 DEF Shape
<1>8. total' \in [Workers -> Nat]
  <2>1. total' = [v \in Workers |-> total'[v]]
    BY <1>5 DEF Shape
  <2>2. \A v \in Workers : total'[v] \in Nat
    BY <1>4, <1>6, <1>7
  <2> QED BY <2>1, <2>2
<1>9. \A v \in Workers : total'[v] = Cardinality(registry'[v]) /\ total'[v] <= total[v]
  BY <1>4, <1>6, <1>7
<1> QED BY <1>1, <1>2, <1>8, <1>9

-----------------------------------------------------------------------------
(* Shape *)

LEMMA InitShape == Init => Shape
<1> SUFFICES ASSUME Init PROVE Shape
  OBVIOUS
<1>1. Unused \in [state  : {"unused", "open", "hung", "dead", "gone"},
                  client : Clients \cup {None}, worker : Workers \cup {None}]
  BY DEF Unused
<1>2. \A s \in Sockets : Len(frames[s]) = 0
  BY DEF Init
<1> QED BY <1>1, <1>2, Constants DEF Init, Shape, Versions, Sockets

LEMMA WritersShape ==
    ASSUME Shape, NEW p \in writers
    PROVE  /\ p.at \in {"flushed", "committed"} /\ p.market \in Markets /\ p.version \in Versions
           /\ p = [at |-> p.at, market |-> p.market, version |-> p.version]
BY DEF Shape

LEMMA FanShape ==
    ASSUME Shape, NEW w \in Workers, NEW f \in fans[w]
    PROVE  /\ f \in Fan
           /\ f.msg \in Message
           /\ f.to \in SUBSET Sockets /\ f.stale \in SUBSET Sockets
BY DEF Shape, Fan, Message

(* A broadcast that goes on to another socket, past a broken one, or drops *)
(* a broken one from the registry, sends the same message to the rest.     *)
LEMMA FanGoesOn ==
    ASSUME Shape, NEW w \in Workers, NEW f \in fans[w], NEW s \in Sockets,
           Send(w, f, s) \/ SendFails(w, f, s) \/ Prune(w, f, s)
    PROVE  \E g \in Fan :
             /\ g.msg = f.msg /\ g.to \subseteq f.to
             /\ Send(w, f, s) => s \notin g.to
             /\ g.stale \subseteq f.stale \cup {s}
             /\ s \in g.stale \ f.stale => s \in f.to /\ sock[s].state \in {"dead", "gone"}
             /\ fans' \in [Workers -> SUBSET Fan]
             /\ fans'[w] = (fans[w] \ {f}) \cup {g}
             /\ \A v \in Workers : v # w => fans'[v] = fans[v]
<1> DEFINE sent   == [f EXCEPT !.to = @ \ {s}]
           failed == [f EXCEPT !.to = @ \ {s}, !.stale = @ \cup {s}]
           pruned == [f EXCEPT !.stale = @ \ {s}]
<1>1. f \in Fan
  BY FanShape
<1>2. /\ sent \in Fan /\ sent.msg = f.msg /\ sent.to = f.to \ {s} /\ sent.stale = f.stale
      /\ failed \in Fan /\ failed.msg = f.msg /\ failed.to = f.to \ {s} /\ failed.stale = f.stale \cup {s}
      /\ pruned \in Fan /\ pruned.msg = f.msg /\ pruned.to = f.to /\ pruned.stale = f.stale \ {s}
  <2>1. sent \in Fan /\ sent.msg = f.msg /\ sent.to = f.to \ {s} /\ sent.stale = f.stale
    BY <1>1 DEF Fan
  <2>2. failed \in Fan /\ failed.msg = f.msg /\ failed.to = f.to \ {s} /\ failed.stale = f.stale \cup {s}
    BY <1>1 DEF Fan
  <2>3. pruned \in Fan /\ pruned.msg = f.msg /\ pruned.to = f.to /\ pruned.stale = f.stale \ {s}
    BY <1>1 DEF Fan
  <2> QED BY <2>1, <2>2, <2>3
<1>3. /\ Send(w, f, s) => Step(w, f, sent)
      /\ SendFails(w, f, s) => Step(w, f, failed)
      /\ Prune(w, f, s) => Step(w, f, pruned) /\ f.to = {}
  BY DEF Send, SendFails, Prune
<1> HIDE DEF sent, failed, pruned
<1>4. ASSUME NEW g \in Fan, Step(w, f, g)
      PROVE  /\ fans' \in [Workers -> SUBSET Fan]
             /\ fans'[w] = (fans[w] \ {f}) \cup {g}
             /\ \A v \in Workers : v # w => fans'[v] = fans[v]
  <2>1. fans' = [fans EXCEPT ![w] = (fans[w] \ {f}) \cup {g}]
    BY <1>4 DEF Step
  <2>2. fans \in [Workers -> SUBSET Fan] /\ (fans[w] \ {f}) \cup {g} \in SUBSET Fan
    BY <1>4 DEF Shape
  <2> HIDE DEF Shape
  <2> QED BY <2>1, <2>2
<1>5. CASE Send(w, f, s)
  BY <1>2, <1>3, <1>4, <1>5
<1>6. CASE SendFails(w, f, s) /\ ~Send(w, f, s)
  <2>1. s \in f.to /\ sock[s].state \in {"dead", "gone"}
    BY <1>6 DEF SendFails
  <2> QED BY <1>2, <1>3, <1>4, <1>6, <2>1
<1>7. CASE Prune(w, f, s) /\ ~Send(w, f, s)
  BY <1>2, <1>3, <1>4, <1>7
<1> QED BY <1>5, <1>6, <1>7

Socket == [state  : {"unused", "open", "hung", "dead", "gone"},
           client : Clients \cup {None}, worker : Workers \cup {None}]

\* No socket comes back, changes hands or is used for the first time.
SocketsAge ==
  /\ sock' \in [Sockets -> Socket]
  /\ \A t \in Sockets :
       /\ sock'[t].client = sock[t].client /\ sock'[t].worker = sock[t].worker
       /\ Used(t)' <=> Used(t)
       /\ IsOpen(t)' => IsOpen(t)
       /\ sock[t].state \in {"dead", "gone"} => sock'[t].state \in {"dead", "gone"}
       /\ Used(t) => sock'[t].state # "unused"

LEMMA UnchangedSocketsAge ==
    ASSUME Shape, Handshakes, UNCHANGED sock
    PROVE  SocketsAge
BY DEF Shape, Handshakes, SocketsAge, Socket, Used, IsOpen

LEMMA SocketIsRecord ==
    ASSUME Shape, NEW s \in Sockets
    PROVE  sock[s] \in Socket
BY DEF Shape, Socket

LEMMA OneSocketAges ==
    ASSUME Shape, Handshakes, NEW s \in Sockets, NEW st \in {"hung", "dead", "gone"}, Used(s),
           st = "hung" => IsOpen(s),
           sock' = [sock EXCEPT ![s].state = st]
    PROVE  SocketsAge
<1>1. sock[s] \in Socket
  BY SocketIsRecord
<1>2. [sock[s] EXCEPT !.state = st] \in Socket
  BY <1>1 DEF Socket
<1>3. sock' = [sock EXCEPT ![s] = [sock[s] EXCEPT !.state = st]]
  OBVIOUS
<1>4. sock' \in [Sockets -> Socket]
  BY <1>2, <1>3 DEF Shape, Socket
<1>5. /\ sock'[s].client = sock[s].client /\ sock'[s].worker = sock[s].worker /\ sock'[s].state = st
      /\ \A t \in Sockets : t # s => sock'[t] = sock[t]
  <2>1. sock'[s] = [sock[s] EXCEPT !.state = st] /\ \A t \in Sockets : t # s => sock'[t] = sock[t]
    BY <1>3 DEF Shape
  <2> QED BY <1>1, <2>1 DEF Socket
<1>6. sock'[s] # Unused
  BY <1>5 DEF Unused
<1>7. \A t \in Sockets : Used(t) => sock[t].state # "unused"
  BY DEF Handshakes
<1> QED BY <1>4, <1>5, <1>6, <1>7 DEF SocketsAge, Used, IsOpen

LEMMA RestartAges ==
    ASSUME Shape, Handshakes, NEW w \in Workers, Restart(w)
    PROVE  SocketsAge
<1>1. \A s \in Sockets : sock[s] \in Socket
  BY SocketIsRecord
<1>2. \A s \in Sockets : [sock[s] EXCEPT !.state = "gone"] \in Socket
  BY <1>1 DEF Socket
<1>3. /\ sock' = [s \in Sockets |-> sock'[s]]
      /\ \A s \in Sockets : sock'[s] = IF sock[s].worker = w THEN [sock[s] EXCEPT !.state = "gone"]
                                                             ELSE sock[s]
  BY DEF Restart
<1>4. sock' \in [Sockets -> Socket]
  BY <1>1, <1>2, <1>3
<1>5. ASSUME NEW t \in Sockets
      PROVE  /\ sock'[t].client = sock[t].client /\ sock'[t].worker = sock[t].worker
             /\ sock'[t].state = IF sock[t].worker = w THEN "gone" ELSE sock[t].state
  BY <1>1, <1>3 DEF Socket
<1>6. \A t \in Sockets : Used(t) => sock[t].state # "unused"
  BY DEF Handshakes
<1>7. ASSUME NEW t \in Sockets PROVE Used(t)' <=> Used(t)
  <2>1. CASE sock[t].worker = w
    <3>1. sock'[t].state = "gone" /\ sock[t].worker # None
      BY <1>5, <2>1, Constants
    <3> QED BY <3>1 DEF Used, Unused
  <2>2. CASE sock[t].worker # w
    BY <1>3, <2>2 DEF Used
  <2> QED BY <2>1, <2>2
<1> QED BY <1>4, <1>5, <1>6, <1>7 DEF SocketsAge, IsOpen

LEMMA CloseAges ==
    ASSUME Shape, Handshakes, NEW s \in Sockets, SocketCloses(s) \/ KeepAliveFails(s)
    PROVE  SocketsAge
<1>1. sock' = [sock EXCEPT ![s].state = "dead"]
  BY DEF SocketCloses, KeepAliveFails, Close
<1>2. Used(s)
  BY DEF SocketCloses, KeepAliveFails, MayFail, IsOpen, Used, Unused
<1> QED BY <1>1, <1>2, OneSocketAges

LEMMA HangAges ==
    ASSUME Shape, Handshakes, NEW s \in Sockets, SocketHangs(s)
    PROVE  SocketsAge
<1>1. sock' = [sock EXCEPT ![s].state = "hung"] /\ IsOpen(s)
  BY DEF SocketHangs, MayFail
<1>2. Used(s)
  BY <1>1 DEF IsOpen, Used, Unused
<1> QED BY <1>1, <1>2, OneSocketAges

LEMMA HandlerEndsAges ==
    ASSUME Shape, Handshakes, NEW s \in Sockets, HandlerEnds(s)
    PROVE  SocketsAge /\ sock[s].worker \in Workers /\ Used(s)
<1>1. sock' = [sock EXCEPT ![s].state = "gone"]
  BY DEF HandlerEnds
<1>2. Used(s)
  BY DEF HandlerEnds, Used, Unused
<1>3. sock[s].worker \in Workers
  BY <1>2 DEF Handshakes
<1> QED BY <1>1, <1>2, <1>3, OneSocketAges

-----------------------------------------------------------------------------
(* A handshake takes the next socket.                                      *)

LEMMA FreshIsUnused ==
    ASSUME Handshakes, NEW s \in Sockets, Fresh(s)
    PROVE  /\ ~Used(s)
           /\ \A t \in Sockets : Used(t) <=> t <= s - 1
<1>1. PICK n \in 0..MaxSockets : \A t \in Sockets : Used(t) <=> t <= n
  BY DEF Handshakes
<1> DEFINE taken == {t \in Sockets : sock[t] # Unused}
<1>2. taken = 1..n
  BY <1>1, Constants DEF Used, Sockets
<1>3. Cardinality(1..n) = n
  BY <1>1, FS_Interval
<1>4. s = 1 + Cardinality(taken)
  BY DEF Fresh
<1> HIDE DEF taken
<1>5. s = n + 1
  BY <1>1, <1>2, <1>3, <1>4
<1> QED BY <1>1, <1>5 DEF Sockets

LEMMA HandshakeTakes ==
    ASSUME Shape, Handshakes, NEW c \in Clients, NEW s \in Sockets, NEW w \in Workers,
           Connect(c, s, w) \/ Rejected(c, s, w)
    PROVE  /\ ~Used(s)
           /\ \A t \in Sockets : Used(t) <=> t <= s - 1
           /\ sock' \in [Sockets -> Socket]
           /\ \A t \in Sockets : t # s => sock'[t] = sock[t]
           /\ sock'[s].client = c /\ sock'[s].worker = w
           /\ sock'[s].state \in {"open", "gone"}
           /\ current' = [current EXCEPT ![c] = s]
<1>1. PICK st \in {"open", "gone"} : sock' = [sock EXCEPT ![s] = [state |-> st, client |-> c, worker |-> w]]
  BY DEF Connect, Rejected
<1>2. [state |-> st, client |-> c, worker |-> w] \in Socket
  BY DEF Socket
<1>3. sock' \in [Sockets -> Socket]
  BY <1>1, <1>2 DEF Shape, Socket
<1>4. sock'[s] = [state |-> st, client |-> c, worker |-> w] /\ \A t \in Sockets : t # s => sock'[t] = sock[t]
  BY <1>1 DEF Shape
<1>5. Fresh(s) /\ current' = [current EXCEPT ![c] = s]
  BY DEF Connect, Rejected
<1> QED BY <1>3, <1>4, <1>5, FreshIsUnused

-----------------------------------------------------------------------------
(* Every step keeps the shape of the state.                                *)

LEMMA NextShape ==
    ASSUME Shape, Numbered, Handshakes, Registered, [Next]_vars
    PROVE  Shape'
<1> USE Constants
<1>1. ASSUME NEW m \in Markets, Edit(m) PROVE Shape'
  <2>1. edits' \in Versions
    BY <1>1 DEF Edit, Shape, Versions
  <2>2. [at |-> "flushed", market |-> m, version |-> edits']
          \in [at : {"flushed", "committed"}, market : Markets, version : Versions]
    BY <2>1
  <2> QED BY <1>1, <2>1, <2>2 DEF Edit, Shape, redis, manager, page
<1>2. ASSUME NEW p \in writers, Commit(p) PROVE Shape'
  <2>1. [p EXCEPT !.at = "committed"] = [at |-> "committed", market |-> p.market, version |-> p.version]
    BY WritersShape
  <2>2. [p EXCEPT !.at = "committed"]
          \in [at : {"flushed", "committed"}, market : Markets, version : Versions]
    BY <2>1, WritersShape
  <2>3. /\ odds' \in [Markets -> Versions] /\ committed' \in [Markets -> SUBSET Versions]
    BY <1>2, WritersShape DEF Commit, Shape
  <2> QED BY <1>2, <2>2, <2>3 DEF Commit, Shape, redis, manager, page
<1>3. ASSUME NEW p \in writers, Publish(p) PROVE Shape'
  <2>1. p.market \in Markets /\ p.version \in Versions
    BY WritersShape
  <2>2. published' \in [Markets -> Seq(Versions)]
    BY <1>3, <2>1 DEF Publish, Deliver, Shape
  <2>3. inbox' \in [Workers -> Seq(Message)]
    <3> DEFINE msg == [market |-> p.market, version |-> p.version]
    <3>1. msg \in Message
      BY <2>1 DEF Message
    <3> HIDE DEF msg
    <3>2. inbox' = [w \in Workers |-> IF subUp[w] THEN Append(inbox[w], msg) ELSE inbox[w]]
      BY <1>3 DEF Publish, Deliver, msg
    <3>3. inbox \in [Workers -> Seq(Message)]
      BY DEF Shape
    <3> QED BY <3>1, <3>2, <3>3
  <2>4. due' \subseteq Sockets \X Versions
    BY <1>3, <2>1 DEF Publish, Deliver, Shape
  <2> QED BY <1>3, <2>2, <2>3, <2>4 DEF Publish, Shape, manager, page
<1>4. ASSUME NEW p \in writers, GiveUp(p) PROVE Shape'
  BY <1>4 DEF GiveUp, Shape, redis, manager, page
<1>5. ASSUME NEW w \in Workers, Take(w) PROVE Shape'
  <2> DEFINE msg == Head(inbox[w])
             to  == Bucket(w, msg.market)
  <2>1. inbox[w] \in Seq(Message) /\ inbox[w] # <<>>
    BY <1>5 DEF Take, Shape
  <2>2. msg \in Message /\ Tail(inbox[w]) \in Seq(Message)
    BY <2>1
  <2>3. to \in SUBSET Sockets
    BY DEF Bucket, Shape
  <2> HIDE DEF msg, to
  <2>4. [msg |-> msg, to |-> to, stale |-> {}] \in Fan
    BY <2>2, <2>3 DEF Fan, Message
  <2>5. fans' = [fans EXCEPT ![w] = {[msg |-> msg, to |-> to, stale |-> {}]}]
    BY <1>5 DEF Take, msg, to
  <2>6. fans' \in [Workers -> SUBSET Fan]
    BY <2>4, <2>5 DEF Shape
  <2>7. inbox' \in [Workers -> Seq(Message)]
    BY <1>5, <2>2 DEF Take, Shape
  <2> QED BY <1>5, <2>6, <2>7 DEF Take, Shape, db, page
<1>6. ASSUME NEW w \in Workers, NEW f \in fans[w], Finish(w, f) PROVE Shape'
  <2>1. fans' \in [Workers -> SUBSET Fan]
    BY <1>6 DEF Finish, Shape
  <2> QED BY <1>6, <2>1 DEF Finish, Shape, db, redis, page
<1>7. ASSUME NEW w \in Workers, NEW f \in fans[w], NEW s \in Sockets, Send(w, f, s) PROVE Shape'
  <2>1. fans' \in [Workers -> SUBSET Fan]
    BY <1>7, FanGoesOn
  <2>2. frames[s] \in Seq(Versions) /\ f.msg.version \in Versions /\ Len(frames[s]) < MaxFrames
    BY <1>7, FanShape DEF Send, Shape, Message
  <2>3. /\ Append(frames[s], f.msg.version) \in Seq(Versions)
        /\ Len(Append(frames[s], f.msg.version)) <= MaxFrames
    BY <2>2
  <2>4. /\ frames' \in [Sockets -> Seq(Versions)]
        /\ \A t \in Sockets : Len(frames'[t]) <= MaxFrames
    BY <1>7, <2>3 DEF Send, Shape
  <2> QED BY <1>7, <2>1, <2>4 DEF Send, Shape, db, redis, page
<1>8. ASSUME NEW w \in Workers, NEW f \in fans[w], NEW s \in Sockets, SendFails(w, f, s) PROVE Shape'
  <2>1. fans' \in [Workers -> SUBSET Fan]
    BY <1>8, FanGoesOn
  <2> QED BY <1>8, <2>1 DEF SendFails, Shape, db, redis, page
<1>9. ASSUME NEW w \in Workers, NEW f \in fans[w], NEW s \in Sockets, Prune(w, f, s) PROVE Shape'
  <2>1. fans' \in [Workers -> SUBSET Fan]
    BY <1>9, FanGoesOn
  <2>2. registry' \in [Workers -> SUBSET Sockets] /\ total' \in [Workers -> Nat]
    BY <1>9, DisconnectCounts DEF Prune
  <2> QED BY <1>9, <2>1, <2>2 DEF Prune, Shape, db, redis, page
<1>10. ASSUME NEW w \in Workers, Resubscribe(w) PROVE Shape'
  BY <1>10 DEF Resubscribe, Shape, db, manager, page
<1>11. ASSUME NEW s \in Sockets, HandlerEnds(s) PROVE Shape'
  <2>1. SocketsAge /\ sock[s].worker \in Workers
    BY <1>11, HandlerEndsAges
  <2>2. registry' \in [Workers -> SUBSET Sockets] /\ total' \in [Workers -> Nat]
    BY <1>11, <2>1, DisconnectCounts DEF HandlerEnds
  <2> QED BY <1>11, <2>1, <2>2 DEF HandlerEnds, Shape, SocketsAge, Socket, db, redis, page
<1>12. ASSUME NEW s \in Sockets, SocketCloses(s) \/ KeepAliveFails(s) PROVE Shape'
  <2>1. SocketsAge
    BY <1>12, CloseAges
  <2>2. frames' = [frames EXCEPT ![s] = <<>>]
    BY <1>12 DEF SocketCloses, KeepAliveFails, Close
  <2>3. /\ frames' \in [Sockets -> Seq(Versions)]
        /\ \A t \in Sockets : Len(frames'[t]) <= MaxFrames
    BY <2>2 DEF Shape
  <2> QED BY <1>12, <2>1, <2>3 DEF SocketCloses, KeepAliveFails, Close, Shape, SocketsAge, Socket, db, redis, manager, page
<1>13. ASSUME NEW s \in Sockets, SocketHangs(s) PROVE Shape'
  <2>1. SocketsAge
    BY <1>13, HangAges
  <2> QED BY <1>13, <2>1 DEF SocketHangs, Shape, SocketsAge, Socket, db, redis, manager, page
<1>14. ASSUME NEW w \in Workers, RedisDrops(w) PROVE Shape'
  <2>1. PICK n \in 0..Len(inbox[w]) :
          /\ inbox' = [inbox EXCEPT ![w] = SubSeq(@, 1, n)]
          /\ due' \subseteq due
    BY <1>14 DEF RedisDrops
  <2>2. SubSeq(inbox[w], 1, n) \in Seq(Message)
    <3>1. n \in Int /\ \A i \in 1..n : inbox[w][i] \in Message
      BY <2>1 DEF Shape
    <3> QED BY <3>1, SubSeqProperties
  <2>3. inbox' \in [Workers -> Seq(Message)]
    BY <2>1, <2>2 DEF Shape
  <2>4. faults' \in 0..MaxFaults /\ subUp' \in [Workers -> BOOLEAN]
    BY <1>14 DEF RedisDrops, Shape
  <2> QED BY <1>14, <2>1, <2>3, <2>4 DEF RedisDrops, Shape, db, manager, page
<1>15. ASSUME NEW w \in Workers, Restart(w) PROVE Shape'
  <2>1. SocketsAge
    BY <1>15, RestartAges
  <2>2. /\ frames' \in [Sockets -> Seq(Versions)]
        /\ \A t \in Sockets : Len(frames'[t]) <= MaxFrames
    BY <1>15 DEF Restart, Shape
  <2>3. /\ faults' \in 0..MaxFaults /\ subUp' \in [Workers -> BOOLEAN]
        /\ inbox' \in [Workers -> Seq(Message)]
    BY <1>15 DEF Restart, Shape
  <2>4. /\ fans' \in [Workers -> SUBSET Fan]
        /\ registry' \in [Workers -> SUBSET Sockets] /\ total' \in [Workers -> Nat]
    BY <1>15 DEF Restart, Shape
  <2>5. due' \subseteq Sockets \X Versions
    BY <1>15 DEF Restart, Shape
  <2> QED BY <1>15, <2>1, <2>2, <2>3, <2>4, <2>5 DEF Restart, Shape, SocketsAge, Socket, db, page
<1>16. ASSUME NEW c \in Clients, NEW s \in Sockets, NEW w \in Workers, Connect(c, s, w) PROVE Shape'
  <2>1. sock' \in [Sockets -> Socket]
    BY <1>16, HandshakeTakes
  <2>2. /\ registry' \in [Workers -> SUBSET Sockets] /\ total' \in [Workers -> Nat]
        /\ current' \in [Clients -> Sockets \cup {None}]
    BY <1>16 DEF Connect, Shape
  <2> QED BY <1>16, <2>1, <2>2 DEF Connect, Shape, Socket, db, redis
<1>17. ASSUME NEW c \in Clients, NEW s \in Sockets, NEW w \in Workers, Rejected(c, s, w) PROVE Shape'
  <2>1. sock' \in [Sockets -> Socket]
    BY <1>17, HandshakeTakes
  <2>2. current' \in [Clients -> Sockets \cup {None}]
    BY <1>17 DEF Rejected, Shape
  <2> QED BY <1>17, <2>1, <2>2 DEF Rejected, Shape, Socket, db, redis, manager
<1>18. ASSUME NEW c \in Clients, Load(c) PROVE Shape'
  <2>1. odds[Watches[c]] \in Versions
    BY DEF Shape
  <2>2. shown' \in [Clients -> Versions \cup {None}]
    BY <1>18, <2>1 DEF Load, Shape
  <2> QED BY <1>18, <2>2 DEF Load, Shape, db, redis, manager
<1>19. ASSUME NEW c \in Clients, NEW s \in Sockets, Receive(c, s) PROVE Shape'
  <2> DEFINE v == Head(frames[s])
  <2>1. frames[s] \in Seq(Versions) /\ frames[s] # <<>> /\ Len(frames[s]) <= MaxFrames /\ got[s] \in Seq(Versions)
    BY <1>19 DEF Receive, Shape
  <2>2. /\ v \in Versions /\ Tail(frames[s]) \in Seq(Versions) /\ Len(Tail(frames[s])) <= MaxFrames
        /\ Append(got[s], v) \in Seq(Versions)
    BY <2>1
  <2> HIDE DEF v
  <2>3. /\ shown' = [shown EXCEPT ![c] = v] /\ got' = [got EXCEPT ![s] = Append(@, v)]
        /\ frames' = [frames EXCEPT ![s] = Tail(@)] /\ due' = due \ {<<s, v>>}
    BY <1>19 DEF Receive, v
  <2>4. /\ shown' \in [Clients -> Versions \cup {None}] /\ got' \in [Sockets -> Seq(Versions)]
        /\ frames' \in [Sockets -> Seq(Versions)] /\ due' \subseteq Sockets \X Versions
        /\ \A t \in Sockets : Len(frames'[t]) <= MaxFrames
    BY <2>2, <2>3 DEF Shape
  <2> QED BY <1>19, <2>4 DEF Receive, Shape, db, redis, manager
<1>20. ASSUME NEW c \in Clients, NEW s \in Sockets, Closed(c, s) PROVE Shape'
  BY <1>20 DEF Closed, Shape, db, redis, manager
<1>21. CASE UNCHANGED vars
  BY <1>21 DEF Shape, vars, db, redis, manager, page
<1> QED
  BY <1>1, <1>2, <1>3, <1>4, <1>5, <1>6, <1>7, <1>8, <1>9, <1>10, <1>11, <1>12, <1>13, <1>14,
     <1>15, <1>16, <1>17, <1>18, <1>19, <1>20, <1>21
  DEF Next, Write, FanOut, Browse, Fault

-----------------------------------------------------------------------------
(* Versions are numbered, committed and published once.                    *)

(* What Append adds to a queue, and what it leaves.                        *)
LEMMA AppendAddsLast ==
    ASSUME NEW S, NEW q \in Seq(S), NEW v
    PROVE  /\ DOMAIN Append(q, v) = DOMAIN q \cup {Len(q) + 1}
           /\ Append(q, v)[Len(q) + 1] = v
           /\ \A i \in DOMAIN q : Append(q, v)[i] = q[i]
<1>1. q \in Seq(S \cup {v}) /\ Len(q) \in Nat /\ DOMAIN q = 1..Len(q)
  OBVIOUS
<1>2. /\ Append(q, v) \in Seq(S \cup {v}) /\ Len(Append(q, v)) = Len(q) + 1
      /\ Append(q, v)[Len(q) + 1] = v
      /\ \A i \in 1..Len(q) : Append(q, v)[i] = q[i]
  BY <1>1
<1>3. DOMAIN Append(q, v) = 1..(Len(q) + 1)
  BY <1>2
<1>4. 1..(Len(q) + 1) = (1..Len(q)) \cup {Len(q) + 1}
  BY <1>1
<1> QED BY <1>1, <1>2, <1>3, <1>4

LEMMA InitNumbered == Init => Numbered
BY DEF Init, Numbered

LEMMA NextNumbered ==
    ASSUME Shape, Numbered, [Next]_vars
    PROVE  Numbered'
<1> USE DEF Numbered
<1>1. ASSUME NEW m \in Markets, Edit(m) PROVE Numbered'
  <2> DEFINE new == [at |-> "flushed", market |-> m, version |-> edits']
  <2>1. /\ edits \in Nat /\ edits' = edits + 1 /\ writers' = writers \cup {new}
        /\ UNCHANGED <<odds, committed, published>>
    BY <1>1 DEF Edit, redis, Shape, Versions
  <2>2. new.at = "flushed" /\ new.version = edits + 1
    BY <2>1
  <2> HIDE DEF new
  <2>3. \A n \in Markets : \A i \in DOMAIN published[n] : published[n][i] \in 1..edits
    OBVIOUS
  <2>4. ASSUME NEW p \in writers'
        PROVE  /\ p.version \in 1..edits'
               /\ p.at = "committed" => p.version \in committed[p.market]
               /\ \A n \in Markets : \A i \in DOMAIN published[n] : published[n][i] # p.version
    <3>1. CASE p = new
      BY <2>1, <2>2, <2>3, <3>1
    <3>2. CASE p \in writers
      BY <2>1, <3>2
    <3> QED BY <2>1, <3>1, <3>2
  <2>5. ASSUME NEW p \in writers', NEW q \in writers', p.version = q.version
        PROVE  p = q
    <3>1. \A r \in writers : r.version \in 1..edits
      OBVIOUS
    <3> QED BY <2>1, <2>2, <2>5, <3>1
  <2>6. \A n \in Markets : \A i \in DOMAIN published[n] : published[n][i] \in 1..edits'
    BY <2>1, <2>3
  <2> QED BY <2>1, <2>4, <2>5, <2>6
<1>2. ASSUME NEW p \in writers, Commit(p) PROVE Numbered'
  <2> DEFINE done == [p EXCEPT !.at = "committed"]
  <2>1. p.at \in {"flushed", "committed"} /\ p.market \in Markets /\ p.version \in Versions
    BY WritersShape
  <2>2. done.at = "committed" /\ done.market = p.market /\ done.version = p.version
    <3>1. p = [at |-> p.at, market |-> p.market, version |-> p.version]
      BY WritersShape
    <3> QED BY <3>1
  <2>3. /\ writers' = (writers \ {p}) \cup {done} /\ UNCHANGED <<edits, published>>
        /\ odds' = [odds EXCEPT ![p.market] = p.version]
        /\ committed' = [committed EXCEPT ![p.market] = @ \cup {p.version}]
    BY <1>2 DEF Commit, redis
  <2> HIDE DEF done
  <2>4. /\ \A m \in Markets : committed[m] \subseteq committed'[m]
        /\ p.version \in committed'[p.market]
        /\ \A m \in Markets : odds'[m] = IF m = p.market THEN p.version ELSE odds[m]
    BY <2>1, <2>3 DEF Shape
  <2>5. \A q \in writers : q.market \in Markets
    BY WritersShape
  <2>6. ASSUME NEW q \in writers'
        PROVE  /\ q.version \in 1..edits
               /\ q.at = "committed" => q.version \in committed'[q.market]
               /\ \A n \in Markets : \A i \in DOMAIN published[n] : published[n][i] # q.version
    BY <2>2, <2>3, <2>4, <2>5
  <2>7. ASSUME NEW q \in writers', NEW r \in writers', q.version = r.version
        PROVE  q = r
    <3>1. q \in writers \ {p} \/ q = done
      BY <2>3
    <3>2. r \in writers \ {p} \/ r = done
      BY <2>3
    <3> QED BY <2>2, <2>7, <3>1, <3>2
  <2>8. \A m \in Markets : odds'[m] \in committed'[m]
    BY <2>1, <2>4
  <2> QED BY <2>3, <2>4, <2>6, <2>7, <2>8
<1>3. ASSUME NEW p \in writers, Publish(p) PROVE Numbered'
  <2>1. p.market \in Markets /\ p.version \in 1..edits /\ p.version \in committed[p.market]
    BY <1>3, WritersShape DEF Publish
  <2>2. /\ published' = [published EXCEPT ![p.market] = Append(@, p.version)]
        /\ writers' = writers \ {p} /\ UNCHANGED <<odds, edits, committed>>
    BY <1>3 DEF Publish, Deliver
  <2>3. ASSUME NEW m \in Markets
        PROVE  /\ m # p.market => published'[m] = published[m]
               /\ m = p.market =>
                    /\ DOMAIN published'[m] = DOMAIN published[m] \cup {Len(published[m]) + 1}
                    /\ published'[m][Len(published[m]) + 1] = p.version
                    /\ \A i \in DOMAIN published[m] : published'[m][i] = published[m][i]
    <3>1. published[m] \in Seq(Versions)
      BY DEF Shape
    <3>2. m # p.market => published'[m] = published[m]
      BY <2>2 DEF Shape
    <3>3. m = p.market => published'[m] = Append(published[m], p.version)
      BY <2>2 DEF Shape
    <3>4. /\ DOMAIN Append(published[m], p.version) = DOMAIN published[m] \cup {Len(published[m]) + 1}
          /\ Append(published[m], p.version)[Len(published[m]) + 1] = p.version
          /\ \A i \in DOMAIN published[m] : Append(published[m], p.version)[i] = published[m][i]
      BY ONLY <3>1, AppendAddsLast
    <3> QED BY ONLY <3>2, <3>3, <3>4
  <2>4. ASSUME NEW m \in Markets, NEW i \in DOMAIN published'[m]
        PROVE  \/ i \in DOMAIN published[m] /\ published'[m][i] = published[m][i]
               \/ m = p.market /\ i = Len(published[m]) + 1 /\ published'[m][i] = p.version
    BY <2>3
  <2>5. \A m \in Markets : \A i \in DOMAIN published'[m] :
          published'[m][i] \in committed[m] /\ published'[m][i] \in 1..edits
    BY <2>1, <2>4
  <2>6. ASSUME NEW m \in Markets, NEW n \in Markets,
               NEW i \in DOMAIN published'[m], NEW j \in DOMAIN published'[n],
               published'[m][i] = published'[n][j]
        PROVE  m = n /\ i = j
    <3>1. \A o \in Markets : \A k \in DOMAIN published[o] : published[o][k] # p.version
      OBVIOUS
    <3> QED BY <2>4, <2>6, <3>1
  <2>7. ASSUME NEW q \in writers'
        PROVE  \A n \in Markets : \A i \in DOMAIN published'[n] : published'[n][i] # q.version
    <3>1. q \in writers /\ q.version # p.version
      BY <2>2
    <3> QED BY <2>4, <3>1
  <2> QED BY <2>2, <2>5, <2>6, <2>7
<1>4. ASSUME NEW p \in writers, GiveUp(p) PROVE Numbered'
  BY <1>4 DEF GiveUp, redis
<1>5. CASE UNCHANGED <<db, published>>
  BY <1>5 DEF db
<1>6. ASSUME NEW w \in Workers, FanOut(w) \/ Resubscribe(w) PROVE UNCHANGED <<db, published>>
  BY <1>6 DEF FanOut, Take, Finish, Send, SendFails, Prune, Resubscribe, redis
<1>7. ASSUME NEW s \in Sockets, HandlerEnds(s) \/ KeepAliveFails(s) PROVE UNCHANGED <<db, published>>
  BY <1>7 DEF HandlerEnds, KeepAliveFails, Close, redis
<1>8. ASSUME NEW c \in Clients, Browse(c) PROVE UNCHANGED <<db, published>>
  BY <1>8 DEF Browse, Load, Receive, Closed, Connect, Rejected, redis
<1>9. ASSUME Fault PROVE UNCHANGED <<db, published>>
  BY <1>9 DEF Fault, RedisDrops, Restart, SocketCloses, SocketHangs, Close, redis
<1>10. CASE UNCHANGED vars
  BY <1>10, <1>5 DEF vars, redis
<1> QED
  BY <1>1, <1>2, <1>3, <1>4, <1>5, <1>6, <1>7, <1>8, <1>9, <1>10 DEF Next, Write

(* Committed versions stay committed.                                      *)
LEMMA CommittedGrows ==
    ASSUME Shape, [Next]_vars
    PROVE  \A m \in Markets : committed[m] \subseteq committed'[m]
<1>1. ASSUME NEW p \in writers, Commit(p)
      PROVE  \A m \in Markets : committed[m] \subseteq committed'[m]
  BY <1>1, WritersShape DEF Commit, Shape
<1>2. CASE UNCHANGED committed
  BY <1>2
<1>3. ASSUME Write, ~\E p \in writers : Commit(p) PROVE UNCHANGED committed
  BY <1>3 DEF Write, Edit, Publish, GiveUp
<1>4. ASSUME Next, ~Write PROVE UNCHANGED committed
  <2>1. ASSUME NEW w \in Workers, FanOut(w) \/ Resubscribe(w) PROVE UNCHANGED db
    BY <2>1 DEF FanOut, Take, Finish, Send, SendFails, Prune, Resubscribe
  <2>2. ASSUME NEW s \in Sockets, HandlerEnds(s) \/ KeepAliveFails(s) PROVE UNCHANGED db
    BY <2>2 DEF HandlerEnds, KeepAliveFails, Close
  <2>3. ASSUME NEW c \in Clients, Browse(c) PROVE UNCHANGED db
    BY <2>3 DEF Browse, Load, Receive, Closed, Connect, Rejected
  <2>4. Fault => UNCHANGED db
    BY DEF Fault, RedisDrops, Restart, SocketCloses, SocketHangs, Close
  <2> QED BY <1>4, <2>1, <2>2, <2>3, <2>4 DEF Next, db
<1>5. CASE UNCHANGED vars
  BY <1>5 DEF vars, db
<1> QED BY <1>1, <1>2, <1>3, <1>4, <1>5 DEF Write

-----------------------------------------------------------------------------
(* Handshakes                                                              *)

\* No client takes another socket.
ClientsStay == SocketsAge /\ \A c \in Clients : current'[c] \in {current[c], None}
Handshake   == \E c \in Clients, s \in Sockets, w \in Workers : Connect(c, s, w) \/ Rejected(c, s, w)

LEMMA StayOrHandshake ==
    ASSUME Shape, Handshakes, [Next]_vars
    PROVE  ClientsStay \/ Handshake
<1>1. ASSUME SocketsAge, UNCHANGED current PROVE ClientsStay
  BY <1>1 DEF ClientsStay
<1>2. ASSUME UNCHANGED <<sock, current>> PROVE ClientsStay
  BY <1>1, <1>2, UnchangedSocketsAge
<1>3. ASSUME Write PROVE ClientsStay
  BY <1>2, <1>3 DEF Write, Edit, Commit, Publish, GiveUp, page
<1>4. ASSUME NEW w \in Workers, FanOut(w) \/ Resubscribe(w) PROVE ClientsStay
  BY <1>2, <1>4 DEF FanOut, Take, Finish, Send, SendFails, Prune, Resubscribe, page
<1>5. ASSUME NEW s \in Sockets, HandlerEnds(s) \/ KeepAliveFails(s) PROVE ClientsStay
  BY <1>1, <1>5, HandlerEndsAges, CloseAges DEF HandlerEnds, KeepAliveFails, Close, page
<1>6. ASSUME NEW c \in Clients, Load(c) PROVE ClientsStay
  BY <1>2, <1>6 DEF Load
<1>7. ASSUME NEW c \in Clients, NEW s \in Sockets, Receive(c, s) PROVE ClientsStay
  BY <1>2, <1>7 DEF Receive
<1>8. ASSUME NEW c \in Clients, NEW s \in Sockets, Closed(c, s) PROVE ClientsStay
  <2>1. \A d \in Clients : current'[d] \in {current[d], None}
    BY <1>8 DEF Closed, Shape
  <2>2. SocketsAge
    BY <1>8, UnchangedSocketsAge DEF Closed
  <2> QED BY <2>1, <2>2 DEF ClientsStay
<1>9. ASSUME NEW w \in Workers, RedisDrops(w) PROVE ClientsStay
  BY <1>2, <1>9 DEF RedisDrops, page
<1>10. ASSUME NEW w \in Workers, Restart(w) PROVE ClientsStay
  BY <1>1, <1>10, RestartAges DEF Restart, page
<1>11. ASSUME NEW s \in Sockets, SocketCloses(s) \/ SocketHangs(s) PROVE ClientsStay
  BY <1>1, <1>11, CloseAges, HangAges DEF SocketCloses, SocketHangs, Close, page
<1>12. CASE UNCHANGED vars
  BY <1>2, <1>12 DEF vars, page
<1> QED
  BY <1>3, <1>4, <1>5, <1>6, <1>7, <1>8, <1>9, <1>10, <1>11, <1>12
  DEF Next, Browse, Fault, Handshake

LEMMA InitHandshakes == Init => Handshakes
<1> SUFFICES ASSUME Init PROVE Handshakes
  OBVIOUS
<1>1. 0 \in 0..MaxSockets /\ \A s \in Sockets : ~(s <= 0)
  BY Constants DEF Sockets
<1>2. \A s \in Sockets : ~Used(s)
  BY DEF Init, Used
<1>3. \E n \in 0..MaxSockets : \A s \in Sockets : Used(s) <=> s <= n
  BY <1>1, <1>2
<1>4. \A c \in Clients : current[c] = None
  BY DEF Init
<1> QED BY <1>2, <1>3, <1>4 DEF Handshakes

LEMMA NextHandshakes ==
    ASSUME Shape, Handshakes, [Next]_vars
    PROVE  Handshakes'
<1>1. CASE ClientsStay
  <2>1. \A s \in Sockets : Used(s)' <=> Used(s)
    BY <1>1 DEF ClientsStay, SocketsAge
  <2>2. \A s \in Sockets : Used(s) => /\ sock'[s].state # "unused"
                                      /\ sock'[s].client \in Clients /\ sock'[s].worker \in Workers
    BY <1>1 DEF ClientsStay, SocketsAge, Handshakes
  <2>3. ASSUME NEW c \in Clients, current'[c] # None
        PROVE  sock'[current'[c]] # Unused /\ sock'[current'[c]].client = c
    <3>1. current'[c] = current[c] /\ current[c] \in Sockets
      BY <1>1, <2>3 DEF ClientsStay, Shape
    <3>2. Used(current[c]) /\ sock[current[c]].client = c
      BY <2>3, <3>1 DEF Handshakes
    <3>3. sock'[current[c]].client = sock[current[c]].client
      BY <1>1, <3>1 DEF ClientsStay, SocketsAge
    <3> QED BY <2>1, <3>1, <3>2, <3>3 DEF Used
  <2>4. \E n \in 0..MaxSockets : \A s \in Sockets : Used(s)' <=> s <= n
    BY <2>1 DEF Handshakes
  <2> QED BY <2>1, <2>2, <2>3, <2>4 DEF Handshakes, Used
<1>2. ASSUME NEW c \in Clients, NEW s \in Sockets, NEW w \in Workers,
             Connect(c, s, w) \/ Rejected(c, s, w)
      PROVE  Handshakes'
  <2>1. /\ ~Used(s)
        /\ \A t \in Sockets : Used(t) <=> t <= s - 1
        /\ \A t \in Sockets : t # s => sock'[t] = sock[t]
        /\ sock'[s].client = c /\ sock'[s].worker = w
        /\ sock'[s].state \in {"open", "gone"}
        /\ current' = [current EXCEPT ![c] = s]
    BY <1>2, HandshakeTakes
  <2>2. Used(s)' /\ \A t \in Sockets : t # s => (Used(t)' <=> Used(t))
    BY <2>1 DEF Used, Unused
  <2>3. \A t \in Sockets : Used(t)' <=> t <= s
    BY <2>1, <2>2 DEF Sockets
  <2>4. \E n \in 0..MaxSockets : \A t \in Sockets : Used(t)' <=> t <= n
    BY <2>3, Constants DEF Sockets
  <2>5. \A t \in Sockets : Used(t)' => /\ sock'[t].state # "unused"
                                       /\ sock'[t].client \in Clients /\ sock'[t].worker \in Workers
    BY <2>1, <2>2 DEF Handshakes
  <2>6. ASSUME NEW d \in Clients, current'[d] # None
        PROVE  sock'[current'[d]] # Unused /\ sock'[current'[d]].client = d
    <3>1. CASE d = c
      BY <2>1, <2>2, <3>1 DEF Shape, Used
    <3>2. CASE d # c
      <4>1. current'[d] = current[d] /\ current[d] \in Sockets
        BY <2>1, <2>6, <3>2 DEF Shape
      <4>2. Used(current[d]) /\ sock[current[d]].client = d
        BY <2>6, <4>1 DEF Handshakes
      <4>3. current[d] # s
        BY <2>1, <4>2
      <4> QED BY <2>1, <2>2, <4>1, <4>2, <4>3 DEF Used
    <3> QED BY <3>1, <3>2
  <2> QED BY <2>4, <2>5, <2>6 DEF Handshakes, Used
<1> QED BY <1>1, <1>2, StayOrHandshake DEF Handshake

-----------------------------------------------------------------------------
(* The targets of a broadcast                                              *)

\* What a broadcast f of worker w relies on.
TargetsOf(w, f) ==
    /\ \A s \in f.to : Used(s) /\ sock[s].worker = w /\ MarketOf(s) = f.msg.market
    /\ \A s \in f.stale : Used(s) /\ sock[s].worker = w /\ sock[s].state \in {"dead", "gone"}

LEMMA TargetsStay ==
    ASSUME Shape, Handshakes, [Next]_vars, NEW w \in Workers, NEW f \in Fan, TargetsOf(w, f)
    PROVE  TargetsOf(w, f)'
<1>1. f.to \in SUBSET Sockets /\ f.stale \in SUBSET Sockets
  BY DEF Fan
<1>2. CASE ClientsStay
  BY <1>1, <1>2 DEF ClientsStay, SocketsAge, TargetsOf, MarketOf
<1>3. ASSUME NEW c \in Clients, NEW s \in Sockets, NEW v \in Workers,
             Connect(c, s, v) \/ Rejected(c, s, v)
      PROVE  TargetsOf(w, f)'
  <2>1. ~Used(s) /\ \A t \in Sockets : t # s => sock'[t] = sock[t]
    BY <1>3, HandshakeTakes
  <2>2. s \notin f.to \cup f.stale
    BY <2>1 DEF TargetsOf
  <2>3. \A t \in f.to \cup f.stale : sock'[t] = sock[t]
    BY <1>1, <2>1, <2>2
  <2> QED BY <2>3 DEF TargetsOf, MarketOf, Used
<1> QED BY <1>2, <1>3, StayOrHandshake DEF Handshake

\* The broadcasts of worker v are those it had.
LEMMA SameFansStay ==
    ASSUME Shape, Handshakes, Targets, [Next]_vars, NEW v \in Workers, fans'[v] \subseteq fans[v]
    PROVE  \A f \in fans'[v] : TargetsOf(v, f)'
<1> SUFFICES ASSUME NEW f \in fans'[v] PROVE TargetsOf(v, f)'
  OBVIOUS
<1>1. f \in Fan /\ TargetsOf(v, f)
  BY FanShape DEF Targets, TargetsOf
<1> QED BY <1>1, TargetsStay

LEMMA InitTargets == Init => Targets
BY DEF Init, Targets

LEMMA NextTargets ==
    ASSUME Shape, Handshakes, Registered, Targets, [Next]_vars
    PROVE  Targets'
<1> SUFFICES ASSUME NEW v \in Workers PROVE \A f \in fans'[v] : TargetsOf(v, f)'
  BY DEF Targets, TargetsOf
<1>1. ASSUME NEW w \in Workers, Take(w) PROVE \A f \in fans'[v] : TargetsOf(v, f)'
  <2>1. CASE v # w
    BY <1>1, <2>1, SameFansStay DEF Take, Shape
  <2>2. CASE v = w
    <3> DEFINE msg == Head(inbox[w])
               f   == [msg |-> msg, to |-> Bucket(w, msg.market), stale |-> {}]
    <3>1. f.msg = msg /\ f.to = Bucket(w, msg.market) /\ f.stale = {}
      OBVIOUS
    <3>2. fans'[v] = {f} /\ UNCHANGED sock
      BY <1>1, <2>2 DEF Take, Shape
    <3> HIDE DEF f, msg
    <3>3. \A s \in f.to : Used(s) /\ sock[s].worker = w /\ MarketOf(s) = f.msg.market
      BY <3>1 DEF Bucket, Registered
    <3> QED BY <2>2, <3>1, <3>2, <3>3 DEF TargetsOf, MarketOf, Used
  <2> QED BY <2>1, <2>2
<1>2. ASSUME NEW w \in Workers, NEW f \in fans[w], Finish(w, f)
      PROVE  \A g \in fans'[v] : TargetsOf(v, g)'
  <2>1. fans'[v] \subseteq fans[v]
    BY <1>2 DEF Finish, Shape
  <2> QED BY <2>1, SameFansStay
<1>3. ASSUME NEW w \in Workers, NEW f \in fans[w], NEW s \in Sockets,
             Send(w, f, s) \/ SendFails(w, f, s) \/ Prune(w, f, s)
      PROVE  \A g \in fans'[v] : TargetsOf(v, g)'
  <2>1. PICK g \in Fan :
          /\ g.msg = f.msg /\ g.to \subseteq f.to
          /\ Send(w, f, s) => s \notin g.to
          /\ g.stale \subseteq f.stale \cup {s}
          /\ s \in g.stale \ f.stale => s \in f.to /\ sock[s].state \in {"dead", "gone"}
          /\ fans' \in [Workers -> SUBSET Fan]
          /\ fans'[w] = (fans[w] \ {f}) \cup {g}
          /\ \A u \in Workers : u # w => fans'[u] = fans[u]
    BY <1>3, FanGoesOn
  <2>2. CASE v # w
    BY <2>1, <2>2, SameFansStay
  <2>3. CASE v = w
    <3>1. TargetsOf(w, f)
      BY DEF Targets, TargetsOf
    <3>2. TargetsOf(w, g)
      <4>1. \A t \in g.to : Used(t) /\ sock[t].worker = w /\ MarketOf(t) = g.msg.market
        BY <2>1, <3>1 DEF TargetsOf
      <4>2. ASSUME NEW t \in g.stale
            PROVE  Used(t) /\ sock[t].worker = w /\ sock[t].state \in {"dead", "gone"}
        <5>1. CASE t \in f.stale
          BY <3>1, <5>1 DEF TargetsOf
        <5>2. CASE t \notin f.stale
          <6>1. t = s /\ s \in f.to /\ sock[s].state \in {"dead", "gone"}
            BY <2>1, <4>2, <5>2
          <6> QED BY <3>1, <6>1 DEF TargetsOf
        <5> QED BY <5>1, <5>2
      <4> QED BY <4>1, <4>2 DEF TargetsOf
    <3>3. TargetsOf(w, g)'
      BY <3>2, TargetsStay
    <3>4. ASSUME NEW h \in fans[w] PROVE TargetsOf(w, h)'
      <4>1. h \in Fan /\ TargetsOf(w, h)
        BY FanShape DEF Targets, TargetsOf
      <4> QED BY <4>1, TargetsStay
    <3> QED BY <2>1, <2>3, <3>3, <3>4
  <2> QED BY <2>2, <2>3
<1>4. ASSUME NEW w \in Workers, Restart(w) PROVE \A f \in fans'[v] : TargetsOf(v, f)'
  <2>1. fans'[v] \subseteq fans[v]
    BY <1>4 DEF Restart, Shape
  <2> QED BY <2>1, SameFansStay
<1>5. ASSUME UNCHANGED fans PROVE \A f \in fans'[v] : TargetsOf(v, f)'
  BY <1>5, SameFansStay
<1>6. CASE Write
  BY <1>5, <1>6 DEF Write, Edit, Commit, Publish, GiveUp, manager
<1>7. ASSUME NEW w \in Workers, Resubscribe(w) PROVE \A f \in fans'[v] : TargetsOf(v, f)'
  BY <1>5, <1>7 DEF Resubscribe, manager
<1>8. ASSUME NEW s \in Sockets, HandlerEnds(s) \/ KeepAliveFails(s)
      PROVE  \A f \in fans'[v] : TargetsOf(v, f)'
  BY <1>5, <1>8 DEF HandlerEnds, KeepAliveFails, Close, manager
<1>9. ASSUME NEW c \in Clients, Browse(c) PROVE \A f \in fans'[v] : TargetsOf(v, f)'
  BY <1>5, <1>9 DEF Browse, Load, Receive, Closed, Connect, Rejected, manager
<1>10. ASSUME NEW w \in Workers, RedisDrops(w) PROVE \A f \in fans'[v] : TargetsOf(v, f)'
  BY <1>5, <1>10 DEF RedisDrops, manager
<1>11. ASSUME NEW s \in Sockets, SocketCloses(s) \/ SocketHangs(s)
       PROVE  \A f \in fans'[v] : TargetsOf(v, f)'
  BY <1>5, <1>11 DEF SocketCloses, SocketHangs, Close, manager
<1>12. CASE UNCHANGED vars
  BY <1>5, <1>12 DEF vars, manager
<1> QED
  BY <1>1, <1>2, <1>3, <1>4, <1>6, <1>7, <1>8, <1>9, <1>10, <1>11, <1>12 DEF Next, FanOut, Fault

-----------------------------------------------------------------------------
(* The registries                                                          *)

LEMMA BucketShrinks ==
    ASSUME NEW T \in SUBSET Sockets, NEW S \in SUBSET T
    PROVE  Cardinality(S) <= Cardinality(T)
BY SocketsFinite, FS_Subset

(* Sockets that age, and registries that lose only sockets that are not    *)
(* open, leave every registry in order.                                    *)
LEMMA RegistriesShrink ==
    ASSUME Shape, Registered, SocketsAge,
           registry' \in [Workers -> SUBSET Sockets],
           \A v \in Workers : /\ registry'[v] \subseteq registry[v]
                              /\ total'[v] = Cardinality(registry'[v]) /\ total'[v] <= total[v]
                              /\ total'[v] \in Nat
                              /\ \A s \in registry[v] \ registry'[v] : ~IsOpen(s)'
    PROVE  Registered'
<1> SUFFICES ASSUME NEW w \in Workers
             PROVE  /\ \A s \in registry'[w] : Used(s)' /\ sock'[s].worker = w
                    /\ total'[w] = Cardinality(registry'[w]) /\ total'[w] <= MaxTotal
                    /\ \A m \in Markets : Cardinality(Bucket(w, m)') <= MaxPerMarket
                    /\ \A s \in Sockets : IsOpen(s)' /\ sock'[s].worker = w => s \in registry'[w]
  BY DEF Registered
<1>1. registry[w] \in SUBSET Sockets /\ registry'[w] \in SUBSET Sockets /\ total[w] \in Nat
  BY DEF Shape
<1>2. \A s \in registry'[w] : Used(s)' /\ sock'[s].worker = w
  BY <1>1 DEF Registered, SocketsAge
<1>3. total'[w] = Cardinality(registry'[w]) /\ total'[w] <= MaxTotal
  <2>1. total[w] <= MaxTotal
    BY DEF Registered
  <2> QED BY <1>1, <2>1, Constants
<1>4. ASSUME NEW m \in Markets PROVE Cardinality(Bucket(w, m)') <= MaxPerMarket
  <2> DEFINE old == Bucket(w, m)
             new == Bucket(w, m)'
  <2>1. new \subseteq old /\ old \in SUBSET Sockets
    BY <1>1 DEF Bucket, MarketOf, SocketsAge
  <2>2. Cardinality(old) <= MaxPerMarket
    BY DEF Registered
  <2> HIDE DEF old, new
  <2>3. Cardinality(new) <= Cardinality(old) /\ Cardinality(old) \in Nat /\ Cardinality(new) \in Nat
    BY <2>1, BucketShrinks, SocketsFinite
  <2>4. Cardinality(new) <= MaxPerMarket
    BY <2>2, <2>3, Constants
  <2> QED BY <2>4 DEF new
<1>5. ASSUME NEW s \in Sockets, IsOpen(s)', sock'[s].worker = w PROVE s \in registry'[w]
  <2>1. IsOpen(s) /\ sock[s].worker = w
    BY <1>5 DEF SocketsAge
  <2> QED BY <1>5, <2>1 DEF Registered
<1> QED BY <1>2, <1>3, <1>4, <1>5

LEMMA DisconnectKeepsOrder ==
    ASSUME Shape, Registered, SocketsAge, NEW w \in Workers, NEW s \in Sockets, ~IsOpen(s)',
           disconnect(w, s)
    PROVE  Registered'
<1>1. /\ registry' \in [Workers -> SUBSET Sockets] /\ total' \in [Workers -> Nat]
      /\ \A v \in Workers : registry'[v] = IF v = w THEN registry[v] \ {s} ELSE registry[v]
      /\ \A v \in Workers : total'[v] = Cardinality(registry'[v]) /\ total'[v] <= total[v]
  BY DisconnectCounts
<1>2. \A v \in Workers : registry'[v] \subseteq registry[v] /\ registry[v] \ registry'[v] \subseteq {s}
  BY <1>1
<1>3. \A v \in Workers : total'[v] \in Nat
  BY <1>1
<1> QED BY <1>1, <1>2, <1>3, RegistriesShrink

LEMMA UnchangedRegistries ==
    ASSUME Shape, Registered, SocketsAge, UNCHANGED <<registry, total>>
    PROVE  Registered'
<1>1. registry' \in [Workers -> SUBSET Sockets] /\ \A v \in Workers : total[v] \in Nat
  BY DEF Shape
<1>2. \A v \in Workers : total[v] = Cardinality(registry[v])
  BY DEF Registered
<1> QED BY <1>1, <1>2, RegistriesShrink

LEMMA InitRegistered == Init => Registered
<1>1. ASSUME Init, NEW w \in Workers
      PROVE  /\ registry[w] = {} /\ total[w] = Cardinality({}) /\ total[w] <= MaxTotal
             /\ \A s \in Sockets : ~IsOpen(s)
  BY <1>1, Constants, FS_EmptySet DEF Init, IsOpen, Unused
<1>2. ASSUME Init, NEW w \in Workers, NEW m \in Markets
      PROVE  Cardinality(Bucket(w, m)) <= MaxPerMarket
  <2>1. Bucket(w, m) = {}
    BY <1>1, <1>2 DEF Bucket
  <2> QED BY <2>1, Constants, FS_EmptySet
<1> QED BY <1>1, <1>2 DEF Registered

LEMMA NextRegistered ==
    ASSUME Shape, Handshakes, Targets, Registered, [Next]_vars
    PROVE  Registered'
<1>1. ASSUME UNCHANGED <<sock, registry, total>> PROVE Registered'
  BY <1>1, UnchangedSocketsAge, UnchangedRegistries
<1>2. CASE Write
  BY <1>1, <1>2 DEF Write, Edit, Commit, Publish, GiveUp, manager
<1>3. ASSUME NEW w \in Workers, Take(w) \/ Resubscribe(w) \/ RedisDrops(w) PROVE Registered'
  BY <1>1, <1>3 DEF Take, Resubscribe, RedisDrops, manager
<1>4. ASSUME NEW w \in Workers, NEW f \in fans[w],
             Finish(w, f) \/ \E s \in Sockets : Send(w, f, s) \/ SendFails(w, f, s)
      PROVE  Registered'
  BY <1>1, <1>4 DEF Finish, Send, SendFails
<1>5. ASSUME NEW w \in Workers, NEW f \in fans[w], NEW s \in Sockets, Prune(w, f, s)
      PROVE  Registered'
  <2>1. SocketsAge
    BY <1>5, UnchangedSocketsAge DEF Prune
  <2>2. ~IsOpen(s)'
    BY <1>5 DEF Prune, Targets, IsOpen
  <2> QED BY <1>5, <2>1, <2>2, DisconnectKeepsOrder DEF Prune
<1>6. ASSUME NEW s \in Sockets, HandlerEnds(s) PROVE Registered'
  <2>1. SocketsAge /\ sock[s].worker \in Workers
    BY <1>6, HandlerEndsAges
  <2>2. ~IsOpen(s)'
    BY <1>6, <2>1 DEF HandlerEnds, SocketsAge, IsOpen
  <2> QED BY <1>6, <2>1, <2>2, DisconnectKeepsOrder DEF HandlerEnds
<1>7. ASSUME NEW s \in Sockets, KeepAliveFails(s) \/ SocketCloses(s) \/ SocketHangs(s)
      PROVE  Registered'
  <2>1. UNCHANGED <<registry, total>>
    BY <1>7 DEF KeepAliveFails, SocketCloses, SocketHangs, Close, manager
  <2> QED BY <1>7, <2>1, CloseAges, HangAges, UnchangedRegistries
<1>8. ASSUME NEW c \in Clients, NEW s \in Sockets, Receive(c, s) \/ Closed(c, s)
      PROVE  Registered'
  BY <1>1, <1>8 DEF Receive, Closed, manager
<1>9. ASSUME NEW c \in Clients, Load(c) PROVE Registered'
  BY <1>1, <1>9 DEF Load, manager
<1>10. ASSUME NEW w \in Workers, Restart(w) PROVE Registered'
  <2>1. SocketsAge
    BY <1>10, RestartAges
  <2>2. /\ registry' = [registry EXCEPT ![w] = {}] /\ total' = [total EXCEPT ![w] = 0]
        /\ sock' = [s \in Sockets |-> IF sock[s].worker = w THEN [sock[s] EXCEPT !.state = "gone"]
                                                             ELSE sock[s]]
    BY <1>10 DEF Restart
  <2>3. /\ registry' \in [Workers -> SUBSET Sockets]
        /\ registry'[w] = {} /\ total'[w] = 0
        /\ \A v \in Workers : v # w => registry'[v] = registry[v] /\ total'[v] = total[v]
        /\ \A v \in Workers : total[v] \in Nat
    BY <2>2 DEF Shape
  <2>4. \A v \in Workers : total[v] = Cardinality(registry[v])
    BY DEF Registered
  <2>5. ASSUME NEW s \in registry[w] PROVE ~IsOpen(s)'
    <3>1. s \in Sockets /\ sock[s].worker = w
      BY DEF Registered, Shape
    <3>2. sock'[s] = [sock[s] EXCEPT !.state = "gone"]
      BY <2>2, <3>1
    <3>3. sock[s] \in Socket
      BY <3>1, SocketIsRecord
    <3> QED BY <3>2, <3>3 DEF IsOpen, Socket
  <2>6. \A v \in Workers : total'[v] = Cardinality(registry'[v]) /\ total'[v] <= total[v] /\ total'[v] \in Nat
    BY <2>3, <2>4, FS_EmptySet
  <2> QED BY <2>1, <2>3, <2>5, <2>6, RegistriesShrink
<1>11. ASSUME NEW c \in Clients, NEW s \in Sockets, NEW w \in Workers,
              Connect(c, s, w) \/ Rejected(c, s, w)
       PROVE  Registered'
  <2>1. /\ ~Used(s)
        /\ \A t \in Sockets : t # s => sock'[t] = sock[t]
        /\ sock'[s].client = c /\ sock'[s].worker = w
        /\ sock'[s].state \in {"open", "gone"}
    BY <1>11, HandshakeTakes
  <2>2. Used(s)'
    BY <2>1 DEF Used, Unused
  <2>3. ASSUME NEW v \in Workers
        PROVE  /\ s \notin registry[v]
               /\ registry[v] \in SUBSET Sockets
               /\ \A t \in registry[v] : sock'[t] = sock[t] /\ Used(t)' /\ sock'[t].worker = v
    BY <2>1 DEF Registered, Shape, Used
  <2>4. ASSUME NEW v \in Workers, registry'[v] = registry[v], total'[v] = total[v],
               IsOpen(s)' => v # w
        PROVE  /\ \A t \in registry'[v] : Used(t)' /\ sock'[t].worker = v
               /\ total'[v] = Cardinality(registry'[v]) /\ total'[v] <= MaxTotal
               /\ \A m \in Markets : Cardinality(Bucket(v, m)') <= MaxPerMarket
               /\ \A t \in Sockets : IsOpen(t)' /\ sock'[t].worker = v => t \in registry'[v]
    <3>1. ASSUME NEW m \in Markets PROVE Bucket(v, m)' = Bucket(v, m)
      BY <2>3, <2>4 DEF Bucket, MarketOf
    <3>2. \A m \in Markets : Cardinality(Bucket(v, m)') <= MaxPerMarket
      BY <3>1 DEF Registered
    <3>3. ASSUME NEW t \in Sockets, IsOpen(t)', sock'[t].worker = v PROVE t \in registry'[v]
      <4>1. t # s
        BY <2>1, <2>4, <3>3
      <4>2. IsOpen(t) /\ sock[t].worker = v
        BY <2>1, <3>3, <4>1 DEF IsOpen
      <4> QED BY <2>4, <4>2 DEF Registered
    <3>4. total[v] = Cardinality(registry[v]) /\ total[v] <= MaxTotal
      BY DEF Registered
    <3> QED BY <2>3, <2>4, <3>2, <3>3, <3>4
  <2>5. CASE Rejected(c, s, w)
    <3>1. UNCHANGED <<registry, total>> /\ sock' = [sock EXCEPT ![s] = [state |-> "gone", client |-> c, worker |-> w]]
      BY <2>5 DEF Rejected, manager
    <3>2. ~IsOpen(s)'
      BY <3>1 DEF IsOpen, Shape
    <3> QED BY <2>4, <3>1, <3>2 DEF Registered
  <2>6. CASE Connect(c, s, w)
    <3>1. /\ registry' = [registry EXCEPT ![w] = @ \cup {s}] /\ total' = [total EXCEPT ![w] = @ + 1]
          /\ total[w] < MaxTotal /\ Cardinality(Bucket(w, Watches[c])) < MaxPerMarket
      BY <2>6 DEF Connect
    <3>2. /\ registry'[w] = registry[w] \cup {s} /\ total'[w] = total[w] + 1
          /\ \A v \in Workers : v # w => registry'[v] = registry[v] /\ total'[v] = total[v]
      BY <3>1 DEF Shape
    <3>3. \A t \in registry'[w] : Used(t)' /\ sock'[t].worker = w
      BY <2>1, <2>2, <2>3, <3>2
    <3>4. total'[w] = Cardinality(registry'[w]) /\ total'[w] <= MaxTotal
      <4>1. s \notin registry[w] /\ registry[w] \in SUBSET Sockets
        BY <2>3
      <4>2. IsFiniteSet(registry[w]) /\ Cardinality(registry[w]) \in Nat
        BY <4>1, SocketsFinite
      <4>3. Cardinality(registry[w] \cup {s}) = Cardinality(registry[w]) + 1
        BY <4>1, <4>2, FS_AddElement
      <4>4. total[w] = Cardinality(registry[w])
        BY DEF Registered
      <4>5. total'[w] = Cardinality(registry'[w])
        BY ONLY <3>2, <4>3, <4>4
      <4>6. MaxTotal \in Nat /\ total[w] < MaxTotal /\ total[w] \in Nat /\ total'[w] = total[w] + 1
        BY <3>1, <3>2, <4>2, <4>4, Constants
      <4>7. total'[w] <= MaxTotal
        BY ONLY <4>6
      <4> QED BY <4>5, <4>7
    <3>5. ASSUME NEW m \in Markets PROVE Cardinality(Bucket(w, m)') <= MaxPerMarket
      <4> DEFINE old == Bucket(w, m)
                 new == Bucket(w, m)'
      <4>1. old \in SUBSET Sockets /\ s \notin old
        BY <2>3 DEF Bucket
      <4>2. new = IF m = Watches[c] THEN old \cup {s} ELSE old
        BY <2>1, <2>3, <3>2 DEF Bucket, MarketOf
      <4>3. m = Watches[c] => Cardinality(old) < MaxPerMarket
        BY <3>1 DEF Registered
      <4>4. Cardinality(old) <= MaxPerMarket
        BY DEF Registered
      <4> HIDE DEF old, new
      <4>5. IsFiniteSet(old) /\ Cardinality(old) \in Nat
        BY <4>1, SocketsFinite
      <4>6. Cardinality(old \cup {s}) = Cardinality(old) + 1
        BY <4>1, <4>5, FS_AddElement
      <4>7. Cardinality(new) <= MaxPerMarket
        BY <4>2, <4>3, <4>4, <4>5, <4>6, Constants
      <4> QED BY <4>7 DEF new
    <3>6. ASSUME NEW t \in Sockets, IsOpen(t)', sock'[t].worker = w PROVE t \in registry'[w]
      <4>1. CASE t = s
        BY <3>2, <4>1
      <4>2. CASE t # s
        <5>1. IsOpen(t) /\ sock[t].worker = w
          BY <2>1, <3>6, <4>2 DEF IsOpen
        <5> QED BY <3>2, <5>1 DEF Registered
      <4> QED BY <4>1, <4>2
    <3> QED BY <2>4, <3>2, <3>3, <3>4, <3>5, <3>6 DEF Registered
  <2> QED BY <1>11, <2>5, <2>6
<1>12. CASE UNCHANGED vars
  BY <1>1, <1>12 DEF vars, manager
<1> QED
  BY <1>2, <1>3, <1>4, <1>5, <1>6, <1>7, <1>8, <1>9, <1>10, <1>11, <1>12
  DEF Next, FanOut, Browse, Fault

-----------------------------------------------------------------------------
(* The order of the messages                                               *)

\* The channel chan has become longer.
Longer(chan, long) ==
  /\ \A v : Occurs(chan, v) => Occurs(long, v)
  /\ \A u, v : Before(chan, u, v) => Before(long, u, v)

LEMMA BoxTail ==
    ASSUME NEW pub, NEW box \in Seq(Message), box # <<>>, BoxInOrder(pub, box)
    PROVE  BoxInOrder(pub, Tail(box)) /\ BeforeBox(pub, Head(box), Tail(box))
<1>1. /\ DOMAIN box = 1..Len(box) /\ DOMAIN Tail(box) = 1..(Len(box) - 1)
      /\ 1 \in DOMAIN box /\ Head(box) = box[1] /\ Len(box) \in Nat
      /\ \A i \in DOMAIN Tail(box) : i + 1 \in DOMAIN box /\ Tail(box)[i] = box[i + 1]
  OBVIOUS
<1>2. BoxInOrder(pub, Tail(box))
  BY <1>1 DEF BoxInOrder
<1>3. BeforeBox(pub, Head(box), Tail(box))
  <2>1. Occurs(pub[box[1].market], box[1].version)
    BY <1>1 DEF BoxInOrder
  <2>2. ASSUME NEW k \in DOMAIN Tail(box), Tail(box)[k].market = box[1].market
        PROVE  Before(pub[box[1].market], box[1].version, Tail(box)[k].version)
    <3>1. k + 1 \in DOMAIN box /\ 1 < k + 1 /\ box[k + 1] = Tail(box)[k]
      BY <1>1
    <3> QED BY <1>1, <2>2, <3>1 DEF BoxInOrder
  <2> QED BY <1>1, <2>1, <2>2 DEF BeforeBox
<1> QED BY <1>2, <1>3

LEMMA BoxPrefix ==
    ASSUME NEW pub, NEW box \in Seq(Message), NEW n \in 0..Len(box)
    PROVE  /\ BoxInOrder(pub, box) => BoxInOrder(pub, SubSeq(box, 1, n))
           /\ \A msg : BeforeBox(pub, msg, box) => BeforeBox(pub, msg, SubSeq(box, 1, n))
           /\ \A k \in DOMAIN SubSeq(box, 1, n) :
                k \in DOMAIN box /\ SubSeq(box, 1, n)[k] = box[k]
<1> DEFINE part == SubSeq(box, 1, n)
<1>1. n \in Int /\ \A i \in 1..n : box[i] \in Message
  OBVIOUS
<1>2. /\ part \in Seq(Message) /\ Len(part) = n
      /\ \A i \in 1..n : part[i] = box[i]
  BY <1>1, SubSeqProperties
<1> HIDE DEF part
<1>3. \A k \in DOMAIN part : k \in DOMAIN box /\ part[k] = box[k]
  BY <1>2
<1>4. BoxInOrder(pub, box) => BoxInOrder(pub, part)
  BY <1>3 DEF BoxInOrder
<1>5. \A msg : BeforeBox(pub, msg, box) => BeforeBox(pub, msg, part)
  BY <1>3 DEF BeforeBox
<1> QED BY <1>3, <1>4, <1>5 DEF part

LEMMA BoxKept ==
    ASSUME NEW pub, NEW pub2, \A m \in Markets : Longer(pub[m], pub2[m]),
           NEW box \in Seq(Message)
    PROVE  /\ BoxInOrder(pub, box) => BoxInOrder(pub2, box)
           /\ \A msg \in Message : BeforeBox(pub, msg, box) => BeforeBox(pub2, msg, box)
<1>1. \A k \in DOMAIN box : box[k].market \in Markets
  <2>1. \A k \in DOMAIN box : box[k] \in Message
    OBVIOUS
  <2> QED BY <2>1 DEF Message
<1>2. BoxInOrder(pub, box) => BoxInOrder(pub2, box)
  BY <1>1 DEF BoxInOrder, Longer
<1>3. ASSUME NEW msg \in Message, BeforeBox(pub, msg, box) PROVE BeforeBox(pub2, msg, box)
  <2>1. msg.market \in Markets
    BY DEF Message
  <2> QED BY <1>3, <2>1 DEF BeforeBox, Longer
<1> QED BY <1>2, <1>3

LEMMA BoxAppend ==
    ASSUME NEW pub, NEW box \in Seq(Message), NEW msg \in Message,
           Occurs(pub[msg.market], msg.version),
           \A k \in DOMAIN box : box[k].market = msg.market
             => Before(pub[msg.market], box[k].version, msg.version)
    PROVE  /\ BoxInOrder(pub, box) => BoxInOrder(pub, Append(box, msg))
           /\ \A first : BeforeBox(pub, first, box)
                /\ (first.market = msg.market => Before(pub[msg.market], first.version, msg.version))
                => BeforeBox(pub, first, Append(box, msg))
<1> DEFINE long == Append(box, msg)
<1>1. \A k \in DOMAIN long : \/ k \in DOMAIN box /\ long[k] = box[k]
                             \/ k = Len(box) + 1 /\ long[k] = msg
  OBVIOUS
<1>2. \A j \in DOMAIN box : j < Len(box) + 1
  OBVIOUS
<1> HIDE DEF long
<1>3. ASSUME BoxInOrder(pub, box) PROVE BoxInOrder(pub, long)
  <2>1. \A k \in DOMAIN long : Occurs(pub[long[k].market], long[k].version)
    BY <1>1, <1>3 DEF BoxInOrder
  <2>2. ASSUME NEW j \in DOMAIN long, NEW k \in DOMAIN long, j < k, long[j].market = long[k].market
        PROVE  Before(pub[long[k].market], long[j].version, long[k].version)
    <3>1. CASE k \in DOMAIN box /\ long[k] = box[k]
      <4>1. j \in DOMAIN box /\ long[j] = box[j]
        <5>1. k \in 1..Len(box) /\ Len(box) \in Nat
          BY <3>1
        <5> QED BY <1>1, <2>2, <5>1
      <4> QED BY <1>3, <2>2, <3>1, <4>1 DEF BoxInOrder
    <3>2. CASE k = Len(box) + 1 /\ long[k] = msg
      <4>1. j \in DOMAIN box /\ long[j] = box[j]
        <5>1. Len(box) \in Nat
          OBVIOUS
        <5> QED BY <1>1, <2>2, <3>2, <5>1
      <4> QED BY <2>2, <3>2, <4>1
    <3> QED BY <1>1, <3>1, <3>2
  <2> QED BY <2>1, <2>2 DEF BoxInOrder
<1>4. ASSUME NEW first, BeforeBox(pub, first, box),
             first.market = msg.market => Before(pub[msg.market], first.version, msg.version)
      PROVE  BeforeBox(pub, first, long)
  BY <1>1, <1>4 DEF BeforeBox
<1> QED BY <1>3, <1>4 DEF long

LEMMA StreamStays ==
    ASSUME NEW chan, NEW long, Longer(chan, long), NEW m,
           NEW q \in Seq(Versions), NEW q2 \in Seq(Versions),
           Len(q2) <= Len(q), \A i \in 1..Len(q2) : q2[i] = q[i],
           NEW coming, NEW coming2 \in SUBSET coming,
           NEW box, NEW box2, \A k \in DOMAIN box2 : \E j \in DOMAIN box : box2[k] = box[j],
           Stream(chan, m, q, coming, box)
    PROVE  Stream(long, m, q2, coming2, box2)
<1>1. \A i \in DOMAIN q2 : i \in DOMAIN q /\ q2[i] = q[i]
  OBVIOUS
<1>2. Ordered(long, q2)
  BY <1>1 DEF Stream, Ordered, Longer
<1>3. \A v : AllBefore(chan, q, v) => AllBefore(long, q2, v)
  BY <1>1 DEF AllBefore, Longer
<1> QED BY <1>2, <1>3 DEF Stream

LEMMA StreamTake ==
    ASSUME NEW chan, NEW m, NEW q, NEW coming, NEW box \in Seq(Message), box # <<>>,
           Stream(chan, m, q, coming, box), NEW coming2,
           \A v \in coming2 : Head(box).market = m /\ v = Head(box).version
    PROVE  Stream(chan, m, q, coming2, Tail(box))
<1>1. /\ 1 \in DOMAIN box /\ Head(box) = box[1]
      /\ \A i \in DOMAIN Tail(box) : i + 1 \in DOMAIN box /\ Tail(box)[i] = box[i + 1]
  OBVIOUS
<1> QED BY <1>1 DEF Stream

LEMMA StreamSend ==
    ASSUME NEW chan, NEW m, NEW q \in Seq(Versions), NEW coming, NEW box, NEW v \in coming,
           Stream(chan, m, q, coming, box), v \in Versions, Occurs(chan, v),
           \A k \in DOMAIN box : box[k].market = m => Before(chan, v, box[k].version)
    PROVE  Stream(chan, m, Append(q, v), {}, box)
<1> DEFINE long == Append(q, v)
<1>1. /\ Len(q) \in Nat /\ DOMAIN q = 1..Len(q) /\ DOMAIN long = 1..(Len(q) + 1)
      /\ \A k \in DOMAIN long : \/ k \in DOMAIN q /\ long[k] = q[k]
                                \/ k = Len(q) + 1 /\ long[k] = v
  OBVIOUS
<1> HIDE DEF long
<1>2. AllBefore(chan, q, v) /\ Ordered(chan, q)
  BY DEF Stream
<1>3. Ordered(chan, long)
  <2>1. \A i \in DOMAIN long : Occurs(chan, long[i])
    BY <1>1, <1>2 DEF Ordered
  <2>2. ASSUME NEW i \in DOMAIN long, NEW j \in DOMAIN long, i < j
        PROVE  Before(chan, long[i], long[j])
    <3>1. i \in DOMAIN q /\ long[i] = q[i]
      BY <1>1, <2>2
    <3>2. CASE j \in DOMAIN q /\ long[j] = q[j]
      BY <1>2, <2>2, <3>1, <3>2 DEF Ordered
    <3>3. CASE j = Len(q) + 1 /\ long[j] = v
      BY <1>2, <3>1, <3>3 DEF AllBefore
    <3> QED BY <1>1, <3>2, <3>3
  <2> QED BY <2>1, <2>2 DEF Ordered
<1>4. ASSUME NEW k \in DOMAIN box, box[k].market = m PROVE AllBefore(chan, long, box[k].version)
  <2>1. AllBefore(chan, q, box[k].version) /\ Before(chan, v, box[k].version)
    BY <1>4 DEF Stream
  <2> QED BY <1>1, <2>1 DEF AllBefore
<1> QED BY <1>3, <1>4 DEF Stream, long

LEMMA StreamPublish ==
    ASSUME NEW chan, NEW long, Longer(chan, long), NEW m, NEW q, NEW coming,
           NEW box \in Seq(Message), NEW msg \in Message,
           Stream(chan, m, q, coming, box),
           msg.market = m => \A u : Occurs(chan, u) => Before(long, u, msg.version)
    PROVE  Stream(long, m, q, coming, box) /\ Stream(long, m, q, coming, Append(box, msg))
<1>1. Ordered(long, q)
  BY DEF Stream, Ordered, Longer
<1>2. \A v : AllBefore(chan, q, v) => AllBefore(long, q, v)
  BY DEF AllBefore, Longer
<1>3. msg.market = m => AllBefore(long, q, msg.version)
  BY DEF Stream, Ordered, AllBefore
<1>4. \A k \in DOMAIN Append(box, msg) : \/ k \in DOMAIN box /\ Append(box, msg)[k] = box[k]
                                         \/ Append(box, msg)[k] = msg
  OBVIOUS
<1>5. Stream(long, m, q, coming, box)
  BY <1>1, <1>2 DEF Stream
<1> DEFINE more == Append(box, msg)
<1> HIDE DEF more
<1>6. Stream(long, m, q, coming, more)
  BY <1>1, <1>2, <1>3, <1>4 DEF Stream, more
<1> QED BY <1>5, <1>6 DEF more

-----------------------------------------------------------------------------
(* Every step keeps the order                                              *)

OrderKept == \A m \in Markets : Longer(published[m], published'[m])

\* Nothing is added to what a socket was sent.
SentKept(s) ==
  /\ Len(got'[s] \o frames'[s]) <= Len(got[s] \o frames[s])
  /\ \A i \in 1..Len(got'[s] \o frames'[s]) : (got'[s] \o frames'[s])[i] = (got[s] \o frames[s])[i]
  /\ got[s] = <<>> /\ frames[s] = <<>> => got'[s] = <<>> /\ frames'[s] = <<>>

LEMMA SameOrder ==
    ASSUME UNCHANGED published
    PROVE  OrderKept
BY DEF OrderKept, Longer

LEMMA SentType ==
    ASSUME Shape, NEW s \in Sockets
    PROVE  got[s] \in Seq(Versions) /\ frames[s] \in Seq(Versions) /\ got[s] \o frames[s] \in Seq(Versions)
<1>1. got[s] \in Seq(Versions) /\ frames[s] \in Seq(Versions)
  BY DEF Shape
<1> QED BY <1>1, ConcatProperties

(* Reading a frame moves it, sending one adds it at the end, and losing    *)
(* the frames leaves what was read.                                        *)
LEMMA ReadMoves ==
    ASSUME NEW g \in Seq(Versions), NEW f \in Seq(Versions), f # <<>>
    PROVE  Append(g, Head(f)) \o Tail(f) = g \o f
<1>1. Head(f) \in Versions /\ Tail(f) \in Seq(Versions) /\ <<Head(f)>> \in Seq(Versions)
  OBVIOUS
<1>2. Append(g, Head(f)) = g \o <<Head(f)>>
  BY <1>1
<1>3. <<Head(f)>> \o Tail(f) = f
  BY <1>1
<1> QED BY <1>1, <1>2, <1>3, ConcatAssociative

LEMMA SendAdds ==
    ASSUME NEW g \in Seq(Versions), NEW f \in Seq(Versions), NEW v \in Versions
    PROVE  g \o Append(f, v) = Append(g \o f, v)
<1>1. <<v>> \in Seq(Versions) /\ g \o f \in Seq(Versions)
  BY ConcatProperties
<1>2. Append(f, v) = f \o <<v>> /\ Append(g \o f, v) = (g \o f) \o <<v>>
  BY <1>1
<1> QED BY <1>1, <1>2, ConcatAssociative

LEMMA ClearLeaves ==
    ASSUME NEW g \in Seq(Versions), NEW f \in Seq(Versions)
    PROVE  Len(g) <= Len(g \o f) /\ \A i \in 1..Len(g) : g[i] = (g \o f)[i]
<1>1. /\ Len(g \o f) = Len(g) + Len(f) /\ Len(g) \in Nat /\ Len(f) \in Nat
      /\ \A i \in 1..Len(g) + Len(f) : (g \o f)[i] = IF i <= Len(g) THEN g[i] ELSE f[i - Len(g)]
  BY ConcatProperties
<1> DEFINE q == g \o f
<1> HIDE DEF q
<1>2. Len(g) <= Len(q) /\ \A i \in 1..Len(g) : g[i] = q[i]
  BY <1>1 DEF q
<1> QED BY <1>2 DEF q

LEMMA KeptOrCleared ==
    ASSUME Shape, NEW s \in Sockets, got'[s] = got[s], frames'[s] \in {frames[s], <<>>}
    PROVE  SentKept(s)
<1>1. got[s] \in Seq(Versions) /\ frames[s] \in Seq(Versions) /\ got[s] \o frames[s] \in Seq(Versions)
  BY SentType
<1>2. CASE frames'[s] = frames[s]
  BY <1>1, <1>2 DEF SentKept
<1>3. CASE frames'[s] = <<>>
  <2> DEFINE old == got[s] \o frames[s]
             new == got'[s] \o frames'[s]
  <2>1. new = got[s]
    BY <1>1, <1>3, ConcatEmptySeq
  <2>2. Len(got[s]) <= Len(old) /\ \A i \in 1..Len(got[s]) : got[s][i] = old[i]
    BY <1>1, ClearLeaves
  <2> HIDE DEF old, new
  <2>3. Len(new) <= Len(old) /\ \A i \in 1..Len(new) : new[i] = old[i]
    BY <2>1, <2>2
  <2> QED BY <1>3, <2>3 DEF SentKept, old, new
<1> QED BY <1>2, <1>3

LEMMA ReceiveKeeps ==
    ASSUME Shape, NEW c \in Clients, NEW s \in Sockets, Receive(c, s), NEW t \in Sockets
    PROVE  SentKept(t)
<1>1. /\ frames[s] # <<>>
      /\ got' = [got EXCEPT ![s] = Append(@, Head(frames[s]))]
      /\ frames' = [frames EXCEPT ![s] = Tail(@)]
  BY DEF Receive
<1>2. CASE t # s
  <2>1. got'[t] = got[t] /\ frames'[t] = frames[t]
    BY <1>1, <1>2 DEF Shape
  <2> QED BY <2>1, KeptOrCleared
<1>3. CASE t = s
  <2>1. got'[s] = Append(got[s], Head(frames[s])) /\ frames'[s] = Tail(frames[s])
    BY <1>1 DEF Shape
  <2>2. got[s] \in Seq(Versions) /\ frames[s] \in Seq(Versions) /\ got[s] \o frames[s] \in Seq(Versions)
    BY SentType
  <2> DEFINE old == got[s] \o frames[s]
             new == got'[s] \o frames'[s]
  <2>3. new = old
    BY <1>1, <2>1, <2>2, ReadMoves
  <2> HIDE DEF old, new
  <2>4. Len(new) <= Len(old) /\ \A i \in 1..Len(new) : new[i] = old[i]
    <3>1. old \in Seq(Versions)
      BY <2>2 DEF old
    <3> QED BY <2>3, <3>1
  <2> QED BY <1>1, <1>3, <2>4 DEF SentKept, old, new
<1> QED BY <1>2, <1>3

LEMMA WorkerStays ==
    ASSUME Shape, OrderKept, NEW w \in Workers, WorkerInOrder(w), inbox'[w] = inbox[w],
           \A f, g \in fans'[w] : f = g,
           \A f \in fans'[w] : \E g \in fans[w] : f.msg = g.msg
    PROVE  WorkerInOrder(w)'
<1>1. inbox[w] \in Seq(Message) /\ \A g \in fans[w] : g.msg \in Message
  BY FanShape DEF Shape
<1>2. /\ BoxInOrder(published, inbox[w]) => BoxInOrder(published', inbox[w])
      /\ \A msg \in Message : BeforeBox(published, msg, inbox[w]) => BeforeBox(published', msg, inbox[w])
  BY <1>1, BoxKept DEF OrderKept
<1>3. ASSUME NEW f \in fans'[w] PROVE BeforeBox(published', f.msg, inbox[w])
  <2>1. PICK g \in fans[w] : f.msg = g.msg
    OBVIOUS
  <2> QED BY <1>1, <1>2, <2>1 DEF WorkerInOrder
<1> QED BY <1>2, <1>3 DEF WorkerInOrder

LEMMA SocketStays ==
    ASSUME Shape, Shape', Handshakes, SocketsAge, OrderKept, NEW s \in Sockets, SocketInOrder(s),
           SentKept(s),
           \A w \in Workers : \A f \in fans'[w] :
             s \in f.to => \E g \in fans[w] : s \in g.to /\ f.msg = g.msg,
           \A w \in Workers : \A k \in DOMAIN inbox'[w] :
             \E j \in DOMAIN inbox[w] : inbox'[w][k] = inbox[w][j]
    PROVE  SocketInOrder(s)'
<1>1. CASE ~Used(s)
  BY <1>1 DEF SocketInOrder, SentKept, SocketsAge
<1>2. CASE Used(s)
  <2> DEFINE m    == MarketOf(s)
             w    == sock[s].worker
             old  == got[s] \o frames[s]
             sent == got'[s] \o frames'[s]
             to   == {f.msg.version : f \in {g \in fans'[w] : s \in g.to}}
  <2>1. w \in Workers /\ m \in Markets
    BY <1>2, Constants DEF Handshakes, MarketOf
  <2>2. MarketOf(s)' = m /\ sock'[s].worker = w /\ Used(s)'
    BY <1>2 DEF SocketsAge, MarketOf
  <2>3. Stream(published[m], m, old, Coming(s), inbox[w])
    BY <1>2 DEF SocketInOrder, Sent
  <2>4. to \in SUBSET Coming(s)
    BY <2>1 DEF Coming
  <2>5. old \in Seq(Versions)
    BY SentType
  <2>6. sent \in Seq(Versions)
    <3>1. got'[s] \in Seq(Versions) /\ frames'[s] \in Seq(Versions)
      BY DEF Shape
    <3> QED BY <3>1, ConcatProperties
  <2>7. /\ Longer(published[m], published'[m])
        /\ \A k \in DOMAIN inbox'[w] : \E j \in DOMAIN inbox[w] : inbox'[w][k] = inbox[w][j]
    BY <2>1 DEF OrderKept
  <2>8. Len(sent) <= Len(old) /\ \A i \in 1..Len(sent) : sent[i] = old[i]
    BY DEF SentKept
  <2>9. Stream(published'[m], m, sent, to, inbox'[w])
    <3> HIDE DEF m, w, old, sent, to
    <3> QED BY <2>3, <2>4, <2>5, <2>6, <2>7, <2>8, StreamStays
  <2>10. Coming(s)' = to
    BY <2>2 DEF Coming
  <2> HIDE DEF to
  <2> QED BY <2>2, <2>9, <2>10 DEF SocketInOrder, Sent
<1> QED BY <1>1, <1>2

\* Messages and broadcasts stay; buffers stay or are lost.
LEMMA QuietStep ==
    ASSUME Shape, Shape', Handshakes, InOrder, SocketsAge, UNCHANGED <<published, inbox, fans, got>>,
           \A s \in Sockets : frames'[s] \in {frames[s], <<>>}
    PROVE  InOrder'
<1>1. OrderKept
  BY SameOrder
<1>2. ASSUME NEW w \in Workers PROVE WorkerInOrder(w)'
  BY <1>1, WorkerStays DEF InOrder, WorkerInOrder
<1>3. ASSUME NEW s \in Sockets PROVE SocketInOrder(s)'
  BY <1>1, KeptOrCleared, SocketStays DEF InOrder
<1> QED BY <1>2, <1>3 DEF InOrder

(* A published message comes after the others of its market.               *)
LEMMA PublishOrder ==
    ASSUME Shape, NEW p \in writers, Publish(p)
    PROVE  /\ OrderKept /\ p.market \in Markets /\ p.version \in Versions
           /\ Occurs(published'[p.market], p.version)
           /\ \A u : Occurs(published[p.market], u) => Before(published'[p.market], u, p.version)
<1> DEFINE m == p.market
           v == p.version
<1>1. m \in Markets /\ v \in Versions
  BY WritersShape
<1>2. published' = [published EXCEPT ![m] = Append(@, v)]
  BY DEF Publish, Deliver
<1>3. published[m] \in Seq(Versions) /\ \A n \in Markets : n # m => published'[n] = published[n]
  BY <1>1, <1>2 DEF Shape
<1>4. published'[m] = Append(published[m], v)
  BY <1>1, <1>2 DEF Shape
<1> DEFINE chan == published[m]
           long == published'[m]
<1>5. /\ DOMAIN chan \subseteq DOMAIN long /\ Len(chan) + 1 \in DOMAIN long
      /\ \A i \in DOMAIN chan : long[i] = chan[i] /\ i < Len(chan) + 1
      /\ long[Len(chan) + 1] = v
  BY <1>1, <1>3, <1>4
<1> HIDE DEF m, v, chan, long
<1>6. Longer(chan, long)
  BY <1>5 DEF Longer, Occurs, Before
<1>7. Occurs(long, v) /\ \A u : Occurs(chan, u) => Before(long, u, v)
  BY <1>5 DEF Occurs, Before
<1>8. \A n \in Markets : Longer(published[n], published'[n])
  BY <1>3, <1>6 DEF Longer, chan, long
<1> QED BY <1>1, <1>7, <1>8 DEF OrderKept, m, v, chan, long

LEMMA PublishInOrder ==
    ASSUME Shape, Shape', Handshakes, InOrder, NEW p \in writers, Publish(p)
    PROVE  InOrder'
<1> DEFINE msg == [market |-> p.market, version |-> p.version]
<1>1. /\ OrderKept /\ p.market \in Markets /\ p.version \in Versions
      /\ Occurs(published'[p.market], p.version)
      /\ \A u : Occurs(published[p.market], u) => Before(published'[p.market], u, p.version)
  BY PublishOrder
<1>2. /\ inbox' = [w \in Workers |-> IF subUp[w] THEN Append(inbox[w], msg) ELSE inbox[w]]
      /\ UNCHANGED <<fans, sock, frames, got>>
  BY DEF Publish, Deliver, manager, page
<1>3. msg \in Message /\ msg.market = p.market /\ msg.version = p.version
  BY <1>1 DEF Message
<1> HIDE DEF msg
<1>4. ASSUME NEW w \in Workers PROVE WorkerInOrder(w)'
  <2> DEFINE box == inbox[w]
  <2>1. /\ box \in Seq(Message)
        /\ \A k \in DOMAIN box : box[k].market \in Markets
        /\ \A f \in fans[w] : f.msg \in Message
    <3>1. box \in Seq(Message)
      BY DEF Shape
    <3>2. \A k \in DOMAIN box : box[k] \in Message
      BY <3>1
    <3> QED BY <3>1, <3>2, FanShape DEF Message
  <2>2. /\ BoxInOrder(published, box) /\ \A f, g \in fans[w] : f = g
        /\ \A f \in fans[w] : BeforeBox(published, f.msg, box)
    BY DEF InOrder, WorkerInOrder
  <2>3. BoxInOrder(published', box) /\ \A f \in fans[w] : BeforeBox(published', f.msg, box)
    <3> HIDE DEF box
    <3> QED BY <1>1, <2>1, <2>2, BoxKept DEF OrderKept
  <2>4. \A k \in DOMAIN box : box[k].market = msg.market
            => Before(published'[msg.market], box[k].version, msg.version)
    BY <1>1, <1>3, <2>2 DEF BoxInOrder
  <2>5. \A f \in fans[w] : f.msg.market = msg.market
            => Before(published'[msg.market], f.msg.version, msg.version)
    BY <1>1, <1>3, <2>2 DEF BeforeBox
  <2>6. inbox'[w] \in {box, Append(box, msg)}
    BY <1>2
  <2> HIDE DEF box
  <2>7. /\ BoxInOrder(published', Append(box, msg))
        /\ \A f \in fans[w] : BeforeBox(published', f.msg, Append(box, msg))
    BY <1>1, <1>3, <2>1, <2>3, <2>4, <2>5, BoxAppend
  <2>8. BoxInOrder(published', inbox'[w]) /\ \A f \in fans'[w] : BeforeBox(published', f.msg, inbox'[w])
    BY <1>2, <2>3, <2>6, <2>7
  <2> QED BY <1>2, <2>2, <2>8 DEF WorkerInOrder
<1>5. ASSUME NEW s \in Sockets PROVE SocketInOrder(s)'
  <2>1. CASE ~Used(s)
    BY <1>2, <2>1 DEF InOrder, SocketInOrder, Used
  <2>2. CASE Used(s)
    <3> DEFINE m == MarketOf(s)
               w == sock[s].worker
    <3>1. w \in Workers /\ m \in Markets
      BY <2>2, Constants DEF Handshakes, MarketOf
    <3>2. Stream(published[m], m, Sent(s), Coming(s), inbox[w])
      BY <2>2 DEF InOrder, SocketInOrder
    <3>3. MarketOf(s)' = m /\ sock'[s].worker = w /\ Sent(s)' = Sent(s) /\ Coming(s)' = Coming(s)
      BY <1>2 DEF MarketOf, Sent, Coming
    <3>4. inbox[w] \in Seq(Message) /\ inbox'[w] \in {inbox[w], Append(inbox[w], msg)}
      BY <1>2, <3>1 DEF Shape
    <3>5. /\ Longer(published[m], published'[m])
          /\ msg.market = m => \A u : Occurs(published[m], u) => Before(published'[m], u, msg.version)
      BY <1>1, <1>3, <3>1 DEF OrderKept
    <3> DEFINE box  == inbox[w]
               box2 == inbox'[w]
               chan == published[m]
               long == published'[m]
               q    == Sent(s)
               to   == Coming(s)
    <3>6. Stream(long, m, q, to, box2)
      <4> HIDE DEF m, w, box, box2, chan, long, q, to
      <4>1. Stream(chan, m, q, to, box)
        BY <3>2 DEF box, chan, q, to
      <4>2. box \in Seq(Message) /\ box2 \in {box, Append(box, msg)}
        BY <3>4 DEF box, box2
      <4>3. /\ Longer(chan, long)
            /\ msg.market = m => \A u : Occurs(chan, u) => Before(long, u, msg.version)
        BY <3>5 DEF chan, long
      <4>4. Stream(long, m, q, to, box) /\ Stream(long, m, q, to, Append(box, msg))
        BY <1>3, <4>1, <4>2, <4>3, StreamPublish
      <4> QED BY <4>2, <4>4
    <3> HIDE DEF m, w
    <3> QED BY <1>2, <2>2, <3>3, <3>6 DEF SocketInOrder, Used
  <2> QED BY <2>1, <2>2
<1> QED BY <1>4, <1>5 DEF InOrder

LEMMA TakeInOrder ==
    ASSUME Shape, Shape', Handshakes, InOrder, NEW w \in Workers, Take(w)
    PROVE  InOrder'
<1> DEFINE box == inbox[w]
           msg == Head(box)
           f   == [msg |-> msg, to |-> Bucket(w, msg.market), stale |-> {}]
<1>1. /\ box # <<>> /\ fans' = [fans EXCEPT ![w] = {f}] /\ inbox' = [inbox EXCEPT ![w] = Tail(box)]
      /\ UNCHANGED <<published, sock, frames, got>>
  BY DEF Take, page
<1>2. /\ fans'[w] = {f} /\ inbox'[w] = Tail(box)
      /\ \A v \in Workers : v # w => fans'[v] = fans[v] /\ inbox'[v] = inbox[v]
  BY <1>1 DEF Shape
<1>3. f.msg = msg /\ \A s \in f.to : MarketOf(s) = msg.market
  BY DEF Bucket
<1>4. box \in Seq(Message) /\ BoxInOrder(published, box)
  BY DEF Shape, InOrder, WorkerInOrder
<1>5. OrderKept /\ SocketsAge
  BY <1>1, SameOrder, UnchangedSocketsAge
<1> HIDE DEF f
<1>6. WorkerInOrder(w)'
  <2>1. BoxInOrder(published, Tail(box)) /\ BeforeBox(published, msg, Tail(box))
    BY <1>1, <1>4, BoxTail
  <2>2. \A g, h \in fans'[w] : g = h
    BY <1>2
  <2>3. \A g \in fans'[w] : BeforeBox(published, g.msg, Tail(box))
    BY <1>2, <1>3, <2>1
  <2> QED BY <1>1, <1>2, <2>1, <2>2, <2>3 DEF WorkerInOrder
<1>7. ASSUME NEW v \in Workers, v # w PROVE WorkerInOrder(v)'
  BY <1>2, <1>5, <1>7, WorkerStays DEF InOrder, WorkerInOrder
<1>8. ASSUME NEW s \in Sockets PROVE SocketInOrder(s)'
  <2>1. CASE ~Used(s)
    BY <1>1, <2>1 DEF InOrder, SocketInOrder, Used
  <2>2. CASE Used(s)
    <3> DEFINE m    == MarketOf(s)
               v    == sock[s].worker
               sent == Sent(s)
    <3>1. v \in Workers
      BY <2>2 DEF Handshakes
    <3>2. Stream(published[m], m, sent, Coming(s), inbox[v])
      BY <2>2 DEF InOrder, SocketInOrder
    <3>3. MarketOf(s)' = m /\ sock'[s].worker = v /\ Sent(s)' = sent
      BY <1>1 DEF MarketOf, Sent
    <3>4. Stream(published[m], m, sent, Coming(s)', inbox'[v])
      <4>1. CASE v = w
        <5>1. \A u \in Coming(s)' : msg.market = m /\ u = msg.version
          BY <1>2, <1>3, <3>3, <4>1 DEF Coming
        <5> DEFINE to == Coming(s)'
        <5> HIDE DEF m, to, sent
        <5>2. Stream(published[m], m, sent, to, Tail(box))
          BY <1>1, <1>4, <3>2, <4>1, <5>1, StreamTake DEF to
        <5> QED BY <1>2, <4>1, <5>2 DEF to
      <4>2. CASE v # w
        <5>1. Coming(s)' = Coming(s) /\ inbox'[v] = inbox[v]
          BY <1>2, <3>1, <3>3, <4>2 DEF Coming
        <5> QED BY <3>2, <5>1
      <4> QED BY <4>1, <4>2
    <3> HIDE DEF m, v, sent
    <3> QED BY <1>1, <2>2, <3>3, <3>4 DEF SocketInOrder, Used
  <2> QED BY <2>1, <2>2
<1> QED BY <1>6, <1>7, <1>8 DEF InOrder

LEMMA SendInOrder ==
    ASSUME Shape, Shape', Handshakes, Targets, InOrder,
           NEW w \in Workers, NEW f \in fans[w], NEW s \in Sockets, Send(w, f, s)
    PROVE  InOrder'
<1> DEFINE v == f.msg.version
<1>1. /\ s \in f.to /\ frames' = [frames EXCEPT ![s] = Append(@, v)]
      /\ UNCHANGED <<published, inbox, sock, got>>
  BY DEF Send, redis, page
<1>2. PICK g \in Fan :
        /\ g.msg = f.msg /\ g.to \subseteq f.to
        /\ Send(w, f, s) => s \notin g.to
        /\ fans'[w] = (fans[w] \ {f}) \cup {g}
        /\ \A u \in Workers : u # w => fans'[u] = fans[u]
  BY FanGoesOn
<1>3. fans'[w] = {g} /\ s \notin g.to
  <2>1. \A h \in fans[w] : h = f
    BY DEF InOrder, WorkerInOrder
  <2> QED BY <1>2, <2>1
<1>4. OrderKept /\ SocketsAge
  BY <1>1, SameOrder, UnchangedSocketsAge
<1>5. ASSUME NEW u \in Workers PROVE WorkerInOrder(u)'
  <2>1. CASE u = w
    BY <1>1, <1>2, <1>3, <1>4, <2>1, WorkerStays DEF InOrder
  <2>2. CASE u # w
    BY <1>1, <1>2, <1>4, <2>2, WorkerStays DEF InOrder, WorkerInOrder
  <2> QED BY <2>1, <2>2
<1>6. ASSUME NEW t \in Sockets, t # s PROVE SocketInOrder(t)'
  <2>1. frames'[t] = frames[t] /\ got'[t] = got[t]
    BY <1>1, <1>6 DEF Shape
  <2>2. SentKept(t)
    BY <2>1, KeptOrCleared
  <2>3. \A u \in Workers : \A h \in fans'[u] :
          t \in h.to => \E k \in fans[u] : t \in k.to /\ h.msg = k.msg
    BY <1>2, <1>3
  <2> QED BY <1>1, <1>4, <2>2, <2>3, SocketStays DEF InOrder
<1>7. SocketInOrder(s)'
  <2> DEFINE m    == MarketOf(s)
             q    == Sent(s)
             to   == Coming(s)
             box  == inbox[w]
             chan == published[m]
  <2>1. Used(s) /\ sock[s].worker = w /\ m = f.msg.market
    BY <1>1 DEF Targets
  <2>2. Stream(chan, m, q, to, box)
    BY <2>1 DEF InOrder, SocketInOrder
  <2>3. BeforeBox(published, f.msg, box)
    BY DEF InOrder, WorkerInOrder
  <2>4. v \in to
    BY <1>1, <2>1 DEF Coming
  <2>5. /\ got[s] \in Seq(Versions) /\ frames[s] \in Seq(Versions) /\ q \in Seq(Versions)
        /\ v \in Versions
    BY SentType, FanShape DEF Sent, Message
  <2>6. got'[s] \o frames'[s] = Append(q, v)
    <3>1. got'[s] = got[s] /\ frames'[s] = Append(frames[s], v)
      BY <1>1 DEF Shape
    <3>2. got[s] \o Append(frames[s], f.msg.version) = Append(got[s] \o frames[s], f.msg.version)
      BY ONLY <2>5, SendAdds
    <3> QED BY ONLY <3>1, <3>2 DEF Sent
  <2>7. Coming(s)' = {}
    BY <1>1, <1>3, <2>1 DEF Coming
  <2>8. Occurs(chan, v) /\ \A k \in DOMAIN box : box[k].market = m => Before(chan, v, box[k].version)
    BY <2>1, <2>3 DEF BeforeBox
  <2>9. MarketOf(s)' = m /\ sock'[s].worker = w /\ Used(s)'
    BY <1>1, <2>1 DEF MarketOf, Used
  <2> HIDE DEF m, q, to, box, chan, v
  <2>10. Stream(chan, m, Append(q, v), {}, box)
    BY <2>2, <2>4, <2>5, <2>8, StreamSend
  <2> QED BY <1>1, <2>6, <2>7, <2>9, <2>10 DEF SocketInOrder, Sent, chan, box
<1> QED BY <1>5, <1>6, <1>7 DEF InOrder

\* A broadcast goes on without a send, or ends.
LEMMA FanMovesInOrder ==
    ASSUME Shape, Shape', Handshakes, InOrder, NEW w \in Workers, NEW f \in fans[w],
           Finish(w, f) \/ \E s \in Sockets : SendFails(w, f, s) \/ Prune(w, f, s)
    PROVE  InOrder'
<1>1. UNCHANGED <<published, inbox, sock, got, frames>>
  BY DEF Finish, SendFails, Prune, redis, page
<1>2. \A h \in fans[w] : h = f
  BY DEF InOrder, WorkerInOrder
<1>3. /\ \A h, k \in fans'[w] : h = k
      /\ \A h \in fans'[w] : h.msg = f.msg /\ h.to \subseteq f.to
      /\ \A u \in Workers : u # w => fans'[u] = fans[u]
  <2>1. CASE Finish(w, f)
    <3>1. fans'[w] = fans[w] \ {f} /\ \A u \in Workers : u # w => fans'[u] = fans[u]
      BY <2>1 DEF Finish, Shape
    <3> QED BY <1>2, <3>1
  <2>2. ASSUME NEW s \in Sockets, SendFails(w, f, s) \/ Prune(w, f, s)
        PROVE  /\ \A h, k \in fans'[w] : h = k
               /\ \A h \in fans'[w] : h.msg = f.msg /\ h.to \subseteq f.to
               /\ \A u \in Workers : u # w => fans'[u] = fans[u]
    <3>1. PICK g \in Fan :
            /\ g.msg = f.msg /\ g.to \subseteq f.to
            /\ fans'[w] = (fans[w] \ {f}) \cup {g}
            /\ \A u \in Workers : u # w => fans'[u] = fans[u]
      BY <2>2, FanGoesOn
    <3>2. fans'[w] = {g}
      BY <1>2, <3>1
    <3> QED BY <3>1, <3>2
  <2> QED BY <2>1, <2>2
<1>4. OrderKept /\ SocketsAge
  BY <1>1, SameOrder, UnchangedSocketsAge
<1>5. ASSUME NEW u \in Workers PROVE WorkerInOrder(u)'
  <2>1. CASE u = w
    BY <1>1, <1>3, <1>4, <2>1, WorkerStays DEF InOrder
  <2>2. CASE u # w
    BY <1>1, <1>3, <1>4, <2>2, WorkerStays DEF InOrder, WorkerInOrder
  <2> QED BY <2>1, <2>2
<1>6. ASSUME NEW t \in Sockets PROVE SocketInOrder(t)'
  <2>1. SentKept(t)
    BY <1>1, KeptOrCleared
  <2>2. ASSUME NEW u \in Workers, NEW h \in fans'[u], t \in h.to
        PROVE  \E k \in fans[u] : t \in k.to /\ h.msg = k.msg
    BY <1>3, <2>2
  <2> QED BY <1>1, <1>4, <2>1, <2>2, SocketStays DEF InOrder
<1> QED BY <1>5, <1>6 DEF InOrder

LEMMA DropInOrder ==
    ASSUME Shape, Shape', Handshakes, InOrder, NEW w \in Workers, RedisDrops(w)
    PROVE  InOrder'
<1>1. PICK n \in 0..Len(inbox[w]) : inbox' = [inbox EXCEPT ![w] = SubSeq(@, 1, n)]
  BY DEF RedisDrops
<1>2. UNCHANGED <<published, fans, sock, got, frames>>
  BY DEF RedisDrops, manager, page
<1> DEFINE box == inbox[w]
           part == SubSeq(box, 1, n)
<1>3. inbox'[w] = part /\ \A v \in Workers : v # w => inbox'[v] = inbox[v]
  BY <1>1 DEF Shape
<1>4. box \in Seq(Message)
  BY DEF Shape
<1>5. /\ BoxInOrder(published, box) => BoxInOrder(published, part)
      /\ \A msg : BeforeBox(published, msg, box) => BeforeBox(published, msg, part)
      /\ \A k \in DOMAIN part : k \in DOMAIN box /\ part[k] = box[k]
  BY <1>4, BoxPrefix
<1>6. OrderKept /\ SocketsAge
  BY <1>2, SameOrder, UnchangedSocketsAge
<1> HIDE DEF part
<1>7. ASSUME NEW v \in Workers PROVE WorkerInOrder(v)'
  <2>1. CASE v = w
    BY <1>2, <1>3, <1>5, <2>1 DEF InOrder, WorkerInOrder
  <2>2. CASE v # w
    BY <1>2, <1>3, <1>6, <2>2, WorkerStays DEF InOrder, WorkerInOrder
  <2> QED BY <2>1, <2>2
<1>8. ASSUME NEW s \in Sockets PROVE SocketInOrder(s)'
  <2>1. SentKept(s)
    BY <1>2, KeptOrCleared
  <2>2. \A v \in Workers : \A k \in DOMAIN inbox'[v] : \E j \in DOMAIN inbox[v] : inbox'[v][k] = inbox[v][j]
    BY <1>3, <1>5
  <2> QED BY <1>2, <1>6, <2>1, <2>2, SocketStays DEF InOrder
<1> QED BY <1>7, <1>8 DEF InOrder

LEMMA RestartInOrder ==
    ASSUME Shape, Shape', Handshakes, InOrder, NEW w \in Workers, Restart(w)
    PROVE  InOrder'
<1>1. /\ inbox'[w] = <<>> /\ fans'[w] = {}
      /\ \A v \in Workers : v # w => inbox'[v] = inbox[v] /\ fans'[v] = fans[v]
  BY DEF Restart, Shape
<1>2. UNCHANGED <<published, got>> /\ \A s \in Sockets : frames'[s] \in {frames[s], <<>>}
  BY DEF Restart, page
<1>3. OrderKept /\ SocketsAge
  BY <1>2, SameOrder, RestartAges
<1>4. ASSUME NEW v \in Workers PROVE WorkerInOrder(v)'
  <2>1. CASE v = w
    BY <1>1, <2>1 DEF WorkerInOrder, BoxInOrder
  <2>2. CASE v # w
    BY <1>1, <1>3, <2>2, WorkerStays DEF InOrder, WorkerInOrder
  <2> QED BY <2>1, <2>2
<1>5. ASSUME NEW s \in Sockets PROVE SocketInOrder(s)'
  <2>1. SentKept(s)
    BY <1>2, KeptOrCleared
  <2>2. ASSUME NEW v \in Workers
        PROVE  /\ \A f \in fans'[v] : s \in f.to => \E g \in fans[v] : s \in g.to /\ f.msg = g.msg
               /\ \A k \in DOMAIN inbox'[v] : \E j \in DOMAIN inbox[v] : inbox'[v][k] = inbox[v][j]
    <3>1. CASE v = w
      BY <1>1, <3>1
    <3>2. CASE v # w
      BY <1>1, <3>2
    <3> QED BY <3>1, <3>2
  <2> QED BY <1>3, <2>1, <2>2, SocketStays DEF InOrder
<1> QED BY <1>4, <1>5 DEF InOrder

LEMMA HandshakeInOrder ==
    ASSUME Shape, Shape', Handshakes, Targets, InOrder,
           NEW c \in Clients, NEW s \in Sockets, NEW w \in Workers,
           Connect(c, s, w) \/ Rejected(c, s, w)
    PROVE  InOrder'
<1>1. UNCHANGED <<published, inbox, fans, got, frames>>
  BY DEF Connect, Rejected, redis, manager
<1>2. ~Used(s) /\ \A t \in Sockets : t # s => sock'[t] = sock[t]
  BY HandshakeTakes
<1>3. ASSUME NEW v \in Workers PROVE WorkerInOrder(v)'
  BY <1>1 DEF InOrder, WorkerInOrder
<1>4. ASSUME NEW t \in Sockets, t # s PROVE SocketInOrder(t)'
  <2>1. /\ MarketOf(t)' = MarketOf(t) /\ sock'[t].worker = sock[t].worker
        /\ (Used(t)' <=> Used(t)) /\ Sent(t)' = Sent(t) /\ Coming(t)' = Coming(t)
    BY <1>1, <1>2, <1>4 DEF MarketOf, Used, Sent, Coming
  <2> QED BY <1>1, <2>1 DEF InOrder, SocketInOrder
<1>5. SocketInOrder(s)'
  <2>1. got'[s] = <<>> /\ frames'[s] = <<>>
    BY <1>1, <1>2 DEF InOrder, SocketInOrder
  <2>2. Sent(s)' = <<>>
    BY <2>1 DEF Sent
  <2>3. Coming(s)' = {}
    <3>1. sock'[s].worker = w
      BY HandshakeTakes
    <3>2. \A f \in fans[w] : s \notin f.to
      BY <1>2 DEF Targets
    <3> QED BY <1>1, <3>1, <3>2 DEF Coming
  <2>4. \A chan, m, box : Stream(chan, m, <<>>, {}, box)
    BY DEF Stream, Ordered, AllBefore
  <2> QED BY <2>1, <2>2, <2>3, <2>4 DEF SocketInOrder
<1> QED BY <1>3, <1>4, <1>5 DEF InOrder

LEMMA ReceiveInOrder ==
    ASSUME Shape, Shape', Handshakes, InOrder, NEW c \in Clients, NEW s \in Sockets, Receive(c, s)
    PROVE  InOrder'
<1>1. UNCHANGED <<published, inbox, fans, sock>>
  BY DEF Receive, redis, manager
<1>2. OrderKept /\ SocketsAge
  BY <1>1, SameOrder, UnchangedSocketsAge
<1>3. ASSUME NEW w \in Workers PROVE WorkerInOrder(w)'
  BY <1>1 DEF InOrder, WorkerInOrder
<1>4. ASSUME NEW t \in Sockets PROVE SocketInOrder(t)'
  <2>1. SentKept(t)
    BY ReceiveKeeps
  <2> QED BY <1>1, <1>2, <2>1, SocketStays DEF InOrder
<1> QED BY <1>3, <1>4 DEF InOrder

LEMMA InitInOrder == Init => InOrder
<1> SUFFICES ASSUME Init PROVE InOrder
  OBVIOUS
<1>1. ASSUME NEW w \in Workers PROVE WorkerInOrder(w)
  BY DEF Init, WorkerInOrder, BoxInOrder
<1>2. ASSUME NEW s \in Sockets PROVE SocketInOrder(s)
  BY DEF Init, SocketInOrder, Used
<1> QED BY <1>1, <1>2 DEF InOrder

LEMMA NextInOrder ==
    ASSUME Shape, Shape', Handshakes, Targets, InOrder, [Next]_vars
    PROVE  InOrder'
<1>1. ASSUME UNCHANGED <<published, inbox, fans, got, sock, frames>> PROVE InOrder'
  BY <1>1, QuietStep, UnchangedSocketsAge
<1>2. ASSUME NEW m \in Markets, Edit(m) PROVE InOrder'
  BY <1>1, <1>2 DEF Edit, redis, manager, page
<1>3. ASSUME NEW p \in writers, Commit(p) \/ GiveUp(p) PROVE InOrder'
  BY <1>1, <1>3 DEF Commit, GiveUp, redis, manager, page
<1>4. ASSUME NEW p \in writers, Publish(p) PROVE InOrder'
  BY <1>4, PublishInOrder
<1>5. ASSUME NEW w \in Workers, FanOut(w) PROVE InOrder'
  BY <1>5, TakeInOrder, FanMovesInOrder, SendInOrder DEF FanOut
<1>6. ASSUME NEW w \in Workers, Resubscribe(w) PROVE InOrder'
  BY <1>1, <1>6 DEF Resubscribe, manager, page
<1>7. ASSUME NEW s \in Sockets, HandlerEnds(s) PROVE InOrder'
  <2>1. UNCHANGED <<published, inbox, fans, got, frames>>
    BY <1>7 DEF HandlerEnds, redis, page
  <2> QED BY <1>7, <2>1, HandlerEndsAges, QuietStep
<1>8. ASSUME NEW s \in Sockets, SocketCloses(s) \/ KeepAliveFails(s) PROVE InOrder'
  <2>1. /\ UNCHANGED <<published, inbox, fans, got>>
        /\ frames' = [frames EXCEPT ![s] = <<>>]
    BY <1>8 DEF SocketCloses, KeepAliveFails, Close, redis, manager, page
  <2>2. \A t \in Sockets : frames'[t] \in {frames[t], <<>>}
    BY <2>1 DEF Shape
  <2> QED BY <1>8, <2>1, <2>2, CloseAges, QuietStep
<1>9. ASSUME NEW s \in Sockets, SocketHangs(s) PROVE InOrder'
  <2>1. UNCHANGED <<published, inbox, fans, got, frames>>
    BY <1>9 DEF SocketHangs, redis, manager, page
  <2> QED BY <1>9, <2>1, HangAges, QuietStep
<1>10. ASSUME NEW w \in Workers, RedisDrops(w) \/ Restart(w) PROVE InOrder'
  BY <1>10, DropInOrder, RestartInOrder
<1>11. ASSUME NEW c \in Clients, Load(c) PROVE InOrder'
  BY <1>1, <1>11 DEF Load, redis, manager
<1>12. ASSUME NEW c \in Clients, NEW s \in Sockets, Closed(c, s) PROVE InOrder'
  BY <1>1, <1>12 DEF Closed, redis, manager
<1>13. ASSUME NEW c \in Clients, NEW s \in Sockets, Receive(c, s) PROVE InOrder'
  BY <1>13, ReceiveInOrder
<1>14. ASSUME NEW c \in Clients, NEW s \in Sockets, NEW w \in Workers,
              Connect(c, s, w) \/ Rejected(c, s, w)
       PROVE  InOrder'
  BY <1>14, HandshakeInOrder
<1>15. CASE UNCHANGED vars
  BY <1>1, <1>15 DEF vars, redis, manager, page
<1> QED
  BY <1>2, <1>3, <1>4, <1>5, <1>6, <1>7, <1>8, <1>9, <1>10, <1>11, <1>12, <1>13, <1>14, <1>15
  DEF Next, Write, Browse, Fault

-----------------------------------------------------------------------------
(* What the page shows                                                     *)

\* A frame that a socket of the page holds is a version its market has had.
LEMMA FramesAreCommitted ==
    ASSUME Shape, Numbered, InOrder, NEW s \in Sockets, Used(s), MarketOf(s) \in Markets,
           frames[s] # <<>>
    PROVE  Head(frames[s]) \in committed[MarketOf(s)]
<1> DEFINE m == MarketOf(s)
<1>1. got[s] \in Seq(Versions) /\ frames[s] \in Seq(Versions) /\ Sent(s) \in Seq(Versions)
  BY SentType DEF Sent
<1>2. Head(frames[s]) = Sent(s)[Len(got[s]) + 1] /\ Len(got[s]) + 1 \in DOMAIN Sent(s)
  <2> DEFINE read == got[s]
             rest == frames[s]
  <2>1. read \in Seq(Versions) /\ rest \in Seq(Versions) /\ rest # <<>>
    BY <1>1
  <2> HIDE DEF read, rest
  <2>2. Len(rest) \in Nat \ {0} /\ Len(read) \in Nat /\ Head(rest) = rest[1]
    BY <2>1, EmptySeq, LenProperties, HeadTailProperties
  <2>3. /\ Len(read \o rest) = Len(read) + Len(rest) /\ DOMAIN (read \o rest) = 1..Len(read \o rest)
        /\ (read \o rest)[Len(read) + 1] = rest[1]
    BY <2>1, <2>2, ConcatProperties
  <2>4. Head(rest) = (read \o rest)[Len(read) + 1] /\ Len(read) + 1 \in DOMAIN (read \o rest)
    BY <2>2, <2>3
  <2> QED BY <2>4, Zenon DEF Sent, read, rest
<1>3. Occurs(published[m], Head(frames[s]))
  BY <1>2 DEF InOrder, SocketInOrder, Stream, Ordered
<1> QED BY <1>3 DEF Occurs, Numbered

LEMMA InitShown == Init => ShownWasCommitted
BY DEF Init, ShownWasCommitted

LEMMA NextShown ==
    ASSUME Shape, Numbered, Handshakes, InOrder, ShownWasCommitted, [Next]_vars
    PROVE  ShownWasCommitted'
<1>1. \A m \in Markets : committed[m] \subseteq committed'[m]
  BY CommittedGrows
<1>2. ASSUME UNCHANGED shown PROVE ShownWasCommitted'
  BY <1>1, <1>2, Constants DEF ShownWasCommitted
<1>3. ASSUME NEW c \in Clients, Load(c) PROVE ShownWasCommitted'
  <2>1. /\ shown'[c] = odds[Watches[c]] /\ \A d \in Clients : d # c => shown'[d] = shown[d]
        /\ UNCHANGED committed
    BY <1>3 DEF Load, Shape, db
  <2>2. odds[Watches[c]] \in committed[Watches[c]]
    BY Constants DEF Numbered
  <2> QED BY <2>1, <2>2 DEF ShownWasCommitted
<1>4. ASSUME NEW c \in Clients, NEW s \in Sockets, Receive(c, s) PROVE ShownWasCommitted'
  <2>1. /\ shown'[c] = Head(frames[s]) /\ \A d \in Clients : d # c => shown'[d] = shown[d]
        /\ UNCHANGED committed
    BY <1>4 DEF Receive, Shape, db
  <2>2. Used(s) /\ sock[s].client = c
    BY <1>4, Constants DEF Receive, Handshakes
  <2>3. MarketOf(s) = Watches[c] /\ MarketOf(s) \in Markets
    BY <2>2, Constants DEF MarketOf
  <2>4. Head(frames[s]) \in committed[Watches[c]]
    BY <1>4, <2>2, <2>3, FramesAreCommitted DEF Receive
  <2> QED BY <2>1, <2>4 DEF ShownWasCommitted
<1>5. CASE \E c \in Clients : Load(c) \/ \E s \in Sockets : Receive(c, s)
  BY <1>3, <1>4, <1>5
<1>6. CASE Next /\ ~\E c \in Clients : Load(c) \/ \E s \in Sockets : Receive(c, s)
  <2>1. Write => UNCHANGED page
    BY DEF Write, Edit, Commit, Publish, GiveUp
  <2>2. ASSUME NEW w \in Workers, FanOut(w) \/ Resubscribe(w) PROVE UNCHANGED page
    BY <2>2 DEF FanOut, Take, Finish, Send, SendFails, Prune, Resubscribe
  <2>3. ASSUME NEW s \in Sockets, HandlerEnds(s) \/ KeepAliveFails(s) PROVE UNCHANGED page
    BY <2>3 DEF HandlerEnds, KeepAliveFails, Close
  <2>4. ASSUME NEW c \in Clients, Browse(c) PROVE UNCHANGED shown
    BY <1>6, <2>4 DEF Browse, Closed, Connect, Rejected
  <2>5. Fault => UNCHANGED page
    BY DEF Fault, RedisDrops, Restart, SocketCloses, SocketHangs, Close
  <2>6. UNCHANGED shown
    BY <1>6, <2>1, <2>2, <2>3, <2>4, <2>5 DEF Next, page
  <2> QED BY <1>2, <2>6
<1>7. CASE UNCHANGED vars
  BY <1>2, <1>7 DEF vars, page
<1> QED BY <1>5, <1>6, <1>7

-----------------------------------------------------------------------------
(* The theorems                                                            *)

(* The whole of what the live odds keep: versions committed before they    *)
(* are published (update_market), broadcasts to registered sockets         *)
(* (ConnectionManager), and every queue on the way in the channel's order. *)
THEOREM OddsInvariant == Spec => []IInv
<1>1. Init => IInv
  BY InitShape, InitNumbered, InitHandshakes, InitTargets, InitRegistered, InitInOrder, InitShown
  DEF IInv
<1>2. IInv /\ [Next]_vars => IInv'
  <2> SUFFICES ASSUME Shape, Numbered, Handshakes, Targets, Registered, InOrder, ShownWasCommitted,
                      [Next]_vars
               PROVE  IInv'
    BY DEF IInv
  <2>1. Shape' /\ Numbered'
    BY NextShape, NextNumbered
  <2>2. Handshakes' /\ Targets' /\ Registered'
    BY NextHandshakes, NextTargets, NextRegistered
  <2>3. InOrder'
    BY <2>1, NextInOrder
  <2>4. ShownWasCommitted'
    BY NextShown
  <2> QED BY <2>1, <2>2, <2>3, <2>4 DEF IInv
<1> QED BY <1>1, <1>2, PTL DEF Spec

(* No page ever renders a price that was rolled back: update_market        *)
(* publishes after its commit, and no later step makes up a version.       *)
THEOREM ShownIsCommitted == Spec => []ShownWasCommitted
<1>1. IInv => ShownWasCommitted
  BY DEF IInv
<1> QED BY <1>1, OddsInvariant, PTL

(* connect, disconnect and the prune of broadcast keep _total equal to the *)
(* sockets of _connections, within both ceilings, and no open socket is    *)
(* lost from the registry.                                                 *)
THEOREM RegistriesCount == Spec => []RegistryCounts
<1>1. IInv => RegistryCounts
  BY DEF IInv, Registered, RegistryCounts, IsOpen
<1> QED BY <1>1, OddsInvariant, PTL

LEMMA PositionsAreUnique ==
    ASSUME Numbered, NEW m \in Markets, NEW i \in DOMAIN published[m]
    PROVE  Position(m, published[m][i]) = i
BY DEF Numbered, Position

(* A socket gets the frames of its market in the order in which they were  *)
(* published, each at most once: redis_subscriber awaits each broadcast.   *)
THEOREM FramesKeepOrder == Spec => []FramesInOrder
<1>1. IInv => FramesInOrder
  <2> SUFFICES ASSUME IInv, NEW s \in Sockets,
                      NEW i \in DOMAIN (got[s] \o frames[s]), NEW j \in DOMAIN (got[s] \o frames[s]),
                      i < j
               PROVE  Position(MarketOf(s), (got[s] \o frames[s])[i])
                        < Position(MarketOf(s), (got[s] \o frames[s])[j])
    BY DEF FramesInOrder
  <2> DEFINE all == got[s] \o frames[s]
             m   == MarketOf(s)
  <2>1. CASE ~Used(s)
    <3>1. got[s] = <<>> /\ frames[s] = <<>>
      BY <2>1 DEF IInv, InOrder, SocketInOrder
    <3> QED BY <3>1
  <2>2. CASE Used(s)
    <3>1. m \in Markets
      BY <2>2, Constants DEF IInv, Handshakes, MarketOf
    <3>2. Before(published[m], all[i], all[j])
      BY <2>2 DEF IInv, InOrder, SocketInOrder, Stream, Ordered, Sent
    <3>3. PICK a, b \in DOMAIN published[m] :
            a < b /\ published[m][a] = all[i] /\ published[m][b] = all[j]
      BY <3>2 DEF Before
    <3>4. Position(m, all[i]) = a /\ Position(m, all[j]) = b
      BY <3>1, <3>3, PositionsAreUnique DEF IInv
    <3> QED BY <3>3, <3>4
  <2> QED BY <2>1, <2>2
<1> QED BY <1>1, OddsInvariant, PTL

-----------------------------------------------------------------------------
(* The lengths of the queues: no version is in a queue twice.              *)

LEMMA InjectiveIsShort ==
    ASSUME NEW l \in Nat, NEW n \in Nat, NEW f \in [1..l -> 1..n],
           \A i, j \in 1..l : i < j => f[i] # f[j]
    PROVE  l <= n
<1>1. f \in Injection(1..l, 1..n)
  BY DEF Injection, IsInjective
<1>2. /\ IsFiniteSet(1..l) /\ Cardinality(1..l) = l
      /\ IsFiniteSet(1..n) /\ Cardinality(1..n) = n
  BY FS_Interval
<1> QED BY <1>1, <1>2, FS_Injection

LEMMA ShortIsBounded ==
    ASSUME NEW S, NEW q \in Seq(S), NEW n \in Nat, Len(q) <= n
    PROVE  q \in BoundedSeq(S, n)
<1>1. q \in [1..Len(q) -> S] /\ Len(q) \in 0..n
  OBVIOUS
<1> QED BY <1>1 DEF BoundedSeq, SeqOf

\* What occurs in a channel is a version handed out, in one place of one channel.
LEMMA OccursOnce ==
    ASSUME Shape, Numbered, NEW m \in Markets
    PROVE  /\ \A v : Occurs(published[m], v) => v \in 1..edits
           /\ \A u, v : Before(published[m], u, v) => u # v
           /\ \A n \in Markets : \A v : Occurs(published[m], v) /\ Occurs(published[n], v) => m = n
<1>1. ASSUME NEW u, NEW v, Before(published[m], u, v) PROVE u # v
  <2>1. PICK i, j \in DOMAIN published[m] : i < j /\ published[m][i] = u /\ published[m][j] = v
    BY <1>1 DEF Before
  <2>2. DOMAIN published[m] = 1..Len(published[m])
    BY DEF Shape
  <2>3. i # j
    BY <2>1, <2>2
  <2> QED BY <2>1, <2>3 DEF Numbered
<1> QED BY <1>1 DEF Occurs, Numbered

LEMMA OrderedIsShort ==
    ASSUME Shape, Numbered, NEW m \in Markets, NEW q \in Seq(Versions), Ordered(published[m], q)
    PROVE  Len(q) <= MaxEdits
<1> DEFINE l == Len(q)
           f == [i \in 1..l |-> q[i]]
<1>1. l \in Nat /\ DOMAIN q = 1..l /\ edits \in Nat /\ edits <= MaxEdits /\ MaxEdits \in Nat
  BY Constants DEF Shape, Versions
<1>2. f \in [1..l -> 1..edits]
  BY <1>1, OccursOnce DEF Ordered
<1>3. \A i, j \in 1..l : i < j => f[i] # f[j]
  BY <1>1, OccursOnce DEF Ordered
<1> HIDE DEF f, l
<1>4. l <= edits
  BY <1>1, <1>2, <1>3, InjectiveIsShort
<1> QED BY <1>1, <1>4 DEF l

LEMMA BoxIsShort ==
    ASSUME Shape, Numbered, NEW box \in Seq(Message), BoxInOrder(published, box)
    PROVE  Len(box) <= MaxEdits
<1> DEFINE l == Len(box)
           f == [k \in 1..l |-> box[k].version]
<1>1. l \in Nat /\ DOMAIN box = 1..l /\ edits \in Nat /\ edits <= MaxEdits /\ MaxEdits \in Nat
  BY Constants DEF Shape, Versions
<1>2. \A k \in 1..l : box[k].market \in Markets /\ Occurs(published[box[k].market], box[k].version)
  <2>1. \A k \in 1..l : box[k] \in Message
    BY <1>1
  <2> QED BY <1>1, <2>1 DEF BoxInOrder, Message
<1>3. f \in [1..l -> 1..edits]
  BY <1>2, OccursOnce
<1>4. ASSUME NEW i \in 1..l, NEW j \in 1..l, i < j PROVE f[i] # f[j]
  <2>1. CASE box[i].market = box[j].market
    <3>1. Before(published[box[j].market], box[i].version, box[j].version)
      BY <1>1, <1>4, <2>1 DEF BoxInOrder
    <3> QED BY <1>2, <3>1, OccursOnce
  <2>2. CASE box[i].market # box[j].market
    BY <1>2, <2>2, OccursOnce
  <2> QED BY <2>1, <2>2
<1> HIDE DEF f, l
<1>5. l <= edits
  BY <1>1, <1>3, <1>4, InjectiveIsShort
<1> QED BY <1>1, <1>5 DEF l

(* The state keeps its shape, whatever faults and however many edits: no   *)
(* channel, subscriber queue or socket carries a version twice, and no     *)
(* socket buffers more frames than send_json lets it.                      *)
THEOREM OddsTypes == Spec => []TypeOK
<1>1. IInv => TypeOK
  <2> SUFFICES ASSUME IInv PROVE TypeOK
    OBVIOUS
  <2>1. ASSUME NEW m \in Markets PROVE published[m] \in BoundedSeq(Versions, MaxEdits)
    <3>1. published[m] \in Seq(Versions)
      BY DEF IInv, Shape
    <3>2. Ordered(published[m], published[m])
      BY DEF Ordered, Occurs, Before
    <3> QED BY <3>1, <3>2, OrderedIsShort, ShortIsBounded, Constants DEF IInv
  <2>2. ASSUME NEW w \in Workers PROVE inbox[w] \in BoundedSeq(Message, MaxEdits)
    <3>1. inbox[w] \in Seq(Message)
      BY DEF IInv, Shape
    <3>2. BoxInOrder(published, inbox[w])
      BY DEF IInv, InOrder, WorkerInOrder
    <3> QED BY <3>1, <3>2, BoxIsShort, ShortIsBounded, Constants DEF IInv
  <2>3. ASSUME NEW s \in Sockets PROVE got[s] \in BoundedSeq(Versions, MaxEdits)
    <3>1. /\ got[s] \in Seq(Versions) /\ frames[s] \in Seq(Versions) /\ Sent(s) \in Seq(Versions)
          /\ Len(Sent(s)) = Len(got[s]) + Len(frames[s])
      BY SentType, ConcatProperties DEF IInv, Sent
    <3>2. Len(got[s]) <= MaxEdits
      <4>1. CASE ~Used(s)
        <5>1. got[s] = <<>>
          BY <4>1 DEF IInv, InOrder, SocketInOrder
        <5> QED BY <5>1, Constants
      <4>2. CASE Used(s)
        <5>1. MarketOf(s) \in Markets
          BY <4>2, Constants DEF IInv, Handshakes, MarketOf
        <5>2. Ordered(published[MarketOf(s)], Sent(s))
          BY <4>2 DEF IInv, InOrder, SocketInOrder, Stream
        <5>3. Len(Sent(s)) <= MaxEdits
          BY <3>1, <5>1, <5>2, OrderedIsShort DEF IInv
        <5>4. Len(got[s]) \in Nat /\ Len(frames[s]) \in Nat
          BY <3>1
        <5>5. \A a, b \in Nat : a + b <= MaxEdits => a <= MaxEdits
          BY Constants
        <5> QED BY <3>1, <5>3, <5>4, <5>5, Zenon
      <4> QED BY <4>1, <4>2
    <3> QED BY <3>1, <3>2, ShortIsBounded, Constants
  <2>4. total \in [Workers -> 0..MaxTotal]
    <3>1. total \in [Workers -> Nat] /\ \A w \in Workers : total[w] <= MaxTotal
      BY DEF IInv, Shape, Registered
    <3> QED BY <3>1, Constants
  <2>5. /\ published \in [Markets -> BoundedSeq(Versions, MaxEdits)]
        /\ inbox \in [Workers -> BoundedSeq(Message, MaxEdits)]
        /\ got \in [Sockets -> BoundedSeq(Versions, MaxEdits)]
    <3>1. /\ published = [m \in Markets |-> published[m]] /\ inbox = [w \in Workers |-> inbox[w]]
          /\ got = [s \in Sockets |-> got[s]]
      BY DEF IInv, Shape
    <3> QED BY <2>1, <2>2, <2>3, <3>1
  <2>6. \A w \in Workers : fans[w] \subseteq Fan
    BY DEF IInv, Shape
  <2> QED BY <2>4, <2>5, <2>6 DEF IInv, Shape, TypeOK, Message
<1> QED BY <1>1, OddsInvariant, PTL
=============================================================================
