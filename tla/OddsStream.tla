----------------------------- MODULE OddsStream -----------------------------
(* The live odds of src/backend/app/realtime: an odds edit is committed and   *)
(* then published on the Redis channel of its market; one subscriber per      *)
(* worker process takes the messages in order and fans each one out to the    *)
(* sockets its ConnectionManager has registered for the market; the page      *)
(* shows the odds it was loaded with until a frame replaces them.             *)
(*                                                                            *)
(* An odds value is a version number, fresh with each edit; 0 is the odds     *)
(* the market was created with.  A socket is used once: a page that           *)
(* reconnects takes a new one.  The lock of the manager makes connect,        *)
(* disconnect and the snapshot of broadcast single steps; the sends, made     *)
(* outside it, are steps of their own.                                        *)
EXTENDS Naturals, FiniteSets, Sequences, SequencesExt

CONSTANTS Workers,       \* uvicorn worker processes
          Markets,
          Clients,       \* open pages
          None,
          Watches,       \* [Clients -> Markets]: the market of the page
          MaxTotal,      \* MAX_TOTAL_CONNECTIONS
          MaxPerMarket,  \* MAX_PER_MARKET
          MaxFrames,     \* frames a socket buffers before a send waits
          MaxEdits,      \* bound: odds edits
          MaxWriters,    \* bound: edits at a time
          MaxSockets,    \* bound: handshakes
          MaxCloses,     \* bound: sockets that have failed before another does
          MaxFaults      \* bound: Redis drops and restarts of a worker

ASSUME WatchesAssumption == Watches \in [Clients -> Markets]
ASSUME BoundsAssumption  == {MaxTotal, MaxPerMarket, MaxFrames, MaxEdits, MaxWriters,
                             MaxSockets, MaxCloses, MaxFaults} \subseteq Nat
ASSUME NoneAssumption    == None \notin Clients \cup Workers \cup Nat

VARIABLES odds,       \* the committed version of each market
          edits,      \* versions handed out so far
          committed,  \* the versions each market has had
          writers,    \* the edits under way: requests of the admin, runs of the poll
          published,  \* the publications of each market, in the channel's order
          inbox,      \* messages Redis has pushed to a worker's subscriber
          subUp,      \* is the worker's psubscribe connection up?
          faults,     \* Redis drops and restarts so far
          fans,       \* the broadcasts a worker is in the middle of
          sock,       \* each socket: its client, its worker and its state
          registry,   \* ConnectionManager._connections, as a set of sockets
          total,      \* ConnectionManager._total
          frames,     \* frames sent on a socket that its client has not read
          got,        \* history: the versions a socket has handed to its client
          due,        \* history: the <<socket, version>> still to be handed over
          current,    \* useMarketSocket's wsRef.current
          shown       \* the odds on the page

db      == <<odds, edits, committed, writers>>
redis   == <<published, inbox, subUp, faults>>
manager == <<fans, registry, total>>
page    == <<got, current, shown>>
vars    == <<db, redis, manager, sock, frames, page, due>>

Versions == 0..MaxEdits
Sockets  == 1..MaxSockets
Unused   == [state |-> "unused", client |-> None, worker |-> None]

MarketOf(s) == Watches[sock[s].client]
IsOpen(s)   == sock[s].state = "open"

Init ==
  /\ odds      = [m \in Markets |-> 0]
  /\ edits     = 0
  /\ committed = [m \in Markets |-> {0}]
  /\ writers   = {}
  /\ published = [m \in Markets |-> <<>>]
  /\ inbox     = [w \in Workers |-> <<>>]
  /\ subUp     = [w \in Workers |-> TRUE]
  /\ faults    = 0
  /\ fans      = [w \in Workers |-> {}]
  /\ sock      = [s \in Sockets |-> Unused]
  /\ registry  = [w \in Workers |-> {}]
  /\ total     = [w \in Workers |-> 0]
  /\ frames    = [s \in Sockets |-> <<>>]
  /\ got       = [s \in Sockets |-> <<>>]
  /\ due       = {}
  /\ current   = [c \in Clients |-> None]
  /\ shown     = [c \in Clients |-> None]

-----------------------------------------------------------------------------
(* Writers: update_market of the admin router, and the poll per market. *)

(* The flush of the new odds takes the row locks of the outcomes, so that one *)
(* transaction at a time holds new odds of a market.                          *)
Edit(m) ==
  /\ edits < MaxEdits /\ Cardinality(writers) < MaxWriters
  /\ \A q \in writers : ~(q.at = "flushed" /\ q.market = m)
  /\ edits' = edits + 1
  /\ writers' = writers \cup {[at |-> "flushed", market |-> m, version |-> edits']}
  /\ UNCHANGED <<odds, committed, redis, manager, sock, frames, page, due>>

Commit(p) ==
  /\ p.at = "flushed"
  /\ odds'      = [odds EXCEPT ![p.market] = p.version]
  /\ committed' = [committed EXCEPT ![p.market] = @ \cup {p.version}]
  /\ writers'   = (writers \ {p}) \cup {[p EXCEPT !.at = "committed"]}
  /\ UNCHANGED <<edits, redis, manager, sock, frames, page, due>>

(* PUBLISH: Redis pushes the message to every connection that is subscribed   *)
(* at that moment, and keeps nothing.  The message is now due on the open     *)
(* sockets that those workers have registered for the market.                 *)
Deliver(m, v) ==
  /\ published' = [published EXCEPT ![m] = Append(@, v)]
  /\ inbox' = [w \in Workers |-> IF subUp[w] THEN Append(inbox[w], [market |-> m, version |-> v])
                                             ELSE inbox[w]]
  /\ due' = due \cup {<<s, v>> : s \in {t \in Sockets : /\ IsOpen(t) /\ MarketOf(t) = m
                                                       /\ subUp[sock[t].worker]}}

PublishInside(p) ==     \* mutant: published in the transaction, which may yet roll back
  /\ Deliver(p.market, p.version)
  /\ writers' = writers \ {p}
  /\ UNCHANGED <<odds, edits, committed, subUp, faults, manager, sock, frames, page>>

Publish(p) ==
  /\ p.at = "committed"
  /\ Deliver(p.market, p.version)
  /\ writers' = writers \ {p}
  /\ UNCHANGED <<odds, edits, committed, subUp, faults, manager, sock, frames, page>>

(* The transaction rolls back, or the process dies in it; or the publication  *)
(* fails, which is logged and swallowed, or the process dies before it.       *)
GiveUp(p) ==
  /\ writers' = writers \ {p}
  /\ UNCHANGED <<odds, edits, committed, redis, manager, sock, frames, page, due>>

-----------------------------------------------------------------------------
(* The ConnectionManager of a worker. *)

Bucket(w, m) == {s \in registry[w] : MarketOf(s) = m}
Fresh(s)     == s = 1 + Cardinality({t \in Sockets : sock[t] # Unused})   \* numbered in order

(* ConnectionManager.disconnect: nothing happens to a socket that is not      *)
(* registered any more.                                                       *)
DisconnectUnchecked(w, s) ==     \* mutant: the count goes down whoever comes
  /\ registry' = [registry EXCEPT ![w] = @ \ {s}]
  /\ total'    = [total EXCEPT ![w] = IF @ = 0 THEN 0 ELSE @ - 1]

disconnect(w, s) ==
  /\ registry' = [registry EXCEPT ![w] = @ \ {s}]
  /\ total'    = [total EXCEPT ![w] = IF s \in registry[w] THEN @ - 1 ELSE @]

(* One turn of `async for message in pubsub.listen()`: the broadcast of the   *)
(* message before has ended, and this one snapshots its targets.              *)
TakeConcurrently(w) ==     \* mutant: a task per broadcast, not awaited
  /\ inbox[w] # <<>>
  /\ fans' = [fans EXCEPT ![w] = @ \cup {[msg   |-> Head(inbox[w]),
                                          to    |-> Bucket(w, Head(inbox[w]).market),
                                          stale |-> {}]}]
  /\ inbox' = [inbox EXCEPT ![w] = Tail(@)]
  /\ UNCHANGED <<db, published, subUp, faults, registry, total, sock, frames, page, due>>

Take(w) ==
  /\ fans[w] = {}
  /\ inbox[w] # <<>>
  /\ fans' = [fans EXCEPT ![w] = {[msg   |-> Head(inbox[w]),
                                   to    |-> Bucket(w, Head(inbox[w]).market),
                                   stale |-> {}]}]
  /\ inbox' = [inbox EXCEPT ![w] = Tail(@)]
  /\ UNCHANGED <<db, published, subUp, faults, registry, total, sock, frames, page, due>>

Step(w, f, g) == fans' = [fans EXCEPT ![w] = (@ \ {f}) \cup {g}]

(* send_json, awaited: it waits while the buffer of an open socket is full. *)
SendUnbounded(w, f, s) ==     \* mutant: the send does not wait for the buffer
  /\ s \in f.to /\ sock[s].state \in {"open", "hung"}
  /\ frames' = [frames EXCEPT ![s] = Append(@, f.msg.version)]
  /\ Step(w, f, [f EXCEPT !.to = @ \ {s}])
  /\ UNCHANGED <<db, redis, registry, total, sock, page, due>>

Send(w, f, s) ==
  /\ s \in f.to /\ sock[s].state \in {"open", "hung"}
  /\ Len(frames[s]) < MaxFrames
  /\ frames' = [frames EXCEPT ![s] = Append(@, f.msg.version)]
  /\ Step(w, f, [f EXCEPT !.to = @ \ {s}])
  /\ UNCHANGED <<db, redis, registry, total, sock, page, due>>

(* A send on a closed socket raises; broadcast notes the socket and goes on. *)
SendFailsOut(w, f, s) ==     \* mutant: the exception leaves the loop
  /\ s \in f.to /\ sock[s].state \in {"dead", "gone"}
  /\ Step(w, f, [f EXCEPT !.to = {}, !.stale = {s}])
  /\ UNCHANGED <<db, redis, registry, total, sock, frames, page, due>>

SendFails(w, f, s) ==
  /\ s \in f.to /\ sock[s].state \in {"dead", "gone"}
  /\ Step(w, f, [f EXCEPT !.to = @ \ {s}, !.stale = @ \cup {s}])
  /\ UNCHANGED <<db, redis, registry, total, sock, frames, page, due>>

Prune(w, f, s) ==
  /\ f.to = {} /\ s \in f.stale
  /\ disconnect(w, s)
  /\ Step(w, f, [f EXCEPT !.stale = @ \ {s}])
  /\ UNCHANGED <<db, redis, sock, frames, page, due>>

Finish(w, f) ==
  /\ f.to = {} /\ f.stale = {}
  /\ fans' = [fans EXCEPT ![w] = @ \ {f}]
  /\ UNCHANGED <<db, redis, registry, total, sock, frames, page, due>>

(* ConnectionManager.connect under the lock: over a ceiling the handshake is  *)
(* closed without accept and nothing is registered; an empty bucket is the    *)
(* same as none.                                                              *)
Connect(c, s, w) ==
  /\ shown[c] # None /\ current[c] = None
  /\ Fresh(s)
  /\ total[w] < MaxTotal
  /\ Cardinality(Bucket(w, Watches[c])) < MaxPerMarket
  /\ registry' = [registry EXCEPT ![w] = @ \cup {s}]
  /\ total'    = [total EXCEPT ![w] = @ + 1]
  /\ sock'     = [sock EXCEPT ![s] = [state |-> "open", client |-> c, worker |-> w]]
  /\ current'  = [current EXCEPT ![c] = s]
  /\ UNCHANGED <<db, redis, fans, frames, got, shown, due>>

Rejected(c, s, w) ==
  /\ shown[c] # None /\ current[c] = None
  /\ Fresh(s)
  /\ \/ total[w] >= MaxTotal
     \/ Cardinality(Bucket(w, Watches[c])) >= MaxPerMarket
  /\ sock'    = [sock EXCEPT ![s] = [state |-> "gone", client |-> c, worker |-> w]]
  /\ current' = [current EXCEPT ![c] = s]
  /\ UNCHANGED <<db, redis, manager, frames, got, shown, due>>

(* The handler of ws_market sees the disconnect and leaves through finally. *)
HandlerEnds(s) ==
  /\ sock[s].state = "dead"
  /\ disconnect(sock[s].worker, s)
  /\ sock' = [sock EXCEPT ![s].state = "gone"]
  /\ UNCHANGED <<db, redis, fans, frames, page, due>>

-----------------------------------------------------------------------------
(* The subscriber's connection, the network and the worker process. *)

(* The Redis connection drops: what was buffered may still be read in part;   *)
(* a broadcast under way goes on.                                             *)
RedisDrops(w) ==
  /\ subUp[w] /\ faults < MaxFaults
  /\ subUp' = [subUp EXCEPT ![w] = FALSE]
  /\ faults' = faults + 1
  /\ \E n \in 0..Len(inbox[w]) :
       /\ inbox' = [inbox EXCEPT ![w] = SubSeq(@, 1, n)]
       /\ due' = {d \in due : sock[d[1]].worker = w =>
                       \A i \in n + 1..Len(inbox[w]) : d[2] # inbox[w][i].version}
  /\ UNCHANGED <<db, published, manager, sock, frames, page>>

(* The outer loop of redis_subscriber reconnects after its delay. *)
Resubscribe(w) ==
  /\ ~subUp[w] /\ inbox[w] = <<>> /\ fans[w] = {}
  /\ subUp' = [subUp EXCEPT ![w] = TRUE]
  /\ UNCHANGED <<db, published, inbox, faults, manager, sock, frames, page, due>>

(* The process restarts: its sockets, its registry and its messages are gone. *)
Restart(w) ==
  /\ faults < MaxFaults
  /\ faults'   = faults + 1
  /\ subUp'    = [subUp EXCEPT ![w] = FALSE]
  /\ inbox'    = [inbox EXCEPT ![w] = <<>>]
  /\ fans'     = [fans EXCEPT ![w] = {}]
  /\ registry' = [registry EXCEPT ![w] = {}]
  /\ total'    = [total EXCEPT ![w] = 0]
  /\ sock'     = [s \in Sockets |-> IF sock[s].worker = w THEN [sock[s] EXCEPT !.state = "gone"]
                                                          ELSE sock[s]]
  /\ frames'   = [s \in Sockets |-> IF sock[s].worker = w THEN <<>> ELSE frames[s]]
  /\ due'      = {d \in due : sock[d[1]].worker # w}
  /\ UNCHANGED <<db, published, page>>

MayFail(s) == IsOpen(s) /\ Cardinality({t \in Sockets : ~IsOpen(t) /\ sock[t] # Unused}) < MaxCloses

Close(s) ==
  /\ sock'   = [sock EXCEPT ![s].state = "dead"]
  /\ frames' = [frames EXCEPT ![s] = <<>>]
  /\ due'    = {d \in due : d[1] # s}
  /\ UNCHANGED <<db, redis, manager, page>>

(* The connection of a socket closes, the server's side of it at once ... *)
SocketCloses(s) == MayFail(s) /\ Close(s)

(* ... or the browser's side alone, until a keep-alive goes unanswered. *)
SocketHangs(s) ==
  /\ MayFail(s)
  /\ sock' = [sock EXCEPT ![s].state = "hung"]
  /\ due'  = {d \in due : d[1] # s}
  /\ UNCHANGED <<db, redis, manager, frames, page>>

KeepAliveFails(s) == sock[s].state = "hung" /\ Close(s)

-----------------------------------------------------------------------------
(* The page: the server-rendered odds, then useMarketSocket. *)

Load(c) ==
  /\ shown[c] = None
  /\ shown' = [shown EXCEPT ![c] = odds[Watches[c]]]
  /\ UNCHANGED <<db, redis, manager, sock, frames, got, current, due>>

Receive(c, s) ==
  /\ current[c] = s /\ IsOpen(s) /\ frames[s] # <<>>
  /\ shown'  = [shown EXCEPT ![c] = Head(frames[s])]
  /\ got'    = [got EXCEPT ![s] = Append(@, Head(frames[s]))]
  /\ frames' = [frames EXCEPT ![s] = Tail(@)]
  /\ due'    = due \ {<<s, Head(frames[s])>>}
  /\ UNCHANGED <<db, redis, manager, sock, current>>

(* onclose of the current socket: the page will reconnect. *)
Closed(c, s) ==
  /\ current[c] = s /\ ~IsOpen(s)
  /\ current' = [current EXCEPT ![c] = None]
  /\ UNCHANGED <<db, redis, manager, sock, frames, got, shown, due>>

-----------------------------------------------------------------------------
Write == (\E m \in Markets : Edit(m)) \/ (\E p \in writers : Commit(p) \/ Publish(p) \/ GiveUp(p))

FanOut(w) ==
  \/ Take(w)
  \/ \E f \in fans[w] :
       \/ Finish(w, f)
       \/ \E s \in Sockets : Send(w, f, s) \/ SendFails(w, f, s) \/ Prune(w, f, s)

Browse(c) ==
  \/ Load(c)
  \/ \E s \in Sockets :
       \/ Receive(c, s) \/ Closed(c, s)
       \/ \E w \in Workers : Connect(c, s, w) \/ Rejected(c, s, w)

Fault ==
  \/ \E w \in Workers : RedisDrops(w) \/ Restart(w)
  \/ \E s \in Sockets : SocketCloses(s) \/ SocketHangs(s)

Next ==
  \/ Write
  \/ \E w \in Workers : FanOut(w) \/ Resubscribe(w)
  \/ \E s \in Sockets : HandlerEnds(s) \/ KeepAliveFails(s)
  \/ \E c \in Clients : Browse(c)
  \/ Fault

(* The event loop of a worker runs its ready tasks; a browser delivers the    *)
(* frames it has; the keep-alive closes a connection that hangs.              *)
Fairness ==
  /\ \A w \in Workers : WF_vars(FanOut(w))
  /\ \A s \in Sockets : WF_vars(KeepAliveFails(s))
  /\ \A c \in Clients, s \in Sockets : WF_vars(Receive(c, s))

Spec == Init /\ [][Next]_vars /\ Fairness

-----------------------------------------------------------------------------
Fan == [msg   : [market : Markets, version : Versions],
        to    : SUBSET Sockets,
        stale : SUBSET Sockets]

(* The shape of the state; a socket never holds more frames than its buffer   *)
(* takes, because broadcast awaits each send.                                 *)
TypeOK ==
  /\ odds \in [Markets -> Versions] /\ edits \in Versions
  /\ committed \in [Markets -> SUBSET Versions]
  /\ writers \subseteq [at : {"flushed", "committed"}, market : Markets, version : Versions]
  /\ published \in [Markets -> BoundedSeq(Versions, MaxEdits)]
  /\ inbox \in [Workers -> BoundedSeq([market : Markets, version : Versions], MaxEdits)]
  /\ subUp \in [Workers -> BOOLEAN] /\ faults \in 0..MaxFaults
  /\ \A w \in Workers : fans[w] \subseteq Fan
  /\ sock \in [Sockets -> [state  : {"unused", "open", "hung", "dead", "gone"},
                           client : Clients \cup {None},
                           worker : Workers \cup {None}]]
  /\ registry \in [Workers -> SUBSET Sockets] /\ total \in [Workers -> 0..MaxTotal]
  /\ \A s \in Sockets : Len(frames[s]) <= MaxFrames
  /\ got \in [Sockets -> BoundedSeq(Versions, MaxEdits)] /\ due \subseteq Sockets \X Versions
  /\ current \in [Clients -> Sockets \cup {None}]
  /\ shown \in [Clients -> Versions \cup {None}]

(* No page ever shows odds that were not committed: what it shows is one of   *)
(* the values its market has had, whatever is rolled back in between          *)
(* (publisher.py: "clients never render a rolled-back price").                *)
ShownWasCommitted ==
  \A c \in Clients : shown[c] # None => shown[c] \in committed[Watches[c]]

(* The count of a worker's sockets is the number it has registered, within    *)
(* the ceilings, and every open socket is registered where it connected, and  *)
(* there only: neither the prune of a broadcast nor the handler's own         *)
(* disconnect, in either order, counts a socket down twice.                   *)
RegistryCounts ==
  \A w \in Workers :
    /\ total[w] = Cardinality(registry[w])
    /\ total[w] <= MaxTotal
    /\ \A m \in Markets : Cardinality(Bucket(w, m)) <= MaxPerMarket
    /\ \A s \in Sockets : sock[s].state = "open" => (s \in registry[w] <=> sock[s].worker = w)

Position(m, v) == CHOOSE i \in DOMAIN published[m] : published[m][i] = v

(* Along one socket the odds arrive in the order in which they were           *)
(* published, none of them twice, however slow the other sockets of the       *)
(* market are.                                                                *)
FramesInOrder ==
  \A s \in Sockets :
    LET all == got[s] \o frames[s]
    IN  \A i, j \in DOMAIN all :
          i < j => Position(MarketOf(s), all[i]) < Position(MarketOf(s), all[j])

(* A message that has reached a worker is handed over by every open socket    *)
(* that the worker had registered for the market, unless that socket fails or *)
(* the message is lost with the subscription: neither a socket that raises    *)
(* nor one that has stopped reading keeps the rest from their odds.           *)
FrameReaches ==
  \A v \in 1..MaxEdits :
    (\E s \in Sockets : <<s, v>> \in due) ~> (\A s \in Sockets : <<s, v>> \notin due)
=============================================================================
