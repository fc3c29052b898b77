------------------------------- MODULE LogHub -------------------------------
(***************************************************************************)
(* The live-log broker of the API (wshub.go) for one run: the handler of   *)
(* each runner connection appends log chunks to the hub's buffer and fans  *)
(* them out to the channels of the UI connections; the first UI to come    *)
(* and the last to go turn the runner's streaming on and off; the indexer  *)
(* and the stale watcher drop the hub when the run is over.                *)
(*                                                                         *)
(* Every block under a mutex is one step, and so is every operation on a   *)
(* channel or a socket. Commands go out after the mutex is released. A hub *)
(* that has been dropped or evicted may still be held by a handler, so the *)
(* hubs of the run are numbered in the order of their creation.            *)
(* Chunks are numbered by their position in the hub's stream (seq).        *)
(***************************************************************************)
EXTENDS Naturals, Sequences, FiniteSets

CONSTANTS
    UI,         \* UI connections
    Conn,       \* runner connections
    Nil,        \* no connection
    ChanCap,    \* uiSendChCapacity
    MaxHubs,    \* bound on hubs created for the run
    MaxChunks,  \* bound on chunks sent by the runner
    MaxDrops,   \* bound on calls of DropRun
    MaxFaults   \* bound on connections that fail or are closed by their client

ASSUME NilAssumption == Nil \notin Conn
ASSUME BoundAssumption == MaxHubs \in Nat /\ MaxChunks \in Nat

VARIABLES
    \* wsHub.runs
    cur,        \* the run's hub in the map, NoHub if there is none
    made,       \* hubs created so far
    \* runHub
    runnerConn, uis, streaming,
    seq,        \* chunks received
    \* RegisterUI
    uiPc, uiHub,
    from,       \* seq when the UI's snapshot was taken
    cmdFor,     \* runnerForCmd
    \* uiConn
    ch,         \* sendCh
    once,       \* closeOnce: sendCh is closed unless it is "no"
    wsOpen,     \* the socket of the UI
    writing,    \* the writer goroutine runs
    queued,     \* every chunk ever put into the channel
    \* RegisterRunner
    cPc, cHub, old, want,
    fan,        \* the chunk being fanned out, and to whom it still goes
    \* the runner's end of a connection
    open, cmds, tailing, inflight, sent,
    \* DropRun
    dropPc, dropHub, dropRunner, dropUIs, drops,
    faults,     \* connections failed so far
    crashed     \* the server process died of a panic

mapVars == <<cur, made>>
hubVars == <<runnerConn, uis, streaming, seq>>
uiVars == <<uiPc, uiHub, from, cmdFor>>
chanVars == <<ch, once, wsOpen, writing, queued>>
connVars == <<cPc, cHub, old, want, fan>>
linkVars == <<open, cmds, tailing, inflight, sent>>
dropVars == <<dropPc, dropHub, dropRunner, dropUIs, drops>>
envVars == <<faults, crashed>>
vars == <<mapVars, hubVars, uiVars, chanVars, connVars, linkVars, dropVars,
          envVars>>

NoHub == 0
Hubs == 1..MaxHubs
NoFan == [hub |-> NoHub, pos |-> 0, todo |-> {}]
FanTo(c, todo) == [hub |-> fan[c].hub, pos |-> fan[c].pos, todo |-> todo]

\* What a UI is sent: its snapshot, the end of the run, or a chunk.
Snapshot == 0
RunEnded == MaxChunks + 1
Frame == Nat

HubTypes ==
    /\ cur \in {NoHub} \cup Hubs /\ made \in 0..MaxHubs
    /\ runnerConn \in [Hubs -> Conn \cup {Nil}]
    /\ uis \in [Hubs -> SUBSET UI]
    /\ streaming \in [Hubs -> BOOLEAN]
    /\ seq \in [Hubs -> Nat]

UITypes ==
    /\ uiPc \in [UI -> {"new", "hub", "snapshot", "on", "reading", "leaving",
                        "off", "done", "panicked"}]
    /\ uiHub \in [UI -> {NoHub} \cup Hubs]
    /\ \A u \in UI : uiPc[u] # "new" => uiHub[u] \in Hubs
    /\ from \in [UI -> Nat]
    /\ cmdFor \in [UI -> Conn \cup {Nil}]

ChanTypes ==
    /\ ch \in [UI -> Seq(Frame)]
    /\ once \in [UI -> {"no", "busy", "yes"}]
    /\ wsOpen \in [UI -> BOOLEAN]
    /\ writing \in [UI -> BOOLEAN]
    /\ queued \in [UI -> SUBSET Nat]

ConnTypes ==
    /\ cPc \in [Conn -> {"new", "hub", "ask", "reading", "append", "fan",
                         "done", "panicked"}]
    /\ cHub \in [Conn -> {NoHub} \cup Hubs]
    /\ \A c \in Conn : cPc[c] # "new" => cHub[c] \in Hubs
    /\ old \in [Conn -> Conn \cup {Nil}]
    /\ want \in [Conn -> BOOLEAN]
    /\ fan \in [Conn -> [hub : {NoHub} \cup Hubs, pos : Nat, todo : SUBSET UI]]
    /\ \A c \in Conn : cPc[c] = "append" => fan[c].hub \in Hubs

LinkTypes ==
    /\ open \in [Conn -> BOOLEAN]
    /\ cmds \in [Conn -> Seq(BOOLEAN)]
    /\ tailing \in [Conn -> BOOLEAN]
    /\ inflight \in [Conn -> Nat]
    /\ sent \in Nat

DropTypes ==
    /\ dropPc \in {"idle", "detach", "notify", "drain"}
    /\ dropHub \in {NoHub} \cup Hubs
    /\ dropPc # "idle" => dropHub \in Hubs
    /\ dropRunner \in Conn \cup {Nil}
    /\ dropUIs \in SUBSET UI
    /\ drops \in Nat

TypeOK ==
    /\ HubTypes /\ UITypes /\ ChanTypes /\ ConnTypes /\ LinkTypes /\ DropTypes
    /\ faults \in Nat
    /\ crashed \in BOOLEAN

-----------------------------------------------------------------------------
(* Shared steps. *)

\* The hub that a handler gets: the one in the map, or a new one.
getOrCreate(h) ==
    \/ cur # NoHub /\ h = cur /\ UNCHANGED mapVars
    \/ /\ cur = NoHub /\ made < MaxHubs
       /\ h = made + 1 /\ made' = h /\ cur' = h

\* sendRunnerCommand: a write to a closed socket is lost.
Command(c, on) ==
    /\ cmds' = IF open[c] THEN [cmds EXCEPT ![c] = Append(@, on)] ELSE cmds
    /\ UNCHANGED <<open, tailing, inflight, sent>>

\* The server closes a runner's socket: its end stops tailing, and what is in
\* flight is lost.
CloseRunner(c) ==
    /\ open' = [open EXCEPT ![c] = FALSE]
    /\ cmds' = [cmds EXCEPT ![c] = <<>>]
    /\ tailing' = [tailing EXCEPT ![c] = FALSE]
    /\ inflight' = [inflight EXCEPT ![c] = 0]
    /\ UNCHANGED sent

\* The state of sendCh.
Closed(u) == once[u] # "no"
Room(u) == ~Closed(u) /\ Len(ch[u]) < ChanCap

\* kick: closes the socket and the channel once, and waits for a drainAndClose.
kick(u) ==
    /\ once[u] # "busy"
    /\ once' = [once EXCEPT ![u] = "yes"]
    /\ wsOpen' = [wsOpen EXCEPT ![u] = FALSE]
    /\ UNCHANGED <<ch, writing, queued>>

Put(u, frame) ==
    /\ ch' = [ch EXCEPT ![u] = Append(@, frame)]
    /\ UNCHANGED <<once, wsOpen, writing>>

GoUI(u, pc) == uiPc' = [uiPc EXCEPT ![u] = pc]
GoConn(c, pc) == cPc' = [cPc EXCEPT ![c] = pc]

-----------------------------------------------------------------------------
(* RegisterUI, and the writer goroutine of the connection. *)

ConnectUI(u) ==
    /\ uiPc[u] = "new"
    /\ GoUI(u, "hub")
    /\ \E h \in Hubs : getOrCreate(h) /\ uiHub' = [uiHub EXCEPT ![u] = h]
    /\ wsOpen' = [wsOpen EXCEPT ![u] = TRUE]
    /\ writing' = [writing EXCEPT ![u] = TRUE]
    /\ UNCHANGED <<hubVars, from, cmdFor, ch, once, queued, connVars,
                   linkVars, dropVars, envVars>>

\* The first UI of a connected runner asks for the stream.
AttachUI(u) ==
    LET h == uiHub[u]
        first == uis[h] = {} /\ runnerConn[h] # Nil /\ ~streaming[h]
    IN /\ uiPc[u] = "hub"
       /\ GoUI(u, "snapshot")
       /\ uis' = [uis EXCEPT ![h] = @ \cup {u}]
       /\ from' = [from EXCEPT ![u] = seq[h]]
       /\ streaming' = [streaming EXCEPT ![h] = @ \/ first]
       /\ cmdFor' = [cmdFor EXCEPT ![u] = IF first THEN runnerConn[h] ELSE Nil]
       /\ UNCHANGED <<mapVars, runnerConn, seq, uiHub, chanVars, connVars,
                      linkVars, dropVars, envVars>>

\* A full channel ends the connection; a closed one panics, which the HTTP
\* server's Recoverer catches.
SendSnapshot(u) ==
    /\ uiPc[u] = "snapshot"
    /\ \/ /\ Room(u)
          /\ Put(u, Snapshot)
          /\ UNCHANGED queued
          /\ GoUI(u, IF cmdFor[u] # Nil THEN "on" ELSE "reading")
       \/ /\ ~Room(u) /\ ~Closed(u)
          /\ kick(u)
          /\ GoUI(u, "leaving")
       \/ /\ Closed(u)
          /\ GoUI(u, "panicked")
          /\ UNCHANGED chanVars
    /\ UNCHANGED <<mapVars, hubVars, uiHub, from, cmdFor, connVars, linkVars,
                   dropVars, envVars>>

SendStreamOn(u) ==
    /\ uiPc[u] = "on"
    /\ Command(cmdFor[u], TRUE)
    /\ cmdFor' = [cmdFor EXCEPT ![u] = Nil]
    /\ GoUI(u, "reading")
    /\ UNCHANGED <<mapVars, hubVars, uiHub, from, chanVars, connVars,
                   dropVars, envVars>>

\* The read loop ends when the socket has closed.
UIReadFails(u) ==
    /\ uiPc[u] = "reading" /\ ~wsOpen[u]
    /\ kick(u)
    /\ GoUI(u, "leaving")
    /\ UNCHANGED <<mapVars, hubVars, uiHub, from, cmdFor, connVars, linkVars,
                   dropVars, envVars>>

\* Mutant of UnregisterUI: the last UI stops the stream, but streaming stays.
UnregisterKeepsStreaming(u) ==
    LET h == cur
        last == /\ h # NoHub /\ uis[h] \ {u} = {}
                /\ runnerConn[h] # Nil /\ streaming[h]
    IN /\ uiPc[u] = "leaving" /\ ~writing[u]
       /\ uis' = [g \in Hubs |-> IF g = h THEN uis[g] \ {u} ELSE uis[g]]
       /\ cmdFor' = [cmdFor EXCEPT ![u] = IF last THEN runnerConn[h] ELSE Nil]
       /\ GoUI(u, IF last THEN "off" ELSE "done")
       /\ from' = [from EXCEPT ![u] = 0] /\ queued' = [queued EXCEPT ![u] = {}]
       /\ ch' = [ch EXCEPT ![u] = <<>>]
       /\ UNCHANGED <<mapVars, runnerConn, streaming, seq, uiHub, once, wsOpen,
                      writing, connVars, linkVars, dropVars, envVars>>

\* awaitWriter and unregisterUI. The hub is looked up again by its run: it may
\* be another one by now. The last UI stops the stream. Nobody reads what is
\* left in the channel.
UnregisterUI(u) ==
    LET h == cur
        last == /\ h # NoHub /\ uis[h] \ {u} = {}
                /\ runnerConn[h] # Nil /\ streaming[h]
    IN /\ uiPc[u] = "leaving" /\ ~writing[u]
       /\ uis' = [g \in Hubs |-> IF g = h THEN uis[g] \ {u} ELSE uis[g]]
       /\ streaming' = [g \in Hubs |-> streaming[g] /\ ~(g = h /\ last)]
       /\ cmdFor' = [cmdFor EXCEPT ![u] = IF last THEN runnerConn[h] ELSE Nil]
       /\ GoUI(u, IF last THEN "off" ELSE "done")
       /\ from' = [from EXCEPT ![u] = 0] /\ queued' = [queued EXCEPT ![u] = {}]
       /\ ch' = [ch EXCEPT ![u] = <<>>]
       /\ UNCHANGED <<mapVars, runnerConn, seq, uiHub, once, wsOpen, writing,
                      connVars, linkVars, dropVars, envVars>>

SendStreamOff(u) ==
    /\ uiPc[u] = "off"
    /\ Command(cmdFor[u], FALSE)
    /\ cmdFor' = [cmdFor EXCEPT ![u] = Nil]
    /\ GoUI(u, "done")
    /\ UNCHANGED <<mapVars, hubVars, uiHub, from, chanVars, connVars,
                   dropVars, envVars>>

\* The browser goes away, or a write has timed out.
CloseUI(u) ==
    /\ wsOpen[u] /\ faults < MaxFaults
    /\ faults' = faults + 1
    /\ wsOpen' = [wsOpen EXCEPT ![u] = FALSE]
    /\ UNCHANGED <<mapVars, hubVars, uiVars, ch, once, writing, queued,
                   connVars, linkVars, dropVars, crashed>>

\* writeLoop: it ends at a failed write, or when a closed channel is drained.
WriteLoop(u) ==
    /\ writing[u]
    /\ \/ /\ ch[u] # <<>> /\ wsOpen[u]
          /\ ch' = [ch EXCEPT ![u] = Tail(@)]
          /\ UNCHANGED writing
       \/ /\ \/ ch[u] # <<>> /\ ~wsOpen[u]
             \/ ch[u] = <<>> /\ Closed(u)
          /\ writing' = [writing EXCEPT ![u] = FALSE]
          /\ UNCHANGED ch
    /\ UNCHANGED <<mapVars, hubVars, uiVars, once, wsOpen, queued,
                   connVars, linkVars, dropVars, envVars>>

-----------------------------------------------------------------------------
(* RegisterRunner, and the runner's end of the connection. *)

\* The runner dials again only when its last connection has failed, but the
\* server may not know of that yet.
ConnectRunner(c) ==
    /\ cPc[c] = "new" /\ \A d \in Conn : ~open[d]
    /\ GoConn(c, "hub")
    /\ open' = [open EXCEPT ![c] = TRUE]
    /\ \E h \in Hubs : getOrCreate(h) /\ cHub' = [cHub EXCEPT ![c] = h]
    /\ UNCHANGED <<hubVars, uiVars, chanVars, old, want, fan, cmds, tailing,
                   inflight, sent, dropVars, envVars>>

AttachRunner(c) ==
    LET h == cHub[c]
    IN /\ cPc[c] = "hub"
       /\ GoConn(c, "ask")
       /\ old' = [old EXCEPT ![c] = runnerConn[h]]
       /\ runnerConn' = [runnerConn EXCEPT ![h] = c]
       /\ want' = [want EXCEPT ![c] = uis[h] # {}]
       /\ streaming' = [streaming EXCEPT ![h] = uis[h] # {}]
       /\ UNCHANGED <<mapVars, uis, seq, uiVars, chanVars, cHub, fan, linkVars,
                      dropVars, envVars>>

\* The connection that was replaced is closed, and the stream asked for.
AskRunner(c) ==
    /\ cPc[c] = "ask"
    /\ open' = [d \in Conn |-> open[d] /\ d # old[c]]
    /\ cmds' = [d \in Conn |-> IF d = old[c] THEN <<>>
                               ELSE IF d = c /\ want[c] /\ open[c]
                               THEN Append(cmds[d], TRUE) ELSE cmds[d]]
    /\ tailing' = [d \in Conn |-> tailing[d] /\ d # old[c]]
    /\ inflight' = [d \in Conn |-> IF d = old[c] THEN 0 ELSE inflight[d]]
    /\ GoConn(c, "reading")
    /\ old' = [old EXCEPT ![c] = Nil] /\ want' = [want EXCEPT ![c] = FALSE]
    /\ UNCHANGED <<mapVars, hubVars, uiVars, chanVars, cHub, fan, sent, dropVars,
                   envVars>>

\* Mutant of ReadChunk: a run without a hub is not noticed.
ReadChunkUnchecked(c) ==
    /\ cPc[c] = "reading" /\ inflight[c] > 0
    /\ inflight' = [inflight EXCEPT ![c] = @ - 1]
    /\ GoConn(c, "append")
    /\ fan' = [fan EXCEPT ![c] = [hub |-> cur, pos |-> 0, todo |-> {}]]
    /\ UNCHANGED <<mapVars, hubVars, uiVars, chanVars, cHub, old, want, open,
                   cmds, tailing, sent, dropVars, envVars>>

\* A log message is read, and the hub looked up by its run. Without a hub the
\* chunk is lost.
ReadChunk(c) ==
    /\ cPc[c] = "reading" /\ inflight[c] > 0
    /\ inflight' = [inflight EXCEPT ![c] = @ - 1]
    /\ GoConn(c, IF cur = NoHub THEN "reading" ELSE "append")
    /\ fan' = [fan EXCEPT ![c] = [hub |-> cur, pos |-> 0, todo |-> {}]]
    /\ UNCHANGED <<mapVars, hubVars, uiVars, chanVars, cHub, old, want, open,
                   cmds, tailing, sent, dropVars, envVars>>

\* appendAndFanOut under the hub's mutex.
AppendChunk(c) ==
    LET h == fan[c].hub
    IN /\ cPc[c] = "append"
       /\ seq' = [seq EXCEPT ![h] = @ + 1]
       /\ fan' = [fan EXCEPT ![c] = [hub |-> h, pos |-> seq[h] + 1, todo |-> uis[h]]]
       /\ GoConn(c, "fan")
       /\ UNCHANGED <<mapVars, runnerConn, uis, streaming, uiVars, chanVars, cHub,
                      old, want, linkVars, dropVars, envVars>>

\* Mutant of FanOut: a slow UI ends the round.
FanOutStops(c, u) ==
    /\ cPc[c] = "fan" /\ u \in fan[c].todo
    /\ \/ /\ Room(u)
          /\ Put(u, fan[c].pos)
          /\ queued' = [queued EXCEPT ![u] = @ \cup {fan[c].pos}]
          /\ fan' = [fan EXCEPT ![c] = FanTo(c, fan[c].todo \ {u})]
          /\ UNCHANGED cPc
       \/ /\ ~Room(u) /\ ~Closed(u)
          /\ kick(u)
          /\ fan' = [fan EXCEPT ![c] = FanTo(c, {})]
          /\ UNCHANGED cPc
       \/ /\ Closed(u)
          /\ GoConn(c, "panicked")
          /\ UNCHANGED <<chanVars, fan>>
    /\ UNCHANGED <<mapVars, hubVars, uiVars, cHub, old, want, linkVars, dropVars,
                   envVars>>

\* One send of the fan-out: a UI whose channel is full is kicked, and a send on
\* a channel that was closed meanwhile panics. Recoverer ends the handler then,
\* before it has cleared runnerConn.
FanOut(c, u) ==
    /\ cPc[c] = "fan" /\ u \in fan[c].todo
    /\ \/ /\ Room(u)
          /\ Put(u, fan[c].pos)
          /\ queued' = [queued EXCEPT ![u] = @ \cup {fan[c].pos}]
          /\ fan' = [fan EXCEPT ![c] = FanTo(c, fan[c].todo \ {u})]
          /\ UNCHANGED cPc
       \/ /\ ~Room(u) /\ ~Closed(u)
          /\ kick(u)
          /\ fan' = [fan EXCEPT ![c] = FanTo(c, fan[c].todo \ {u})]
          /\ UNCHANGED cPc
       \/ /\ Closed(u)
          /\ GoConn(c, "panicked")
          /\ UNCHANGED <<chanVars, fan>>
    /\ UNCHANGED <<mapVars, hubVars, uiVars, cHub, old, want, linkVars, dropVars,
                   envVars>>

FanOutEnds(c) ==
    /\ cPc[c] = "fan" /\ fan[c].todo = {}
    /\ GoConn(c, "reading")
    /\ fan' = [fan EXCEPT ![c] = NoFan]
    /\ UNCHANGED <<mapVars, hubVars, uiVars, chanVars, cHub, old, want, linkVars,
                   dropVars, envVars>>

\* Mutant of RunnerReadFails: the hub's runner is cleared whoever it is.
DetachAnyRunner(c) ==
    /\ cPc[c] = "reading" /\ ~open[c]
    /\ GoConn(c, "done")
    /\ runnerConn' = [runnerConn EXCEPT ![cHub[c]] = Nil]
    /\ streaming' = [streaming EXCEPT ![cHub[c]] = FALSE]
    /\ inflight' = [inflight EXCEPT ![c] = 0]
    /\ UNCHANGED <<mapVars, uis, seq, uiVars, chanVars, cHub, old, want, fan,
                   open, cmds, tailing, sent, dropVars, envVars>>

\* The read loop ends; a connection that was replaced leaves the hub alone.
RunnerReadFails(c) ==
    LET h == cHub[c]
        mine == runnerConn[h] = c
    IN /\ cPc[c] = "reading" /\ ~open[c]
       /\ GoConn(c, "done")
       /\ runnerConn' = [runnerConn EXCEPT ![h] = IF mine THEN Nil ELSE @]
       /\ streaming' = [streaming EXCEPT ![h] = @ /\ ~mine]
       /\ inflight' = [inflight EXCEPT ![c] = 0]
       /\ UNCHANGED <<mapVars, uis, seq, uiVars, chanVars, cHub, old, want, fan,
                      open, cmds, tailing, sent, dropVars, envVars>>

\* The log streamer obeys a command. A stop first ships what the file holds,
\* which SendChunk has then done.
RunnerObeys(c) ==
    /\ cmds[c] # <<>>
    /\ tailing' = [tailing EXCEPT ![c] = Head(cmds[c])]
    /\ cmds' = [cmds EXCEPT ![c] = Tail(@)]
    /\ UNCHANGED <<mapVars, hubVars, uiVars, chanVars, connVars, open, inflight,
                   sent, dropVars, envVars>>

SendChunk(c) ==
    /\ tailing[c] /\ sent < MaxChunks
    /\ inflight' = [inflight EXCEPT ![c] = @ + 1]
    /\ sent' = sent + 1
    /\ UNCHANGED <<mapVars, hubVars, uiVars, chanVars, connVars, open, cmds,
                   tailing, dropVars, envVars>>

\* The connection fails, or the runner says bye: the server may still read what
\* is in flight.
LoseRunner(c) ==
    /\ open[c] /\ faults < MaxFaults
    /\ faults' = faults + 1
    /\ open' = [open EXCEPT ![c] = FALSE]
    /\ cmds' = [cmds EXCEPT ![c] = <<>>]
    /\ tailing' = [tailing EXCEPT ![c] = FALSE]
    /\ UNCHANGED <<mapVars, hubVars, uiVars, chanVars, connVars, inflight, sent,
                   dropVars, crashed>>

-----------------------------------------------------------------------------
(* DropRun, called by the indexer and by the stale watcher; EvictIdle. *)

DropHub ==
    /\ dropPc = "idle" /\ cur # NoHub /\ drops < MaxDrops
    /\ drops' = drops + 1
    /\ dropPc' = "detach" /\ dropHub' = cur /\ cur' = NoHub
    /\ UNCHANGED <<made, hubVars, uiVars, chanVars, connVars, linkVars,
                   dropRunner, dropUIs, envVars>>

DropDetach ==
    /\ dropPc = "detach"
    /\ dropPc' = "notify"
    /\ dropRunner' = runnerConn[dropHub] /\ dropUIs' = uis[dropHub]
    /\ runnerConn' = [runnerConn EXCEPT ![dropHub] = Nil]
    /\ uis' = [uis EXCEPT ![dropHub] = {}]
    /\ UNCHANGED <<mapVars, streaming, seq, uiVars, chanVars, connVars, linkVars,
                   dropHub, drops, envVars>>

\* The end of the run is sent if there is room, and the channel closed. No
\* Recoverer guards the goroutines that call DropRun.
DropNotify(u) ==
    /\ dropPc = "notify" /\ u \in dropUIs
    /\ \/ /\ Closed(u)
          /\ crashed' = TRUE
          /\ UNCHANGED <<dropPc, chanVars>>
       \/ /\ ~Closed(u)
          /\ ch' = [ch EXCEPT ![u] = IF Room(u) THEN Append(@, RunEnded) ELSE @]
          /\ once' = [once EXCEPT ![u] = "busy"]
          /\ dropPc' = "drain"
          /\ UNCHANGED <<wsOpen, writing, queued, crashed>>
    /\ UNCHANGED <<mapVars, hubVars, uiVars, connVars, linkVars, dropHub,
                   dropRunner, dropUIs, drops, faults>>

DropDrained(u) ==
    /\ dropPc = "drain" /\ u \in dropUIs /\ once[u] = "busy" /\ ~writing[u]
    /\ once' = [once EXCEPT ![u] = "yes"]
    /\ wsOpen' = [wsOpen EXCEPT ![u] = FALSE]
    /\ dropUIs' = dropUIs \ {u}
    /\ dropPc' = "notify"
    /\ UNCHANGED <<mapVars, hubVars, uiVars, ch, writing, queued,
                   connVars, linkVars, dropHub, dropRunner, drops, envVars>>

DropEnds ==
    /\ dropPc = "notify" /\ dropUIs = {}
    /\ dropPc' = "idle" /\ dropHub' = NoHub /\ dropRunner' = Nil
    /\ IF dropRunner # Nil THEN CloseRunner(dropRunner) ELSE UNCHANGED linkVars
    /\ UNCHANGED <<mapVars, hubVars, uiVars, chanVars, connVars, dropUIs, drops,
                   envVars>>

\* A hub that nobody uses is old enough to go. Its age is abstracted away.
EvictIdle ==
    /\ cur # NoHub /\ runnerConn[cur] = Nil /\ uis[cur] = {}
    /\ cur' = NoHub
    /\ UNCHANGED <<made, hubVars, uiVars, chanVars, connVars, linkVars, dropVars,
                   envVars>>

-----------------------------------------------------------------------------

Init ==
    /\ cur = NoHub /\ made = 0
    /\ runnerConn = [h \in Hubs |-> Nil] /\ uis = [h \in Hubs |-> {}]
    /\ streaming = [h \in Hubs |-> FALSE] /\ seq = [h \in Hubs |-> 0]
    /\ uiPc = [u \in UI |-> "new"] /\ uiHub = [u \in UI |-> NoHub]
    /\ from = [u \in UI |-> 0] /\ cmdFor = [u \in UI |-> Nil]
    /\ ch = [u \in UI |-> <<>>] /\ once = [u \in UI |-> "no"] /\ wsOpen = [u \in UI |-> FALSE]
    /\ writing = [u \in UI |-> FALSE] /\ queued = [u \in UI |-> {}]
    /\ cPc = [c \in Conn |-> "new"] /\ cHub = [c \in Conn |-> NoHub]
    /\ old = [c \in Conn |-> Nil] /\ want = [c \in Conn |-> FALSE]
    /\ fan = [c \in Conn |-> NoFan]
    /\ open = [c \in Conn |-> FALSE] /\ cmds = [c \in Conn |-> <<>>]
    /\ tailing = [c \in Conn |-> FALSE] /\ inflight = [c \in Conn |-> 0]
    /\ sent = 0
    /\ dropPc = "idle" /\ dropHub = NoHub /\ dropRunner = Nil /\ dropUIs = {}
    /\ drops = 0
    /\ faults = 0 /\ crashed = FALSE

UIStep(u) ==
    \/ ConnectUI(u) \/ AttachUI(u) \/ SendSnapshot(u) \/ SendStreamOn(u)
    \/ UIReadFails(u) \/ UnregisterUI(u) \/ SendStreamOff(u)
    \/ CloseUI(u) \/ WriteLoop(u)

ConnStep(c) ==
    \/ ConnectRunner(c) \/ AttachRunner(c) \/ AskRunner(c) \/ ReadChunk(c)
    \/ AppendChunk(c) \/ (\E u \in UI : FanOut(c, u)) \/ FanOutEnds(c)
    \/ RunnerReadFails(c) \/ RunnerObeys(c) \/ SendChunk(c) \/ LoseRunner(c)

DropStep ==
    \/ DropHub \/ DropDetach \/ (\E u \in UI : DropNotify(u) \/ DropDrained(u))
    \/ DropEnds \/ EvictIdle

Next ==
    /\ ~crashed
    /\ \/ \E u \in UI : UIStep(u)
       \/ \E c \in Conn : ConnStep(c)
       \/ DropStep

Spec == Init /\ [][Next]_vars

-----------------------------------------------------------------------------
(* Properties. *)

\* A connected runner has been asked for the stream exactly if a UI watches,
\* whoever came, went, reconnected or was replaced in whatever order.
StreamingIffWatched ==
    \A h \in Hubs : runnerConn[h] # Nil => (streaming[h] <=> uis[h] # {})

\* Chunks that a fan-out has not sent to the UI yet, or never will after a panic.
Pending(u) == {fan[c].pos : c \in {d \in Conn : /\ fan[d].hub = uiHub[u]
                                                /\ u \in fan[d].todo}}

\* The snapshot and the chunks sent to a UI complement each other: what its
\* channel has been given and what fan-outs still hold are the chunks that came
\* after the snapshot, each once.
NoGapNoRepeat ==
    \A h \in Hubs : \A u \in uis[h] : ~Closed(u) =>
        /\ queued[u] \cup Pending(u) = (from[u] + 1)..seq[h]
        /\ queued[u] \cap Pending(u) = {}

\* A hub loses its runner only when that connection's own loop ends or the hub
\* is dropped; the end of a connection that was replaced does not count.
RunnerKept ==
    [][\A h \in Hubs : runnerConn[h] # Nil /\ runnerConn'[h] = Nil
          => cPc'[runnerConn[h]] = "done" \/ (dropPc = "detach" /\ dropHub = h)]_vars

\* A UI that is slow or leaves never ends the runner's connection: no fan-out
\* sends on a channel that was closed after the list of UIs was copied.
FanOutSurvives == \A c \in Conn : cPc[c] # "panicked"

\* A command that has been decided and not obeyed yet.
CommandPending(c) ==
    \/ cmds[c] # <<>> \/ cPc[c] = "ask"
    \/ \E u \in UI : cmdFor[u] = c /\ uiPc[u] \in {"snapshot", "on", "off"}

\* Once every command has been sent and obeyed, a runner ships log bytes only
\* while a UI watches.
NoTrafficUnwatched ==
    \A c \in Conn : tailing[c] /\ runnerConn[cHub[c]] = c /\ ~CommandPending(c)
                     => uis[cHub[c]] # {}

=============================================================================
