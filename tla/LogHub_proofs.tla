---------------------------- MODULE LogHub_proofs ----------------------------
(***************************************************************************)
(* For any number of connections, hubs, chunks and faults: the types of    *)
(* the log hub, a runner's streaming that follows the UIs of its hub, and  *)
(* the chunks of a UI that attaches in the middle of a run's log, each of  *)
(* which it gets once (NoGapNoRepeat).                                     *)
(***************************************************************************)
EXTENDS LogHub, TLAPS

USE DEF mapVars, hubVars, uiVars, chanVars, connVars, linkVars, dropVars, envVars,
        NoHub, NoFan, GoUI, GoConn, Frame

-----------------------------------------------------------------------------
(* Types. *)

LEMMA InitTypes == Init => TypeOK
  <1> SUFFICES ASSUME Init PROVE TypeOK
    OBVIOUS
  <1>1. HubTypes
    BY BoundAssumption DEF Init, HubTypes, Hubs
  <1>2. UITypes /\ ConnTypes /\ DropTypes
    BY DEF Init, UITypes, ConnTypes, DropTypes
  <1>3. ChanTypes
    BY DEF Init, ChanTypes
  <1>4. LinkTypes
    BY DEF Init, LinkTypes
  <1> QED
    BY <1>1, <1>2, <1>3, <1>4 DEF Init, TypeOK

LEMMA PutTypes ==
  ASSUME ChanTypes, NEW u \in UI, NEW frame \in Nat, Put(u, frame),
         queued' \in [UI -> SUBSET Nat]
  PROVE  ChanTypes'
  <1>1. Append(ch[u], frame) \in Seq(Nat)
    BY DEF ChanTypes
  <1>2. ch' = [ch EXCEPT ![u] = Append(ch[u], frame)]
    BY DEF Put
  <1>3. ch' \in [UI -> Seq(Nat)]
    BY <1>1, <1>2 DEF ChanTypes
  <1> QED
    BY <1>3 DEF ChanTypes, Put

LEMMA KickTypes ==
  ASSUME ChanTypes, NEW u \in UI, kick(u)
  PROVE  ChanTypes'
  BY DEF ChanTypes, kick

LEMMA CommandTypes ==
  ASSUME LinkTypes, NEW c, NEW on \in BOOLEAN, Command(c, on)
  PROVE  LinkTypes'
  <1>1. cmds' \in [Conn -> Seq(BOOLEAN)]
    <2>1. CASE c \in Conn /\ open[c]
      <3>1. Append(cmds[c], on) \in Seq(BOOLEAN)
        BY <2>1 DEF LinkTypes
      <3>2. cmds' = [cmds EXCEPT ![c] = Append(cmds[c], on)]
        BY <2>1 DEF Command
      <3> QED
        BY <3>1, <3>2 DEF LinkTypes
    <2>2. CASE c \notin Conn
      <3>1. \/ cmds' = [cmds EXCEPT ![c] = Append(cmds[c], on)]
            \/ cmds' = cmds
        BY DEF Command
      <3> QED
        BY <2>2, <3>1 DEF LinkTypes
    <2>3. CASE ~open[c]
      BY <2>3 DEF Command, LinkTypes
    <2> QED
      BY <2>1, <2>2, <2>3
  <1> QED
    BY <1>1 DEF Command, LinkTypes

LEMMA CloseTypes ==
  ASSUME LinkTypes, NEW c, CloseRunner(c)
  PROVE  LinkTypes'
  <1>1. <<>> \in Seq(BOOLEAN)
    OBVIOUS
  <1>2. cmds' \in [Conn -> Seq(BOOLEAN)]
    BY <1>1 DEF LinkTypes, CloseRunner
  <1>3. open' \in [Conn -> BOOLEAN]
    BY DEF LinkTypes, CloseRunner
  <1>4. tailing' \in [Conn -> BOOLEAN]
    BY DEF LinkTypes, CloseRunner
  <1>5. inflight' \in [Conn -> Nat] /\ sent' = sent
    BY DEF LinkTypes, CloseRunner
  <1> QED
    BY <1>2, <1>3, <1>4, <1>5 DEF LinkTypes

LEMMA UIStepTypes ==
  ASSUME TypeOK, NEW u \in UI, UIStep(u)
  PROVE  TypeOK'
  <1>1. CASE ConnectUI(u)
    BY <1>1, BoundAssumption DEF TypeOK, HubTypes, UITypes, ChanTypes, ConnTypes,
       LinkTypes, DropTypes, ConnectUI, getOrCreate, Hubs
  <1>2. CASE AttachUI(u)
    BY <1>2 DEF TypeOK, HubTypes, UITypes, ChanTypes, ConnTypes, LinkTypes,
       DropTypes, AttachUI
  <1>3. CASE SendSnapshot(u)
    <2>1. ChanTypes'
      BY <1>3, PutTypes, KickTypes DEF TypeOK, SendSnapshot, ChanTypes, Snapshot
    <2>2. UITypes'
      BY <1>3 DEF TypeOK, SendSnapshot, UITypes
    <2> QED
      BY <1>3, <2>1, <2>2 DEF TypeOK, SendSnapshot, HubTypes, ConnTypes, LinkTypes,
         DropTypes
  <1>4. CASE SendStreamOn(u)
    <2>1. LinkTypes'
      BY <1>4, CommandTypes DEF TypeOK, SendStreamOn
    <2>2. UITypes'
      BY <1>4 DEF TypeOK, SendStreamOn, UITypes
    <2> QED
      BY <1>4, <2>1, <2>2 DEF TypeOK, SendStreamOn, HubTypes, ChanTypes, ConnTypes,
         DropTypes
  <1>5. CASE UIReadFails(u)
    <2>1. ChanTypes'
      BY <1>5, KickTypes DEF TypeOK, UIReadFails
    <2>2. UITypes'
      BY <1>5 DEF TypeOK, UIReadFails, UITypes
    <2> QED
      BY <1>5, <2>1, <2>2 DEF TypeOK, UIReadFails, HubTypes, ConnTypes, LinkTypes,
         DropTypes
  <1>6. CASE UnregisterUI(u)
    BY <1>6 DEF TypeOK, HubTypes, UITypes, ChanTypes, ConnTypes, LinkTypes,
       DropTypes, UnregisterUI
  <1>7. CASE SendStreamOff(u)
    <2>1. LinkTypes'
      BY <1>7, CommandTypes DEF TypeOK, SendStreamOff
    <2>2. UITypes'
      BY <1>7 DEF TypeOK, SendStreamOff, UITypes
    <2> QED
      BY <1>7, <2>1, <2>2 DEF TypeOK, SendStreamOff, HubTypes, ChanTypes, ConnTypes,
         DropTypes
  <1>8. CASE CloseUI(u)
    BY <1>8 DEF TypeOK, HubTypes, UITypes, ChanTypes, ConnTypes, LinkTypes,
       DropTypes, CloseUI
  <1>9. CASE WriteLoop(u)
    <2>1. ch' \in [UI -> Seq(Nat)]
      <3>1. \/ ch' = ch
            \/ ch[u] # <<>> /\ ch' = [ch EXCEPT ![u] = Tail(ch[u])]
        BY <1>9 DEF WriteLoop
      <3>2. ch[u] # <<>> => Tail(ch[u]) \in Seq(Nat)
        BY DEF TypeOK, ChanTypes
      <3> QED
        BY <3>1, <3>2 DEF TypeOK, ChanTypes
    <2>2. writing' \in [UI -> BOOLEAN]
      BY <1>9 DEF WriteLoop, TypeOK, ChanTypes
    <2> QED
      BY <1>9, <2>1, <2>2 DEF TypeOK, WriteLoop, HubTypes, UITypes, ChanTypes,
         ConnTypes, LinkTypes, DropTypes
  <1> QED
    BY <1>1, <1>2, <1>3, <1>4, <1>5, <1>6, <1>7, <1>8, <1>9 DEF UIStep

LEMMA ConnStepTypes ==
  ASSUME TypeOK, NEW c \in Conn, ConnStep(c)
  PROVE  TypeOK'
  <1>1. CASE ConnectRunner(c)
    <2>1. HubTypes' /\ ConnTypes'
      BY <1>1, BoundAssumption DEF TypeOK, HubTypes, ConnTypes, ConnectRunner,
         getOrCreate, Hubs
    <2>2. LinkTypes'
      BY <1>1 DEF TypeOK, LinkTypes, ConnectRunner
    <2> QED
      BY <1>1, <2>1, <2>2 DEF TypeOK, UITypes, ChanTypes, DropTypes, ConnectRunner
  <1>2. CASE AttachRunner(c)
    BY <1>2 DEF TypeOK, HubTypes, UITypes, ChanTypes, ConnTypes, LinkTypes,
       DropTypes, AttachRunner
  <1>3. CASE AskRunner(c)
    <2>1. ConnTypes'
      BY <1>3 DEF TypeOK, ConnTypes, AskRunner
    <2>2. \A d \in Conn : Append(cmds[d], TRUE) \in Seq(BOOLEAN)
      BY DEF TypeOK, LinkTypes
    <2>3. cmds' \in [Conn -> Seq(BOOLEAN)]
      <3>1. cmds' = [d \in Conn |-> IF d = old[c] THEN <<>>
                                   ELSE IF d = c /\ want[c] /\ open[c]
                                   THEN Append(cmds[d], TRUE) ELSE cmds[d]]
        BY <1>3 DEF AskRunner
      <3>2. cmds \in [Conn -> Seq(BOOLEAN)] /\ <<>> \in Seq(BOOLEAN)
        BY DEF TypeOK, LinkTypes
      <3>3. \A d \in Conn : (IF d = old[c] THEN <<>>
                             ELSE IF d = c /\ want[c] /\ open[c]
                             THEN Append(cmds[d], TRUE) ELSE cmds[d])
                            \in Seq(BOOLEAN)
        BY <2>2, <3>2, Zenon
      <3> QED
        BY <3>1, <3>3, Zenon
    <2>4. open' \in [Conn -> BOOLEAN]
      BY <1>3 DEF TypeOK, LinkTypes, AskRunner
    <2>5. tailing' \in [Conn -> BOOLEAN]
      BY <1>3 DEF TypeOK, LinkTypes, AskRunner
    <2>6. inflight' \in [Conn -> Nat] /\ sent' = sent
      BY <1>3 DEF TypeOK, LinkTypes, AskRunner
    <2>7. LinkTypes'
      BY <2>3, <2>4, <2>5, <2>6 DEF TypeOK, LinkTypes
    <2> QED
      BY <1>3, <2>1, <2>7 DEF TypeOK, HubTypes, UITypes, ChanTypes, DropTypes,
         AskRunner
  <1>4. CASE ReadChunk(c)
    <2>1. ConnTypes'
      BY <1>4 DEF TypeOK, HubTypes, ConnTypes, ReadChunk
    <2>2. LinkTypes'
      BY <1>4 DEF TypeOK, LinkTypes, ReadChunk
    <2> QED
      BY <1>4, <2>1, <2>2 DEF TypeOK, HubTypes, UITypes, ChanTypes, DropTypes,
         ReadChunk
  <1>5. CASE AppendChunk(c)
    <2>1. fan[c].hub \in Hubs
      BY <1>5 DEF TypeOK, ConnTypes, AppendChunk
    <2>2. seq' \in [Hubs -> Nat]
      BY <1>5, <2>1 DEF TypeOK, HubTypes, AppendChunk
    <2>3. fan' \in [Conn -> [hub : {NoHub} \cup Hubs, pos : Nat, todo : SUBSET UI]]
      <3>1. seq[fan[c].hub] + 1 \in Nat /\ uis[fan[c].hub] \in SUBSET UI
        BY <2>1 DEF TypeOK, HubTypes
      <3>2. fan' = [fan EXCEPT ![c] = [hub |-> fan[c].hub,
                                       pos |-> seq[fan[c].hub] + 1,
                                       todo |-> uis[fan[c].hub]]]
        BY <1>5 DEF AppendChunk
      <3> QED
        BY <2>1, <3>1, <3>2 DEF TypeOK, ConnTypes
    <2>4. ConnTypes'
      BY <1>5, <2>3 DEF TypeOK, ConnTypes, AppendChunk
    <2> QED
      BY <1>5, <2>2, <2>4 DEF TypeOK, HubTypes, UITypes, ChanTypes, LinkTypes,
         DropTypes, AppendChunk
  <1>6. ASSUME NEW u \in UI, FanOut(c, u)
        PROVE  TypeOK'
    <2>1. ChanTypes'
      <3>1. CASE Put(u, fan[c].pos) /\ queued' = [queued EXCEPT ![u] = @ \cup {fan[c].pos}]
        <4>1. fan[c].pos \in Nat
          BY DEF TypeOK, ConnTypes
        <4>2. queued' \in [UI -> SUBSET Nat]
          BY <3>1, <4>1 DEF TypeOK, ChanTypes
        <4> QED
          BY <3>1, <4>1, <4>2, PutTypes DEF TypeOK
      <3>2. CASE kick(u) \/ UNCHANGED chanVars
        BY <3>2, KickTypes DEF TypeOK, ChanTypes
      <3> QED
        BY <1>6, <3>1, <3>2 DEF FanOut
    <2>2. ConnTypes'
      <3>1. PICK todo \in SUBSET UI :
              fan' = [fan EXCEPT ![c] = [hub |-> fan[c].hub, pos |-> fan[c].pos,
                                         todo |-> todo]]
        BY <1>6 DEF TypeOK, ConnTypes, FanOut, FanTo
      <3>2. fan' \in [Conn -> [hub : {NoHub} \cup Hubs, pos : Nat, todo : SUBSET UI]]
        BY <3>1 DEF TypeOK, ConnTypes
      <3>3. \A d \in Conn : fan'[d].hub = fan[d].hub
        BY <3>1 DEF TypeOK, ConnTypes
      <3>4. cPc' = cPc \/ cPc' = [cPc EXCEPT ![c] = "panicked"]
        BY <1>6 DEF FanOut
      <3>5. UNCHANGED <<cHub, old, want>>
        BY <1>6 DEF FanOut
      <3>6. \A d \in Conn : cPc'[d] = cPc[d] \/ cPc'[d] = "panicked"
        BY <3>4 DEF TypeOK, ConnTypes
      <3>7. \A d \in Conn : cPc'[d] # "new" => cHub[d] \in Hubs
        <4>1. cPc[c] = "fan"
          BY <1>6 DEF FanOut
        <4> QED
          BY <3>4, <4>1 DEF TypeOK, ConnTypes
      <3>8. \A d \in Conn : cPc'[d] = "append" => fan'[d].hub \in Hubs
        BY <3>3, <3>6 DEF TypeOK, ConnTypes
      <3>9. cPc' \in [Conn -> {"new", "hub", "ask", "reading", "append", "fan",
                               "done", "panicked"}]
        BY <3>4 DEF TypeOK, ConnTypes
      <3>10. /\ cHub \in [Conn -> {NoHub} \cup Hubs]
             /\ old \in [Conn -> Conn \cup {Nil}]
             /\ want \in [Conn -> BOOLEAN]
        BY DEF TypeOK, ConnTypes
      <3> QED
        BY <3>2, <3>5, <3>7, <3>8, <3>9, <3>10 DEF ConnTypes
    <2> QED
      BY <1>6, <2>1, <2>2 DEF TypeOK, HubTypes, UITypes, LinkTypes, DropTypes, FanOut
  <1>7. CASE FanOutEnds(c)
    BY <1>7 DEF TypeOK, HubTypes, UITypes, ChanTypes, ConnTypes, LinkTypes,
       DropTypes, FanOutEnds
  <1>8. CASE RunnerReadFails(c)
    BY <1>8 DEF TypeOK, HubTypes, UITypes, ChanTypes, ConnTypes, LinkTypes,
       DropTypes, RunnerReadFails
  <1>9. CASE RunnerObeys(c)
    <2>1. Head(cmds[c]) \in BOOLEAN /\ Tail(cmds[c]) \in Seq(BOOLEAN)
      BY <1>9 DEF TypeOK, LinkTypes, RunnerObeys
    <2>2. cmds' \in [Conn -> Seq(BOOLEAN)]
      BY <1>9, <2>1 DEF TypeOK, LinkTypes, RunnerObeys
    <2>3. tailing' \in [Conn -> BOOLEAN]
      BY <1>9, <2>1 DEF TypeOK, LinkTypes, RunnerObeys
    <2> QED
      BY <1>9, <2>2, <2>3 DEF TypeOK, HubTypes, UITypes, ChanTypes, ConnTypes,
         LinkTypes, DropTypes, RunnerObeys
  <1>10. CASE SendChunk(c)
    <2>1. LinkTypes'
      BY <1>10 DEF TypeOK, LinkTypes, SendChunk
    <2> QED
      BY <1>10, <2>1 DEF TypeOK, HubTypes, UITypes, ChanTypes, ConnTypes, DropTypes,
         SendChunk
  <1>11. CASE LoseRunner(c)
    BY <1>11 DEF TypeOK, HubTypes, UITypes, ChanTypes, ConnTypes, LinkTypes,
       DropTypes, LoseRunner
  <1> QED
    BY <1>1, <1>2, <1>3, <1>4, <1>5, <1>6, <1>7, <1>8, <1>9, <1>10, <1>11
    DEF ConnStep

LEMMA DropStepTypes ==
  ASSUME TypeOK, DropStep
  PROVE  TypeOK'
  <1>1. CASE DropHub
    BY <1>1 DEF TypeOK, HubTypes, UITypes, ChanTypes, ConnTypes, LinkTypes,
       DropTypes, DropHub
  <1>2. CASE DropDetach
    BY <1>2 DEF TypeOK, HubTypes, UITypes, ChanTypes, ConnTypes, LinkTypes,
       DropTypes, DropDetach
  <1>3. ASSUME NEW u \in UI, DropNotify(u)
        PROVE  TypeOK'
    <2>1. ch' \in [UI -> Seq(Nat)]
      <3>1. RunEnded \in Nat
        BY BoundAssumption DEF RunEnded
      <3>2. Append(ch[u], RunEnded) \in Seq(Nat)
        BY <3>1 DEF TypeOK, ChanTypes
      <3>3. ch' = ch \/ ch' = [ch EXCEPT ![u] = Append(ch[u], RunEnded)]
                     \/ ch' = [ch EXCEPT ![u] = ch[u]]
        BY <1>3 DEF DropNotify
      <3> QED
        BY <3>2, <3>3 DEF TypeOK, ChanTypes
    <2>2. ChanTypes'
      BY <1>3, <2>1 DEF TypeOK, ChanTypes, DropNotify
    <2>3. DropTypes' /\ crashed' \in BOOLEAN
      BY <1>3 DEF TypeOK, DropTypes, DropNotify
    <2> QED
      BY <1>3, <2>2, <2>3 DEF TypeOK, HubTypes, UITypes, ConnTypes, LinkTypes,
         DropNotify
  <1>4. ASSUME NEW u \in UI, DropDrained(u)
        PROVE  TypeOK'
    BY <1>4 DEF TypeOK, HubTypes, UITypes, ChanTypes, ConnTypes, LinkTypes,
       DropTypes, DropDrained
  <1>5. CASE DropEnds
    <2>1. LinkTypes'
      BY <1>5, CloseTypes DEF TypeOK, LinkTypes, DropEnds
    <2> QED
      BY <1>5, <2>1 DEF TypeOK, HubTypes, UITypes, ChanTypes, ConnTypes, DropTypes,
         DropEnds
  <1>6. CASE EvictIdle
    BY <1>6 DEF TypeOK, HubTypes, UITypes, ChanTypes, ConnTypes, LinkTypes,
       DropTypes, EvictIdle
  <1> QED
    BY <1>1, <1>2, <1>3, <1>4, <1>5, <1>6 DEF DropStep

LEMMA NextTypes ==
  ASSUME TypeOK, [Next]_vars
  PROVE  TypeOK'
  <1>1. CASE UNCHANGED vars
    BY <1>1 DEF TypeOK, HubTypes, UITypes, ChanTypes, ConnTypes, LinkTypes,
       DropTypes, vars
  <1> QED
    BY <1>1, UIStepTypes, ConnStepTypes, DropStepTypes DEF Next

\* Every variable of the log hub keeps its type.
THEOREM TypeCorrect == Spec => []TypeOK
  BY InitTypes, NextTypes, PTL DEF Spec

-----------------------------------------------------------------------------
(* The stream and the UIs. *)

hubState == <<runnerConn, uis, streaming>>

LEMMA UIStepStream ==
  ASSUME TypeOK, StreamingIffWatched, NEW u \in UI, UIStep(u)
  PROVE  StreamingIffWatched' /\ runnerConn' = runnerConn
  <1>1. CASE AttachUI(u)
    <2>1. PICK h : h = uiHub[u]
      OBVIOUS
    <2>2. /\ uis' = [uis EXCEPT ![h] = @ \cup {u}]
          /\ streaming' = [streaming EXCEPT ![h] = @ \/
               (uis[h] = {} /\ runnerConn[h] # Nil /\ ~streaming[h])]
          /\ runnerConn' = runnerConn
      BY <1>1, <2>1 DEF AttachUI
    <2>3. StreamingIffWatched'
      BY <2>2 DEF TypeOK, HubTypes, StreamingIffWatched
    <2> QED
      BY <2>2, <2>3
  <1>2. CASE UnregisterUI(u)
    <2> DEFINE last == /\ cur # NoHub /\ uis[cur] \ {u} = {}
                       /\ runnerConn[cur] # Nil /\ streaming[cur]
    <2>1. uis' = [g \in Hubs |-> IF g = cur THEN uis[g] \ {u} ELSE uis[g]]
      BY <1>2 DEF UnregisterUI
    <2>2. streaming' = [g \in Hubs |-> streaming[g] /\ ~(g = cur /\ last)]
      BY <1>2, Zenon DEF UnregisterUI
    <2>3. runnerConn' = runnerConn
      BY <1>2 DEF UnregisterUI
    <2>4. StreamingIffWatched'
      <3> SUFFICES ASSUME NEW g \in Hubs, runnerConn[g] # Nil
                   PROVE  streaming'[g] <=> uis'[g] # {}
        BY <2>3 DEF StreamingIffWatched
      <3>1. streaming[g] <=> uis[g] # {}
        BY DEF StreamingIffWatched
      <3>2. CASE g = cur
        <4>1. uis'[g] = uis[g] \ {u} /\ (streaming'[g] <=> streaming[g] /\ ~last)
          BY <2>1, <2>2, <3>2
        <4>2. cur # NoHub
          BY <3>2 DEF Hubs
        <4>3. last <=> uis[g] \ {u} = {} /\ streaming[g]
          BY <3>2, <4>2
        <4> QED
          BY <3>1, <4>1, <4>3
      <3>3. CASE g # cur
        <4>1. uis'[g] = uis[g] /\ (streaming'[g] <=> streaming[g])
          BY <2>1, <2>2, <3>3
        <4> QED
          BY <3>1, <4>1
      <3> QED
        BY <3>2, <3>3
    <2> QED
      BY <2>3, <2>4
  <1>3. CASE ~AttachUI(u) /\ ~UnregisterUI(u)
    <2>1. UNCHANGED hubState
      BY <1>3 DEF UIStep, ConnectUI, SendSnapshot, SendStreamOn, UIReadFails,
         SendStreamOff, CloseUI, WriteLoop, hubState
    <2> QED
      BY <2>1 DEF StreamingIffWatched, hubState
  <1> QED
    BY <1>1, <1>2, <1>3

LEMMA ConnStepStream ==
  ASSUME TypeOK, StreamingIffWatched, NEW c \in Conn, ConnStep(c)
  PROVE  /\ StreamingIffWatched'
         /\ \A h \in Hubs : runnerConn[h] # Nil /\ runnerConn'[h] = Nil
                             => cPc'[runnerConn[h]] = "done"
  <1>1. CASE AttachRunner(c)
    <2>1. /\ runnerConn' = [runnerConn EXCEPT ![cHub[c]] = c]
          /\ streaming' = [streaming EXCEPT ![cHub[c]] = uis[cHub[c]] # {}]
          /\ uis' = uis
      BY <1>1 DEF AttachRunner
    <2>2. StreamingIffWatched'
      BY <2>1 DEF TypeOK, HubTypes, StreamingIffWatched
    <2>3. \A h \in Hubs : runnerConn[h] # Nil => runnerConn'[h] # Nil
      BY <2>1, NilAssumption DEF TypeOK, HubTypes
    <2> QED
      BY <2>2, <2>3
  <1>2. CASE RunnerReadFails(c)
    <2>1. /\ runnerConn' = [runnerConn EXCEPT ![cHub[c]] =
                              IF runnerConn[cHub[c]] = c THEN Nil ELSE @]
          /\ streaming' = [streaming EXCEPT ![cHub[c]] =
                              @ /\ ~(runnerConn[cHub[c]] = c)]
          /\ uis' = uis
          /\ cPc' = [cPc EXCEPT ![c] = "done"]
      BY <1>2 DEF RunnerReadFails
    <2>2. StreamingIffWatched'
      BY <2>1 DEF TypeOK, HubTypes, StreamingIffWatched
    <2>3. \A h \in Hubs : runnerConn[h] # Nil /\ runnerConn'[h] = Nil
                           => runnerConn[h] = c
      BY <2>1 DEF TypeOK, HubTypes
    <2>4. cPc'[c] = "done"
      BY <2>1 DEF TypeOK, ConnTypes
    <2> QED
      BY <2>2, <2>3, <2>4
  <1>3. CASE ~AttachRunner(c) /\ ~RunnerReadFails(c)
    <2>1. UNCHANGED hubState
      BY <1>3 DEF ConnStep, ConnectRunner, AskRunner, ReadChunk, AppendChunk,
         FanOut, FanOutEnds, RunnerObeys, SendChunk, LoseRunner, hubState
    <2> QED
      BY <2>1 DEF StreamingIffWatched, hubState
  <1> QED
    BY <1>1, <1>2, <1>3

LEMMA DropStepStream ==
  ASSUME TypeOK, StreamingIffWatched, DropStep
  PROVE  /\ StreamingIffWatched'
         /\ \A h \in Hubs : runnerConn[h] # Nil /\ runnerConn'[h] = Nil
                             => dropPc = "detach" /\ dropHub = h
  <1>1. CASE DropDetach
    <2>1. /\ runnerConn' = [runnerConn EXCEPT ![dropHub] = Nil]
          /\ uis' = [uis EXCEPT ![dropHub] = {}]
          /\ streaming' = streaming
          /\ dropPc = "detach"
      BY <1>1 DEF DropDetach
    <2>2. StreamingIffWatched'
      BY <2>1 DEF TypeOK, HubTypes, StreamingIffWatched
    <2>3. \A h \in Hubs : runnerConn[h] # Nil /\ runnerConn'[h] = Nil => dropHub = h
      BY <2>1 DEF TypeOK, HubTypes
    <2> QED
      BY <2>1, <2>2, <2>3
  <1>2. CASE ~DropDetach
    <2>1. UNCHANGED hubState
      BY <1>2 DEF DropStep, DropHub, DropNotify, DropDrained, DropEnds, EvictIdle,
         hubState
    <2> QED
      BY <2>1 DEF StreamingIffWatched, hubState
  <1> QED
    BY <1>1, <1>2

LEMMA NextStream ==
  ASSUME TypeOK, StreamingIffWatched, [Next]_vars
  PROVE  /\ StreamingIffWatched'
         /\ \A h \in Hubs : runnerConn[h] # Nil /\ runnerConn'[h] = Nil
              => cPc'[runnerConn[h]] = "done" \/ (dropPc = "detach" /\ dropHub = h)
  <1>1. CASE UNCHANGED vars
    BY <1>1 DEF StreamingIffWatched, vars
  <1> QED
    BY <1>1, UIStepStream, ConnStepStream, DropStepStream DEF Next

LEMMA InitStream == Init => StreamingIffWatched
  BY DEF Init, StreamingIffWatched

\* A connected runner has been asked for the stream exactly if a UI watches.
THEOREM StreamingFollowsUIs == Spec => []StreamingIffWatched
  <1>1. TypeOK /\ StreamingIffWatched /\ [Next]_vars => StreamingIffWatched'
    BY NextStream
  <1> QED
    BY <1>1, InitStream, TypeCorrect, PTL DEF Spec

\* A hub loses its runner only to that connection's own end or to DropRun.
THEOREM RunnersAreKept == Spec => RunnerKept
  <1>1. TypeOK /\ StreamingIffWatched /\ [Next]_vars =>
          [\A h \in Hubs : runnerConn[h] # Nil /\ runnerConn'[h] = Nil
             => cPc'[runnerConn[h]] = "done" \/ (dropPc = "detach" /\ dropHub = h)]_vars
    BY NextStream
  <1> QED
    BY <1>1, TypeCorrect, StreamingFollowsUIs, PTL DEF Spec, RunnerKept

-----------------------------------------------------------------------------
(* Each chunk once: where UIs are, what fan-outs carry, and which chunks a UI  *)
(* has been given or will be.                                                  *)

\* Where UIs are: in the list of the hub they were given, which has not lost what
\* their snapshot holds; nothing is sent to one before it attaches, and one that
\* leaves has a closed channel.
PlacesInv ==
    /\ \A h \in Hubs : \A u \in uis[h] : uiHub[u] = h /\ from[u] <= seq[h]
    /\ \A u \in UI : uiPc[u] \in {"new", "hub"} =>
         /\ queued[u] = {}
         /\ \A h \in Hubs : u \notin uis[h]
         /\ \A c \in Conn : u \notin fan[c].todo
    /\ \A u \in UI : uiPc[u] \in {"leaving", "off", "done"} => once[u] # "no"

\* Fan-outs go to UIs of their hub, and those of one hub carry different chunks.
FanInv ==
    /\ \A c \in Conn : cPc[c] \notin {"fan", "panicked"} => fan[c].todo = {}
    /\ \A c \in Conn : \A u \in fan[c].todo :
         /\ uiHub[u] = fan[c].hub
         /\ fan[c].hub \in Hubs /\ fan[c].pos <= seq[fan[c].hub]
    /\ \A c, d \in Conn : \A u \in fan[c].todo, v \in fan[d].todo :
         c # d /\ fan[c].hub = fan[d].hub => fan[c].pos # fan[d].pos

\* What UI u of hub h has been given or will be, chunk by chunk.
Complete(h, u) ==
    /\ \A n \in queued[u] : from[u] < n /\ n <= seq[h]
    /\ \A c \in Conn : u \in fan[c].todo =>
         from[u] < fan[c].pos /\ fan[c].pos <= seq[h] /\ fan[c].pos \notin queued[u]
    /\ \A n \in Nat : from[u] < n /\ n <= seq[h] =>
         n \in queued[u] \/ \E c \in Conn : u \in fan[c].todo /\ fan[c].pos = n

CompleteInv ==
    \A h \in Hubs : \A u \in uis[h] : once[u] = "no" => Complete(h, u)

GapInv == PlacesInv /\ FanInv /\ CompleteInv

-----------------------------------------------------------------------------
\* The invariant is what NoGapNoRepeat says of sets, said chunk by chunk.
LEMMA GapInvSuffices ==
  ASSUME TypeOK, GapInv
  PROVE  NoGapNoRepeat
  <1> SUFFICES ASSUME NEW h \in Hubs, NEW u \in uis[h], ~Closed(u)
               PROVE  /\ queued[u] \cup Pending(u) = (from[u] + 1)..seq[h]
                      /\ queued[u] \cap Pending(u) = {}
    BY DEF NoGapNoRepeat
  <1>1. u \in UI /\ from[u] \in Nat /\ seq[h] \in Nat /\ queued[u] \subseteq Nat
    BY DEF TypeOK, HubTypes, UITypes, ChanTypes
  <1>2. Complete(h, u)
    BY DEF GapInv, CompleteInv, Closed
  <1>3. \A n : n \in Pending(u) <=> \E c \in Conn : u \in fan[c].todo /\ fan[c].pos = n
    <2>1. \A c \in Conn : u \in fan[c].todo => fan[c].hub = uiHub[u]
      BY DEF GapInv, FanInv
    <2> QED
      BY <2>1, Zenon DEF Pending
  <1>4. \A c \in Conn : fan[c].pos \in Nat
    BY DEF TypeOK, ConnTypes
  <1>5. ASSUME NEW n \in queued[u] \cup Pending(u)
        PROVE  n \in (from[u] + 1)..seq[h]
    BY <1>1, <1>2, <1>3, <1>4, <1>5 DEF Complete
  <1>6. ASSUME NEW n \in (from[u] + 1)..seq[h]
        PROVE  n \in queued[u] \cup Pending(u)
    <2>1. n \in Nat /\ from[u] < n /\ n <= seq[h]
      BY <1>1, <1>6
    <2> QED
      BY <1>2, <1>3, <2>1 DEF Complete
  <1>7. queued[u] \cap Pending(u) = {}
    BY <1>2, <1>3 DEF Complete
  <1> QED
    BY <1>5, <1>6, <1>7

LEMMA InitGap == Init => GapInv
  <1> SUFFICES ASSUME Init PROVE GapInv
    OBVIOUS
  <1>1. PlacesInv
    BY DEF Init, PlacesInv
  <1>2. FanInv
    BY DEF Init, FanInv
  <1>3. CompleteInv
    BY DEF Init, CompleteInv
  <1> QED
    BY <1>1, <1>2, <1>3 DEF GapInv

-----------------------------------------------------------------------------
(* Steps. *)

\* Steps that leave the lists, the stream and the fan-outs alone: connections go
\* their way, and channels may close.
LEMMA QuietStep ==
  ASSUME TypeOK, GapInv,
         UNCHANGED <<uis, uiHub, from, queued, seq, fan>>,
         \A v \in UI : once[v] # "no" => once'[v] # "no",
         \A v \in UI : uiPc'[v] \in {"new", "hub"} => uiPc[v] \in {"new", "hub"},
         \A v \in UI : uiPc'[v] \in {"leaving", "off", "done"} => once'[v] # "no",
         \A c \in Conn : cPc'[c] \notin {"fan", "panicked"} => fan[c].todo = {}
  PROVE  GapInv'
  <1>1. PlacesInv'
    BY DEF GapInv, PlacesInv
  <1>2. FanInv'
    BY DEF GapInv, FanInv
  <1>3. CompleteInv'
    <2> SUFFICES ASSUME NEW h \in Hubs, NEW u \in uis[h], once'[u] = "no"
                 PROVE  Complete(h, u)'
      BY DEF CompleteInv
    <2>1. once[u] = "no"
      BY DEF TypeOK, HubTypes
    <2>2. Complete(h, u)
      BY <2>1 DEF GapInv, CompleteInv
    <2> QED
      BY <2>2 DEF Complete
  <1> QED
    BY <1>1, <1>2, <1>3 DEF GapInv

\* A UI leaves the lists of its hub, or all UIs do: what the others get is as before.
LEMMA LeavingStep ==
  ASSUME TypeOK, GapInv,
         UNCHANGED <<uiHub, seq, fan, once, cPc>>,
         \A h \in Hubs : uis'[h] \subseteq uis[h],
         \A v \in UI :
            \/ /\ uiPc'[v] = uiPc[v] /\ from'[v] = from[v] /\ queued'[v] = queued[v]
            \/ /\ uiPc'[v] \in {"off", "done"} /\ once[v] # "no" /\ from'[v] = 0
  PROVE  GapInv'
  <1>1. PlacesInv'
    <2>1. ASSUME NEW h \in Hubs, NEW u \in uis'[h]
          PROVE  uiHub'[u] = h /\ from'[u] <= seq'[h]
      <3>1. u \in uis[h] /\ u \in UI /\ seq[h] \in Nat
        BY <2>1 DEF TypeOK, HubTypes
      <3>2. uiHub[u] = h /\ from[u] <= seq[h]
        BY <3>1 DEF GapInv, PlacesInv
      <3> QED
        BY <3>1, <3>2
    <2>2. ASSUME NEW u \in UI, uiPc'[u] \in {"new", "hub"}
          PROVE  /\ queued'[u] = {} /\ \A h \in Hubs : u \notin uis'[h]
                 /\ \A c \in Conn : u \notin fan'[c].todo
      BY <2>2 DEF GapInv, PlacesInv
    <2>3. ASSUME NEW u \in UI, uiPc'[u] \in {"leaving", "off", "done"}
          PROVE  once'[u] # "no"
      BY <2>3 DEF GapInv, PlacesInv
    <2> QED
      BY <2>1, <2>2, <2>3 DEF PlacesInv
  <1>2. FanInv'
    BY DEF GapInv, FanInv
  <1>3. CompleteInv'
    <2> SUFFICES ASSUME NEW h \in Hubs, NEW u \in uis'[h], once'[u] = "no"
                 PROVE  Complete(h, u)'
      BY DEF CompleteInv
    <2>1. u \in UI /\ u \in uis[h] /\ once[u] = "no"
      BY DEF TypeOK, HubTypes
    <2>2. Complete(h, u)
      BY <2>1 DEF GapInv, CompleteInv
    <2>3. from'[u] = from[u] /\ queued'[u] = queued[u]
      BY <2>1
    <2> QED
      BY <2>2, <2>3 DEF Complete
  <1> QED
    BY <1>1, <1>2, <1>3 DEF GapInv

\* The snapshot is taken where the UI joins the list: nothing is due to it yet.
LEMMA AttachGap ==
  ASSUME TypeOK, GapInv, NEW u \in UI, AttachUI(u)
  PROVE  GapInv'
  <1> DEFINE g == uiHub[u]
  <1>1. /\ g \in Hubs /\ uiPc[u] = "hub" /\ seq[g] \in Nat
        /\ queued[u] = {} /\ \A h \in Hubs : u \notin uis[h]
        /\ \A c \in Conn : u \notin fan[c].todo
    BY DEF TypeOK, HubTypes, UITypes, AttachUI, GapInv, PlacesInv
  <1>2. /\ uis' = [uis EXCEPT ![g] = uis[g] \cup {u}]
        /\ from' = [from EXCEPT ![u] = seq[g]]
        /\ uiPc' = [uiPc EXCEPT ![u] = "snapshot"]
        /\ UNCHANGED <<uiHub, seq, queued, fan, once, cPc>>
    BY DEF AttachUI
  <1>3. ASSUME NEW h \in Hubs, NEW v \in uis'[h]
        PROVE  \/ v = u /\ h = g
               \/ v # u /\ v \in UI /\ v \in uis[h]
    <2>1. uis'[h] = IF h = g THEN uis[h] \cup {u} ELSE uis[h]
      BY <1>1, <1>2 DEF TypeOK, HubTypes
    <2>2. uis[h] \subseteq UI /\ u \notin uis[h]
      BY <1>1 DEF TypeOK, HubTypes
    <2> QED
      BY <1>3, <2>1, <2>2
  <1>4. from'[u] = seq[g] /\ \A v \in UI : v # u => from'[v] = from[v]
    BY <1>2 DEF TypeOK, UITypes
  <1>5. PlacesInv'
    <2>1. ASSUME NEW h \in Hubs, NEW v \in uis'[h]
          PROVE  uiHub'[v] = h /\ from'[v] <= seq'[h]
      <3>1. CASE v = u
        BY <1>1, <1>2, <1>3, <1>4, <3>1
      <3>2. CASE v # u
        BY <1>2, <1>3, <1>4, <2>1, <3>2 DEF GapInv, PlacesInv
      <3> QED
        BY <3>1, <3>2
    <2>2. ASSUME NEW v \in UI, uiPc'[v] \in {"new", "hub"}
          PROVE  /\ queued'[v] = {} /\ \A h \in Hubs : v \notin uis'[h]
                 /\ \A c \in Conn : v \notin fan'[c].todo
      <3>1. v # u /\ uiPc[v] \in {"new", "hub"}
        BY <1>2, <2>2 DEF TypeOK, UITypes
      <3> QED
        BY <1>2, <1>3, <3>1 DEF GapInv, PlacesInv
    <2>3. ASSUME NEW v \in UI, uiPc'[v] \in {"leaving", "off", "done"}
          PROVE  once'[v] # "no"
      BY <1>2, <2>3 DEF TypeOK, UITypes, GapInv, PlacesInv
    <2> QED
      BY <2>1, <2>2, <2>3 DEF PlacesInv
  <1>6. FanInv'
    BY <1>2 DEF GapInv, FanInv
  <1>7. CompleteInv'
    <2> SUFFICES ASSUME NEW h \in Hubs, NEW v \in uis'[h], once'[v] = "no"
                 PROVE  Complete(h, v)'
      BY DEF CompleteInv
    <2>1. CASE v = u
      <3>1. h = g /\ from'[u] = seq'[g] /\ queued'[u] = {} /\ seq'[g] \in Nat
        BY <1>1, <1>2, <1>3, <1>4, <2>1
      <3>2. \A c \in Conn : u \notin fan'[c].todo
        BY <1>1, <1>2
      <3> QED
        BY <2>1, <3>1, <3>2 DEF Complete
    <2>2. CASE v # u
      <3>1. Complete(h, v)
        BY <1>2, <1>3, <2>2 DEF GapInv, CompleteInv
      <3> QED
        BY <1>2, <1>3, <1>4, <2>2, <3>1 DEF Complete
    <2> QED
      BY <2>1, <2>2
  <1> QED
    BY <1>5, <1>6, <1>7 DEF GapInv

LEMMA UIStepGap ==
  ASSUME TypeOK, GapInv, NEW u \in UI, UIStep(u)
  PROVE  GapInv'
  <1>0. /\ uiPc \in [UI -> {"new", "hub", "snapshot", "on", "reading", "leaving",
                            "off", "done", "panicked"}]
        /\ once \in [UI -> {"no", "busy", "yes"}]
    BY DEF TypeOK, UITypes, ChanTypes
  <1>c. \A c \in Conn : cPc[c] \notin {"fan", "panicked"} => fan[c].todo = {}
    BY DEF GapInv, FanInv
  <1>p. \A v \in UI : uiPc[v] \in {"leaving", "off", "done"} => once[v] # "no"
    BY DEF GapInv, PlacesInv
  <1>k. ASSUME kick(u)
        PROVE  once'[u] # "no" /\ \A v \in UI : once[v] # "no" => once'[v] # "no"
    BY <1>k, <1>0 DEF kick
  <1>1. CASE ConnectUI(u)
    <2>1. /\ uiPc[u] = "new" /\ uiPc' = [uiPc EXCEPT ![u] = "hub"]
          /\ \A v \in UI : v # u => uiHub'[v] = uiHub[v]
          /\ UNCHANGED <<uis, from, queued, seq, fan, once, cPc>>
      BY <1>1 DEF ConnectUI, TypeOK, UITypes
    <2>2. /\ \A h \in Hubs : u \notin uis[h]
          /\ \A c \in Conn : u \notin fan[c].todo
          /\ queued[u] = {}
      BY <2>1 DEF GapInv, PlacesInv
    <2>3. /\ \A h \in Hubs : uis[h] \subseteq UI
          /\ \A c \in Conn : fan[c].todo \subseteq UI
      BY DEF TypeOK, HubTypes, ConnTypes
    <2>4. PlacesInv'
      <3>1. \A h \in Hubs : \A v \in uis[h] : uiHub'[v] = uiHub[v]
        BY <2>1, <2>2, <2>3
      <3>2. \A v \in UI : uiPc'[v] \in {"new", "hub"} => uiPc[v] \in {"new", "hub"}
        BY <1>0, <2>1
      <3>3. \A v \in UI : uiPc'[v] \in {"leaving", "off", "done"} => uiPc'[v] = uiPc[v]
        BY <1>0, <2>1
      <3> QED
        BY <2>1, <3>1, <3>2, <3>3 DEF GapInv, PlacesInv
    <2>5. FanInv'
      <3>1. \A c \in Conn : \A v \in fan[c].todo : uiHub'[v] = uiHub[v]
        BY <2>1, <2>2, <2>3
      <3> QED
        BY <2>1, <3>1 DEF GapInv, FanInv
    <2>6. CompleteInv'
      BY <2>1 DEF GapInv, CompleteInv, Complete
    <2> QED
      BY <2>4, <2>5, <2>6 DEF GapInv
  <1>2. CASE AttachUI(u)
    BY <1>2, AttachGap
  <1>3. CASE SendSnapshot(u)
    <2>1. UNCHANGED <<uis, uiHub, from, queued, seq, fan, cPc>>
      BY <1>3 DEF SendSnapshot, kick
    <2>2. \A v \in UI : once[v] # "no" => once'[v] # "no"
      BY <1>3, <1>k DEF SendSnapshot, Put
    <2>3. /\ uiPc[u] = "snapshot"
          /\ \/ uiPc' = [uiPc EXCEPT ![u] = "leaving"] /\ once'[u] # "no"
             \/ \E pc \in {"on", "reading", "panicked"} : uiPc' = [uiPc EXCEPT ![u] = pc]
      BY <1>3, <1>k DEF SendSnapshot
    <2>4. \A v \in UI : uiPc'[v] \in {"new", "hub"} => uiPc[v] \in {"new", "hub"}
      BY <1>0, <2>3
    <2>5. \A v \in UI : uiPc'[v] \in {"leaving", "off", "done"} => once'[v] # "no"
      BY <1>0, <1>p, <2>2, <2>3
    <2> QED
      BY <1>c, <2>1, <2>2, <2>4, <2>5, QuietStep
  <1>4. CASE SendStreamOn(u)
    <2>1. UNCHANGED <<uis, uiHub, from, queued, seq, fan, once, cPc>>
      BY <1>4 DEF SendStreamOn
    <2>2. uiPc' = [uiPc EXCEPT ![u] = "reading"]
      BY <1>4 DEF SendStreamOn
    <2> QED
      BY <1>0, <1>c, <1>p, <2>1, <2>2, QuietStep
  <1>5. CASE UIReadFails(u)
    <2>1. UNCHANGED <<uis, uiHub, from, queued, seq, fan, cPc>>
      BY <1>5 DEF UIReadFails, kick
    <2>2. uiPc' = [uiPc EXCEPT ![u] = "leaving"]
      BY <1>5 DEF UIReadFails
    <2>3. once'[u] # "no" /\ \A v \in UI : once[v] # "no" => once'[v] # "no"
      BY <1>5, <1>k DEF UIReadFails
    <2>4. \A v \in UI : uiPc'[v] \in {"leaving", "off", "done"} => once'[v] # "no"
      BY <1>0, <1>p, <2>2, <2>3
    <2>5. \A v \in UI : uiPc'[v] \in {"new", "hub"} => uiPc[v] \in {"new", "hub"}
      BY <1>0, <2>2
    <2> QED
      BY <1>c, <2>1, <2>3, <2>4, <2>5, QuietStep
  <1>6. CASE UnregisterUI(u)
    <2>1. /\ uis' = [g \in Hubs |-> IF g = cur THEN uis[g] \ {u} ELSE uis[g]]
          /\ from' = [from EXCEPT ![u] = 0] /\ queued' = [queued EXCEPT ![u] = {}]
          /\ uiPc[u] = "leaving"
          /\ \E pc \in {"off", "done"} : uiPc' = [uiPc EXCEPT ![u] = pc]
          /\ UNCHANGED <<uiHub, seq, fan, once, cPc>>
      BY <1>6 DEF UnregisterUI
    <2>2. \A h \in Hubs : uis'[h] \subseteq uis[h]
      BY <2>1
    <2>3. from \in [UI -> Nat] /\ queued \in [UI -> SUBSET Nat]
      BY DEF TypeOK, UITypes, ChanTypes
    <2>4. \A v \in UI :
             \/ /\ uiPc'[v] = uiPc[v] /\ from'[v] = from[v] /\ queued'[v] = queued[v]
             \/ /\ uiPc'[v] \in {"off", "done"} /\ once[v] # "no" /\ from'[v] = 0
      BY <1>0, <1>p, <2>1, <2>3
    <2> QED
      BY <2>1, <2>2, <2>4, LeavingStep
  <1>7. CASE SendStreamOff(u)
    <2>1. UNCHANGED <<uis, uiHub, from, queued, seq, fan, once, cPc>>
      BY <1>7 DEF SendStreamOff
    <2>2. uiPc[u] = "off" /\ uiPc' = [uiPc EXCEPT ![u] = "done"]
      BY <1>7 DEF SendStreamOff
    <2> QED
      BY <1>0, <1>c, <1>p, <2>1, <2>2, QuietStep
  <1>8. CASE CloseUI(u)
    BY <1>8, <1>c, <1>p, QuietStep DEF CloseUI
  <1>9. CASE WriteLoop(u)
    BY <1>9, <1>c, <1>p, QuietStep DEF WriteLoop
  <1> QED
    BY <1>1, <1>2, <1>3, <1>4, <1>5, <1>6, <1>7, <1>8, <1>9 DEF UIStep

-----------------------------------------------------------------------------
(* Steps of the runner's connections. *)

\* A chunk that joins the stream is due to exactly the UIs in the list.
LEMMA AppendGap ==
  ASSUME TypeOK, GapInv, NEW c \in Conn, AppendChunk(c)
  PROVE  GapInv'
  <1> DEFINE g == fan[c].hub
             n == seq[g] + 1
  <1>1. cPc[c] = "append" /\ g \in Hubs /\ seq[g] \in Nat /\ uis[g] \subseteq UI
    BY DEF AppendChunk, TypeOK, ConnTypes, HubTypes
  <1>2. /\ seq' = [seq EXCEPT ![g] = n]
        /\ fan' = [fan EXCEPT ![c] = [hub |-> g, pos |-> n, todo |-> uis[g]]]
        /\ cPc' = [cPc EXCEPT ![c] = "fan"]
        /\ UNCHANGED <<uis, uiHub, uiPc, from, queued, once>>
    BY DEF AppendChunk
  <1>3. /\ seq'[g] = n /\ \A h \in Hubs : h # g => seq'[h] = seq[h]
        /\ \A h \in Hubs : seq[h] \in Nat /\ seq'[h] \in Nat /\ seq[h] <= seq'[h]
    BY <1>1, <1>2 DEF TypeOK, HubTypes
  <1>4. /\ fan'[c].hub = g /\ fan'[c].pos = n /\ fan'[c].todo = uis[g]
        /\ \A d \in Conn : d # c => fan'[d] = fan[d]
    BY <1>2 DEF TypeOK, ConnTypes
  <1>5. fan[c].todo = {}
    BY <1>1 DEF GapInv, FanInv
  <1>6. /\ \A u \in UI : from[u] \in Nat /\ queued[u] \subseteq Nat
        /\ \A d \in Conn : fan[d].pos \in Nat /\ fan[d].todo \subseteq UI
        /\ \A h \in Hubs : uis[h] \subseteq UI
    BY DEF TypeOK, UITypes, ChanTypes, ConnTypes, HubTypes
  <1>7. \A h \in Hubs : \A u \in uis[h] : uiHub[u] = h /\ from[u] <= seq[h]
    BY DEF GapInv, PlacesInv
  <1>8. \A d \in Conn : \A u \in fan[d].todo :
          uiHub[u] = fan[d].hub /\ fan[d].hub \in Hubs /\ fan[d].pos <= seq[fan[d].hub]
    BY DEF GapInv, FanInv
  <1> HIDE DEF g, n
  <1>9. n \in Nat /\ n = seq[g] + 1
    BY <1>1 DEF n
  <1>10. PlacesInv'
    <2>1. \A h \in Hubs : \A u \in uis[h] : uiHub[u] = h /\ from[u] <= seq'[h]
      BY <1>3, <1>6, <1>7
    <2>2. ASSUME NEW u \in UI, uiPc[u] \in {"new", "hub"}
          PROVE  /\ queued[u] = {} /\ \A h \in Hubs : u \notin uis[h]
                 /\ \A d \in Conn : u \notin fan'[d].todo
      <3>1. /\ queued[u] = {} /\ \A h \in Hubs : u \notin uis[h]
            /\ \A d \in Conn : u \notin fan[d].todo
        BY <2>2 DEF GapInv, PlacesInv
      <3> QED
        BY <1>1, <1>4, <3>1
    <2>3. \A u \in UI : uiPc[u] \in {"leaving", "off", "done"} => once[u] # "no"
      BY DEF GapInv, PlacesInv
    <2> QED
      BY <1>2, <2>1, <2>2, <2>3 DEF PlacesInv
  <1>11. FanInv'
    <2>1. ASSUME NEW d \in Conn, cPc'[d] \notin {"fan", "panicked"}
          PROVE  fan'[d].todo = {}
      <3>1. d # c /\ cPc[d] \notin {"fan", "panicked"}
        BY <1>2, <2>1 DEF TypeOK, ConnTypes
      <3> QED
        BY <1>4, <3>1 DEF GapInv, FanInv
    <2>2. ASSUME NEW d \in Conn, NEW u \in fan'[d].todo
          PROVE  /\ uiHub[u] = fan'[d].hub
                 /\ fan'[d].hub \in Hubs /\ fan'[d].pos <= seq'[fan'[d].hub]
      <3>1. CASE d = c
        BY <1>1, <1>3, <1>4, <1>7, <1>9, <2>2, <3>1
      <3>2. CASE d # c
        <4>1. u \in fan[d].todo /\ fan'[d] = fan[d]
          BY <1>4, <2>2, <3>2
        <4>2. uiHub[u] = fan[d].hub /\ fan[d].hub \in Hubs /\ fan[d].pos <= seq[fan[d].hub]
          BY <1>8, <4>1
        <4> QED
          BY <1>3, <1>6, <4>1, <4>2
      <3> QED
        BY <3>1, <3>2
    <2>3. ASSUME NEW d \in Conn, NEW e \in Conn, NEW u \in fan'[d].todo,
                 NEW v \in fan'[e].todo, d # e, fan'[d].hub = fan'[e].hub
          PROVE  fan'[d].pos # fan'[e].pos
      <3>1. CASE d # c /\ e # c
        <4>1. fan'[d] = fan[d] /\ fan'[e] = fan[e]
          BY <1>4, <3>1
        <4> QED
          BY <2>3, <4>1 DEF GapInv, FanInv
      <3>2. CASE d = c
        <4>1. fan'[e] = fan[e] /\ v \in fan[e].todo /\ fan[e].hub = g
          BY <1>4, <2>3, <3>2
        <4>2. fan[e].pos <= seq[g] /\ fan[e].pos \in Nat
          BY <1>6, <1>8, <4>1
        <4> QED
          BY <1>1, <1>4, <1>9, <3>2, <4>1, <4>2
      <3>3. CASE e = c
        <4>1. fan'[d] = fan[d] /\ u \in fan[d].todo /\ fan[d].hub = g
          BY <1>4, <2>3, <3>3
        <4>2. fan[d].pos <= seq[g] /\ fan[d].pos \in Nat
          BY <1>6, <1>8, <4>1
        <4> QED
          BY <1>1, <1>4, <1>9, <3>3, <4>1, <4>2
      <3> QED
        BY <3>1, <3>2, <3>3
    <2> QED
      BY <1>2, <2>1, <2>2, <2>3 DEF FanInv
  <1>12. CompleteInv'
    <2> SUFFICES ASSUME NEW h \in Hubs, NEW u \in uis[h], once[u] = "no"
                 PROVE  Complete(h, u)'
      BY <1>2 DEF CompleteInv
    <2>1. Complete(h, u)
      BY DEF GapInv, CompleteInv
    <2>2. u \in UI /\ uiHub[u] = h /\ from[u] \in Nat /\ from[u] <= seq[h]
      BY <1>6, <1>7
    <2>3. \A d \in Conn : d # c => (u \in fan'[d].todo <=> u \in fan[d].todo)
                                   /\ fan'[d].pos = fan[d].pos
      BY <1>4
    <2>4. CASE h # g
      <3>1. seq'[h] = seq[h]
        BY <1>3, <2>4
      <3>2. u \notin fan'[c].todo
        BY <1>1, <1>4, <1>7, <2>2, <2>4
      <3>3. \A d \in Conn : u \in fan'[d].todo => d # c /\ u \in fan[d].todo
                                                  /\ fan'[d].pos = fan[d].pos
        BY <2>3, <3>2
      <3>4. \A d \in Conn : u \in fan[d].todo => u \in fan'[d].todo
                                                 /\ fan'[d].pos = fan[d].pos
        BY <1>5, <2>3
      <3>5. \A k \in Nat : from[u] < k /\ k <= seq'[h] =>
              k \in queued[u] \/ \E d \in Conn : u \in fan'[d].todo /\ fan'[d].pos = k
        BY <2>1, <3>1, <3>4 DEF Complete
      <3> QED
        BY <1>2, <2>1, <3>1, <3>3, <3>5 DEF Complete
    <2>5. CASE h = g
      <3>1. seq'[h] = n /\ n = seq[h] + 1 /\ seq[h] \in Nat
        BY <1>1, <1>3, <1>9, <2>5
      <3>2. u \in fan'[c].todo /\ fan'[c].pos = n
        BY <1>4, <2>5
      <3>3. \A k \in queued[u] : k \in Nat /\ from[u] < k /\ k <= seq[h]
        BY <1>6, <2>1, <2>2 DEF Complete
      <3>4. ASSUME NEW d \in Conn, u \in fan'[d].todo
            PROVE  /\ from[u] < fan'[d].pos /\ fan'[d].pos <= seq'[h]
                   /\ fan'[d].pos \notin queued[u]
        <4>1. CASE d = c
          <5>1. n \notin queued[u]
            BY <3>1, <3>3
          <5> QED
            BY <2>2, <3>1, <3>2, <4>1, <5>1
        <4>2. CASE d # c
          <5>1. u \in fan[d].todo /\ fan'[d].pos = fan[d].pos /\ fan[d].pos \in Nat
            BY <1>6, <2>3, <3>4, <4>2
          <5>2. /\ from[u] < fan[d].pos /\ fan[d].pos <= seq[h]
                /\ fan[d].pos \notin queued[u]
            BY <2>1, <5>1 DEF Complete
          <5> QED
            BY <3>1, <5>1, <5>2
        <4> QED
          BY <4>1, <4>2
      <3>5. ASSUME NEW k \in Nat, from[u] < k, k <= seq'[h]
            PROVE  k \in queued[u] \/ \E d \in Conn : u \in fan'[d].todo /\ fan'[d].pos = k
        <4>1. CASE k = n
          BY <3>2, <4>1
        <4>2. CASE k # n
          <5>1. k <= seq[h]
            BY <3>1, <3>5, <4>2
          <5>2. k \in queued[u] \/ \E d \in Conn : u \in fan[d].todo /\ fan[d].pos = k
            BY <2>1, <3>5, <5>1 DEF Complete
          <5>3. \A d \in Conn : u \in fan[d].todo => d # c
            BY <1>5
          <5> QED
            BY <2>3, <5>2, <5>3
        <4> QED
          BY <4>1, <4>2
      <3>6. \A k \in queued[u] : from[u] < k /\ k <= seq'[h]
        BY <2>2, <3>1, <3>3
      <3> QED
        BY <1>2, <3>4, <3>5, <3>6 DEF Complete
    <2> QED
      BY <2>4, <2>5
  <1> QED
    BY <1>10, <1>11, <1>12 DEF GapInv

\* One send of a fan-out hands the chunk over from the fan-out to the channel, or
\* closes the channel.
LEMMA FanOutGap ==
  ASSUME TypeOK, GapInv, NEW c \in Conn, NEW u \in UI, FanOut(c, u)
  PROVE  GapInv'
  <1> DEFINE n == fan[c].pos
  <1>1. u \in fan[c].todo /\ cPc[c] = "fan" /\ n \in Nat
    BY DEF FanOut, TypeOK, ConnTypes
  <1>2. UNCHANGED <<uis, uiHub, uiPc, from, seq>>
    BY DEF FanOut
  <1>3. /\ \A v \in UI : from[v] \in Nat /\ queued[v] \subseteq Nat
        /\ \A d \in Conn : fan[d].pos \in Nat /\ fan[d].todo \subseteq UI
        /\ \A h \in Hubs : uis[h] \subseteq UI /\ seq[h] \in Nat
        /\ once \in [UI -> {"no", "busy", "yes"}]
        /\ queued \in [UI -> SUBSET Nat]
    BY DEF TypeOK, UITypes, ChanTypes, ConnTypes, HubTypes
  <1>4. CASE Closed(u)
    <2>1. cPc' = [cPc EXCEPT ![c] = "panicked"] /\ UNCHANGED <<fan, once, queued>>
      BY <1>4 DEF FanOut, Room
    <2>2. \A d \in Conn : cPc'[d] \notin {"fan", "panicked"} => fan[d].todo = {}
      BY <2>1 DEF TypeOK, ConnTypes, GapInv, FanInv
    <2>3. \A v \in UI : uiPc[v] \in {"leaving", "off", "done"} => once[v] # "no"
      BY DEF GapInv, PlacesInv
    <2> QED
      BY <1>2, <2>1, <2>2, <2>3, QuietStep
  <1>5. CASE ~Closed(u)
    <2>1. /\ fan' = [fan EXCEPT ![c] = [hub |-> fan[c].hub, pos |-> n,
                                        todo |-> fan[c].todo \ {u}]]
          /\ cPc' = cPc
      BY <1>5 DEF FanOut, FanTo
    <2>2. \/ queued' = [queued EXCEPT ![u] = queued[u] \cup {n}] /\ once' = once
          \/ queued' = queued /\ once' = [once EXCEPT ![u] = "yes"]
      BY <1>5 DEF FanOut, Put, kick
    <2>3. /\ \A v \in UI : v # u => queued'[v] = queued[v] /\ once'[v] = once[v]
          /\ \A v \in UI : once[v] # "no" => once'[v] # "no"
          /\ once'[u] = "no" => queued'[u] = queued[u] \cup {n}
      BY <1>3, <2>2
    <2>4. /\ fan'[c].hub = fan[c].hub /\ fan'[c].pos = n
          /\ fan'[c].todo = fan[c].todo \ {u}
          /\ \A d \in Conn : d # c => fan'[d] = fan[d]
      BY <2>1 DEF TypeOK, ConnTypes
    <2>5. /\ \A d \in Conn : fan'[d].hub = fan[d].hub /\ fan'[d].pos = fan[d].pos
          /\ \A d \in Conn : fan'[d].todo \subseteq fan[d].todo
          /\ \A d \in Conn : \A v \in fan[d].todo : v \in fan'[d].todo \/ (d = c /\ v = u)
          /\ u \notin fan'[c].todo
      BY <2>4
    <2> HIDE DEF n
    <2>6. PlacesInv'
      <3>1. ASSUME NEW v \in UI, uiPc[v] \in {"new", "hub"}
            PROVE  /\ queued'[v] = {} /\ \A h \in Hubs : v \notin uis[h]
                   /\ \A d \in Conn : v \notin fan'[d].todo
        <4>1. /\ queued[v] = {} /\ \A h \in Hubs : v \notin uis[h]
              /\ \A d \in Conn : v \notin fan[d].todo
          BY <3>1 DEF GapInv, PlacesInv
        <4>2. v # u
          BY <1>1, <4>1
        <4> QED
          BY <2>3, <2>5, <4>1, <4>2
      <3>2. \A v \in UI : uiPc[v] \in {"leaving", "off", "done"} => once'[v] # "no"
        BY <2>3 DEF GapInv, PlacesInv
      <3>3. \A h \in Hubs : \A v \in uis[h] : uiHub[v] = h /\ from[v] <= seq[h]
        BY DEF GapInv, PlacesInv
      <3> QED
        BY <1>2, <3>1, <3>2, <3>3 DEF PlacesInv
    <2>7. FanInv'
      <3>1. \A d \in Conn : cPc'[d] \notin {"fan", "panicked"} => fan'[d].todo = {}
        BY <2>1, <2>5 DEF GapInv, FanInv
      <3>2. \A d \in Conn : \A v \in fan'[d].todo :
              uiHub'[v] = fan'[d].hub /\ fan'[d].hub \in Hubs
              /\ fan'[d].pos <= seq'[fan'[d].hub]
        BY <1>2, <2>5 DEF GapInv, FanInv
      <3>3. \A d, e \in Conn : \A v \in fan'[d].todo, w \in fan'[e].todo :
              d # e /\ fan'[d].hub = fan'[e].hub => fan'[d].pos # fan'[e].pos
        BY <2>5 DEF GapInv, FanInv
      <3> QED
        BY <3>1, <3>2, <3>3 DEF FanInv
    <2>8. CompleteInv'
      <3> SUFFICES ASSUME NEW h \in Hubs, NEW v \in uis[h], once'[v] = "no"
                   PROVE  Complete(h, v)'
        BY <1>2 DEF CompleteInv
      <3>1. v \in UI
        BY <1>3
      <3>2. Complete(h, v)
        BY <2>3, <3>1 DEF GapInv, CompleteInv
      <3>3. CASE v # u
        <4>1. queued'[v] = queued[v]
          BY <2>3, <3>1, <3>3
        <4>2. \A d \in Conn : v \in fan'[d].todo <=> v \in fan[d].todo
          BY <2>5, <3>3
        <4> QED
          BY <1>2, <2>5, <3>2, <4>1, <4>2 DEF Complete
      <3>4. CASE v = u
        <4>1. queued'[u] = queued[u] \cup {n} /\ n = fan[c].pos
          BY <2>3, <3>4 DEF n
        <4>2. from[u] < n /\ n <= seq[h]
          BY <1>1, <3>2, <3>4, <4>1 DEF Complete
        <4>3. ASSUME NEW d \in Conn, u \in fan'[d].todo
              PROVE  /\ from[u] < fan'[d].pos /\ fan'[d].pos <= seq[h]
                     /\ fan'[d].pos \notin queued'[u]
          <5>1. d # c /\ u \in fan[d].todo /\ fan'[d].pos = fan[d].pos
            BY <2>5, <4>3
          <5>2. fan[d].hub = fan[c].hub
            BY <1>1, <5>1 DEF GapInv, FanInv
          <5>3. fan[d].pos # n
            BY <1>1, <4>1, <5>1, <5>2 DEF GapInv, FanInv
          <5> QED
            BY <3>2, <3>4, <4>1, <5>1, <5>3 DEF Complete
        <4>4. ASSUME NEW k \in Nat, from[u] < k, k <= seq[h]
              PROVE  k \in queued'[u] \/ \E d \in Conn : u \in fan'[d].todo /\ fan'[d].pos = k
          <5>1. k \in queued[u] \/ \E d \in Conn : u \in fan[d].todo /\ fan[d].pos = k
            BY <3>2, <3>4, <4>4 DEF Complete
          <5>2. CASE k \in queued[u]
            BY <4>1, <5>2
          <5>3. ASSUME NEW d \in Conn, u \in fan[d].todo, fan[d].pos = k
                PROVE  k \in queued'[u] \/ \E e \in Conn : u \in fan'[e].todo /\ fan'[e].pos = k
            <6>1. CASE d = c
              BY <4>1, <5>3, <6>1
            <6>2. CASE d # c
              BY <2>5, <5>3, <6>2
            <6> QED
              BY <6>1, <6>2
          <5> QED
            BY <5>1, <5>2, <5>3
        <4>5. \A k \in queued'[u] : from[u] < k /\ k <= seq[h]
          BY <3>2, <3>4, <4>1, <4>2 DEF Complete
        <4> QED
          BY <1>2, <3>4, <4>3, <4>4, <4>5 DEF Complete
      <3> QED
        BY <3>3, <3>4
    <2> QED
      BY <2>6, <2>7, <2>8 DEF GapInv
  <1> QED
    BY <1>4, <1>5

\* A fan-out that holds nothing begins or ends.
LEMMA IdleFanGap ==
  ASSUME TypeOK, GapInv, NEW c \in Conn, fan[c].todo = {},
         NEW record, record.todo = {}, fan' = [fan EXCEPT ![c] = record],
         UNCHANGED <<uis, uiHub, uiPc, from, queued, seq, once>>,
         \A d \in Conn : d # c => cPc'[d] = cPc[d]
  PROVE  GapInv'
  <1>1. fan'[c].todo = {} /\ \A d \in Conn : d # c => fan'[d] = fan[d]
    BY DEF TypeOK, ConnTypes
  <1>2. \A d \in Conn : fan'[d].todo = fan[d].todo
    BY <1>1
  <1>3. \A d \in Conn : fan[d].todo # {} => fan'[d] = fan[d]
    BY <1>1
  <1>4. PlacesInv'
    BY <1>2 DEF GapInv, PlacesInv
  <1>5. FanInv'
    <2>1. \A d \in Conn : cPc'[d] \notin {"fan", "panicked"} => fan'[d].todo = {}
      BY <1>1 DEF GapInv, FanInv
    <2>2. \A d \in Conn : \A v \in fan'[d].todo :
            uiHub'[v] = fan'[d].hub /\ fan'[d].hub \in Hubs
            /\ fan'[d].pos <= seq'[fan'[d].hub]
      BY <1>2, <1>3 DEF GapInv, FanInv
    <2>3. \A d, e \in Conn : \A v \in fan'[d].todo, w \in fan'[e].todo :
            d # e /\ fan'[d].hub = fan'[e].hub => fan'[d].pos # fan'[e].pos
      BY <1>2, <1>3 DEF GapInv, FanInv
    <2> QED
      BY <2>1, <2>2, <2>3 DEF FanInv
  <1>6. CompleteInv'
    <2> SUFFICES ASSUME NEW h \in Hubs, NEW v \in uis[h], once[v] = "no"
                 PROVE  Complete(h, v)'
      BY DEF CompleteInv
    <2>1. Complete(h, v)
      BY DEF GapInv, CompleteInv
    <2>2. \A d \in Conn : /\ v \in fan'[d].todo <=> v \in fan[d].todo
                          /\ v \in fan[d].todo => fan'[d].pos = fan[d].pos
      BY <1>2, <1>3
    <2> QED
      BY <2>1, <2>2 DEF Complete
  <1> QED
    BY <1>4, <1>5, <1>6 DEF GapInv

LEMMA ConnStepGap ==
  ASSUME TypeOK, GapInv, NEW c \in Conn, ConnStep(c)
  PROVE  GapInv'
  <1>1. cPc \in [Conn -> {"new", "hub", "ask", "reading", "append", "fan",
                          "done", "panicked"}]
    BY DEF TypeOK, ConnTypes
  <1>2. \A d \in Conn : cPc[d] \notin {"fan", "panicked"} => fan[d].todo = {}
    BY DEF GapInv, FanInv
  <1>3. \A v \in UI : uiPc[v] \in {"leaving", "off", "done"} => once[v] # "no"
    BY DEF GapInv, PlacesInv
  <1>4. CASE \/ ConnectRunner(c) \/ AttachRunner(c) \/ AskRunner(c)
             \/ RunnerReadFails(c) \/ RunnerObeys(c) \/ SendChunk(c) \/ LoseRunner(c)
    <2>1. UNCHANGED <<uis, uiHub, uiPc, from, queued, seq, fan, once>>
      BY <1>4 DEF ConnectRunner, AttachRunner, AskRunner, RunnerReadFails,
         RunnerObeys, SendChunk, LoseRunner
    <2>2. \/ cPc' = cPc
          \/ /\ cPc[c] \in {"new", "hub", "ask", "reading"}
             /\ \E pc \in {"hub", "ask", "reading", "done"} : cPc' = [cPc EXCEPT ![c] = pc]
      BY <1>4 DEF ConnectRunner, AttachRunner, AskRunner, RunnerReadFails,
         RunnerObeys, SendChunk, LoseRunner
    <2>3. \A d \in Conn : cPc'[d] \notin {"fan", "panicked"} => fan[d].todo = {}
      BY <1>1, <1>2, <2>2
    <2> QED
      BY <1>3, <2>1, <2>3, QuietStep
  <1>5. CASE ReadChunk(c)
    <2>1. /\ fan' = [fan EXCEPT ![c] = [hub |-> cur, pos |-> 0, todo |-> {}]]
          /\ cPc[c] = "reading"
          /\ UNCHANGED <<uis, uiHub, uiPc, from, queued, seq, once>>
          /\ \E pc \in {"reading", "append"} : cPc' = [cPc EXCEPT ![c] = pc]
      BY <1>5 DEF ReadChunk
    <2>2. \A d \in Conn : d # c => cPc'[d] = cPc[d]
      BY <1>1, <2>1
    <2>3. fan[c].todo = {}
      BY <1>2, <2>1
    <2> QED
      BY <2>1, <2>2, <2>3, IdleFanGap
  <1>6. CASE FanOutEnds(c)
    <2>1. /\ fan' = [fan EXCEPT ![c] = NoFan] /\ fan[c].todo = {}
          /\ UNCHANGED <<uis, uiHub, uiPc, from, queued, seq, once>>
          /\ cPc' = [cPc EXCEPT ![c] = "reading"]
      BY <1>6 DEF FanOutEnds
    <2>2. \A d \in Conn : d # c => cPc'[d] = cPc[d]
      BY <1>1, <2>1
    <2> QED
      BY <2>1, <2>2, IdleFanGap
  <1> QED
    BY <1>4, <1>5, <1>6, AppendGap, FanOutGap DEF ConnStep

-----------------------------------------------------------------------------
(* DropRun and EvictIdle. *)

LEMMA DropStepGap ==
  ASSUME TypeOK, GapInv, DropStep
  PROVE  GapInv'
  <1>1. \A d \in Conn : cPc[d] \notin {"fan", "panicked"} => fan[d].todo = {}
    BY DEF GapInv, FanInv
  <1>2. \A v \in UI : uiPc[v] \in {"leaving", "off", "done"} => once[v] # "no"
    BY DEF GapInv, PlacesInv
  <1>3. CASE DropDetach
    <2>1. /\ uis' = [uis EXCEPT ![dropHub] = {}]
          /\ UNCHANGED <<uiHub, uiPc, from, queued, seq, fan, once, cPc>>
      BY <1>3 DEF DropDetach
    <2>2. \A h \in Hubs : uis'[h] \subseteq uis[h]
      BY <2>1 DEF TypeOK, HubTypes
    <2> QED
      BY <2>1, <2>2, LeavingStep
  <1>4. ASSUME NEW u \in UI, DropNotify(u) \/ DropDrained(u)
        PROVE  GapInv'
    <2>1. UNCHANGED <<uis, uiHub, uiPc, from, queued, seq, fan, cPc>>
      BY <1>4 DEF DropNotify, DropDrained
    <2>2. once' = once \/ \E o \in {"busy", "yes"} : once' = [once EXCEPT ![u] = o]
      BY <1>4 DEF DropNotify, DropDrained
    <2>3. \A v \in UI : once[v] # "no" => once'[v] # "no"
      BY <2>2 DEF TypeOK, ChanTypes
    <2> QED
      BY <1>1, <1>2, <2>1, <2>3, QuietStep
  <1>5. CASE DropHub \/ DropEnds \/ EvictIdle
    <2>1. UNCHANGED <<uis, uiHub, uiPc, from, queued, seq, fan, once, cPc>>
      BY <1>5 DEF DropHub, DropEnds, EvictIdle
    <2> QED
      BY <1>1, <1>2, <2>1, QuietStep
  <1> QED
    BY <1>3, <1>4, <1>5 DEF DropStep

LEMMA NextGap ==
  ASSUME TypeOK, GapInv, [Next]_vars
  PROVE  GapInv'
  <1>1. CASE UNCHANGED vars
    <2>1. UNCHANGED <<uis, uiHub, uiPc, from, queued, seq, fan, once, cPc>>
      BY <1>1 DEF vars
    <2>2. \A d \in Conn : cPc[d] \notin {"fan", "panicked"} => fan[d].todo = {}
      BY DEF GapInv, FanInv
    <2>3. \A v \in UI : uiPc[v] \in {"leaving", "off", "done"} => once[v] # "no"
      BY DEF GapInv, PlacesInv
    <2> QED
      BY <2>1, <2>2, <2>3, QuietStep
  <1> QED
    BY <1>1, UIStepGap, ConnStepGap, DropStepGap DEF Next

\* Of the chunks that follow its snapshot, a UI whose channel is open has been
\* given each once or is about to be, after every step of RegisterUI, DropRun,
\* appendAndFanOut and the others.
THEOREM ChunksComeOnce == Spec => []NoGapNoRepeat
  <1>1. Spec => []GapInv
    BY InitGap, NextGap, TypeCorrect, PTL DEF Spec
  <1>2. TypeOK /\ GapInv => NoGapNoRepeat
    BY GapInvSuffices
  <1> QED
    BY <1>1, <1>2, TypeCorrect, PTL

=============================================================================
