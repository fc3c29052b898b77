----------------------------- MODULE LiveRun_proofs -----------------------------
(***************************************************************************)
(* The log panel of a live run, for any log, any caps and any number of    *)
(* starts, stops and reconnects: it holds one socket at most, its text has *)
(* no gap, it says when the beginning of the log is missing, and the lines *)
(* are those of the text.                                                  *)
(*                                                                         *)
(* The page of a run settles on the run's files, and a tile pops once, for *)
(* a run of any number of tests.                                           *)
(***************************************************************************)
EXTENDS LiveLog, RunSource, SequenceTheorems, WellFoundedInduction, TLAPS

-----------------------------------------------------------------------------
(* The socket. *)

\* Why connect() may open a socket after its await: the generation it was called
\* for waits only while there is no socket, unless the stream has been stopped
\* or started anew, which the check after the await finds out.
SocketInv ==
    /\ gen \in Nat /\ awaiting \subseteq Nat
    /\ \A g \in awaiting : g <= gen
    /\ sock \in {"none", "dialing", "open", "timer"}
    /\ alive = IF sock \in {"dialing", "open"} THEN 1 ELSE 0
    /\ panel \in [stopped : BOOLEAN, countdown : BOOLEAN, idle : BOOLEAN]
    /\ panel.stopped => sock = "none"
    /\ (gen \in awaiting /\ ~panel.stopped) => sock = "none"

LEMMA InitSocketInv == LiveInit => SocketInv
  BY DEF LiveInit, SocketInv

\* A stop closes the socket that is open or being opened.
LEMMA StopCloses ==
  ASSUME SocketInv, NEW c \in BOOLEAN, Stop(c)
  PROVE  SocketInv'
  <1>1. /\ panel' = [panel EXCEPT !.stopped = TRUE, !.countdown = c]
        /\ sock' = "none" /\ gen' = gen /\ awaiting' = awaiting
        /\ alive' = IF sock \in {"dialing", "open"} THEN alive - 1 ELSE alive
    BY DEF Stop, CleanupEffect
  <1>2. alive' = 0
    BY <1>1 DEF SocketInv
  <1>3. /\ panel' \in [stopped : BOOLEAN, countdown : BOOLEAN, idle : BOOLEAN]
        /\ panel'.stopped
    BY <1>1 DEF SocketInv
  <1> QED
    BY <1>1, <1>2, <1>3 DEF SocketInv

\* Only the last generation of a stream that is on opens a socket.
LEMMA ConnectOpensOne ==
  ASSUME SocketInv, NEW g \in awaiting, Connect(g)
  PROVE  SocketInv'
  <1>1. awaiting' = awaiting \ {g} /\ gen' = gen /\ panel' = panel
    BY DEF Connect
  <1>2. CASE MayConnect(g)
    <2>1. sock = "none" /\ alive = 0 /\ g = gen /\ ~panel.stopped
      BY <1>2 DEF MayConnect, SocketInv
    <2>2. sock' = "dialing" /\ alive' = 1
      BY <1>2, <2>1 DEF Connect
    <2> QED
      BY <1>1, <2>1, <2>2 DEF SocketInv
  <1>3. CASE ~MayConnect(g)
    <2>1. sock' = sock /\ alive' = alive
      BY <1>3 DEF Connect
    <2> QED
      BY <1>1, <2>1 DEF SocketInv
  <1> QED
    BY <1>2, <1>3

\* A new generation awaits its configuration while there is no socket.
LEMMA ResumeAwaits ==
  ASSUME SocketInv, ResumeStream
  PROVE  SocketInv'
  <1>1. /\ panel.stopped /\ sock = "none" /\ alive = 0
        /\ panel' = [panel EXCEPT !.stopped = FALSE, !.countdown = FALSE, !.idle = FALSE]
        /\ gen' = gen + 1 /\ awaiting' = awaiting \cup {gen + 1}
        /\ sock' = sock /\ alive' = alive
    BY DEF ResumeStream, StartEffect, SocketInv
  <1>2. panel' \in [stopped : BOOLEAN, countdown : BOOLEAN, idle : BOOLEAN]
    BY <1>1 DEF SocketInv
  <1>3. \A g \in awaiting' : g <= gen'
    BY <1>1 DEF SocketInv
  <1> QED
    BY <1>1, <1>2, <1>3 DEF SocketInv

LEMMA SocketStep == SocketInv /\ [LiveNext]_liveVars => SocketInv'
  <1> SUFFICES ASSUME SocketInv, [LiveNext]_liveVars
               PROVE  SocketInv'
    OBVIOUS
  <1> USE DEF hookVars
  <1>1. CASE UNCHANGED <<hookVars, panel>>
    BY <1>1 DEF SocketInv
  <1>2. CASE Produce \/ SendSnapshot \/ DropRun \/ Receive \/ Flush \/ TrackLines
    BY <1>1, <1>2 DEF Produce, SendSnapshot, DropRun, Receive, Flush, TrackLines
  <1>3. CASE \E g \in awaiting : Connect(g)
    BY <1>3, ConnectOpensOne
  <1>4. CASE Open
    BY <1>4 DEF Open, SocketInv
  <1>5. CASE Close
    BY <1>5 DEF Close, SocketInv
  <1>6. CASE Reconnect
    BY <1>6 DEF Reconnect, SocketInv
  <1>7. CASE StopStream
    BY <1>7, StopCloses DEF StopStream
  <1>8. CASE ResumeStream
    BY <1>8, ResumeAwaits
  <1>9. CASE Interact
    <2>1. panel' \in [stopped : BOOLEAN, countdown : BOOLEAN, idle : BOOLEAN]
          /\ panel'.stopped = panel.stopped /\ UNCHANGED hookVars
      BY <1>9 DEF Interact, SocketInv
    <2> QED
      BY <2>1 DEF SocketInv
  <1>10. CASE InactivityTick
    <2>1. CASE Stop(TRUE)
      BY <2>1, StopCloses
    <2>2. CASE panel' = [panel EXCEPT !.countdown = panel.idle] /\ UNCHANGED hookVars
      <3>1. panel' \in [stopped : BOOLEAN, countdown : BOOLEAN, idle : BOOLEAN]
            /\ panel'.stopped = panel.stopped
        BY <2>2 DEF SocketInv
      <3> QED
        BY <2>2, <3>1 DEF SocketInv
    <2> QED
      BY <1>10, <2>1, <2>2 DEF InactivityTick
  <1>11. CASE UNCHANGED liveVars
    BY <1>1, <1>11 DEF liveVars
  <1> QED
    BY <1>2, <1>3, <1>4, <1>5, <1>6, <1>7, <1>8, <1>9, <1>10, <1>11 DEF LiveNext

\* However the stream is stopped, resumed and cut, and however long connect()
\* waits for the configuration, the hook holds one socket at most, and none when
\* it is off (useLiveRunLogsWS.ts connect() and the cleanup of its effect).
THEOREM OneSocketHeld == LiveSpec => []OneSocket
  <1>1. SocketInv => OneSocket
    BY DEF SocketInv, OneSocket
  <1> QED
    BY <1>1, InitSocketInv, SocketStep, PTL DEF LiveSpec

-----------------------------------------------------------------------------
(* Texts. *)

Consecutive(t) == \A i \in 1..(Len(t) - 1) : t[i + 1] = t[i] + 1

\* A text without gaps that says so when its beginning is missing.
Honest(t, cut) == Consecutive(t) /\ (t # <<>> /\ t[1] > 1 => cut)

\* Character n goes on from t.
Follows(n, t, cut) == IF t = <<>> THEN n = 1 \/ cut ELSE n = t[Len(t)] + 1

\* What comes off the wire w first, or is logged next, goes on from t.
WireGoesOn(w, t, cut) ==
    IF w = <<>> THEN ~hub.over => Follows(hub.last + 1, t, cut)
    ELSE w[1].type = "log" => Follows(w[1].at, t, cut)

CutOf(p) == IF p.snap = NoSnap THEN truncated ELSE p.snap.cut
HonestPend(p) == Honest(Flushed(p), CutOf(p))

Snapshot == [text : Seq(Nat), cut : BOOLEAN]
Pend == [snap : Snapshot, text : Seq(Nat), ended : BOOLEAN]
Message == [type : {"log"}, at : Nat] \cup [type : {"snapshot"}, snap : Snapshot]
             \cup [type : {"run_ended"}]

LEMMA LeastOf ==
  ASSUME NEW S, S \subseteq Nat, S # {}
  PROVE  Min(S) \in S
  <1> DEFINE R == OpToRel(<, Nat)
  <1>1. IsWellFoundedOn(R, Nat)
    BY NatLessThanWellFounded
  <1>2. \A x, y \in Nat : y < x => <<y, x>> \in R
    BY DEF OpToRel
  <1> HIDE DEF R
  <1>3. \E x \in S : \A y \in S : ~(<<y, x>> \in R)
    BY <1>1, WFMin
  <1>4. PICK x \in S : \A y \in S : ~(<<y, x>> \in R)
    BY <1>3
  <1>5. \A y \in S : ~(y < x)
    BY <1>2, <1>4
  <1>6. \A y \in S : x =< y
    BY <1>5
  <1> QED
    BY <1>6 DEF Min

\* A character that goes on from a text keeps it honest.
LEMMA AppendHonest ==
  ASSUME NEW t \in Seq(Nat), NEW cut \in BOOLEAN, NEW n \in Nat,
         Honest(t, cut), Follows(n, t, cut)
  PROVE  Honest(Append(t, n), cut) /\ Follows(n + 1, Append(t, n), cut)
  <1> DEFINE u == Append(t, n)
  <1>1. /\ u \in Seq(Nat) /\ Len(u) = Len(t) + 1 /\ Len(t) \in Nat
        /\ \A i \in 1..Len(t) : u[i] = t[i]
        /\ u[Len(t) + 1] = n
    OBVIOUS
  <1>2. u # <<>>
    BY <1>1
  <1>3. Consecutive(u)
    <2> SUFFICES ASSUME NEW i \in 1..(Len(u) - 1)
                 PROVE  u[i + 1] = u[i] + 1
      BY DEF Consecutive
    <2>1. CASE i = Len(t)
      <3>1. t # <<>> /\ n = t[Len(t)] + 1
        BY <2>1 DEF Follows
      <3> QED
        BY <1>1, <2>1, <3>1
    <2>2. CASE i < Len(t)
      BY <1>1, <2>2 DEF Honest, Consecutive
    <2> QED
      BY <1>1, <2>1, <2>2
  <1>4. u[1] > 1 => cut
    <2>1. CASE t = <<>>
      BY <1>1, <2>1 DEF Follows
    <2>2. CASE t # <<>>
      BY <1>1, <2>2 DEF Honest
    <2> QED
      BY <2>1, <2>2
  <1>5. Follows(n + 1, u, cut)
    BY <1>1, <1>2 DEF Follows
  <1> QED
    BY <1>3, <1>4, <1>5 DEF Honest

\* So does losing its beginning, if the text says that it has.
LEMMA SuffixHonest ==
  ASSUME NEW t \in Seq(Nat), NEW cut \in BOOLEAN, NEW a \in 1..(Len(t) + 1),
         Honest(t, cut)
  PROVE  /\ SubSeq(t, a, Len(t)) \in Seq(Nat)
         /\ Honest(SubSeq(t, a, Len(t)), TRUE)
         /\ \A n \in Nat : Follows(n, t, cut) => Follows(n, SubSeq(t, a, Len(t)), TRUE)
  <1> DEFINE u == SubSeq(t, a, Len(t))
  <1>1. /\ u \in Seq(Nat) /\ Len(u) = Len(t) - a + 1 /\ Len(t) \in Nat
        /\ \A i \in 1..Len(u) : u[i] = t[a + i - 1]
    OBVIOUS
  <1>2. Consecutive(u)
    <2> SUFFICES ASSUME NEW i \in 1..(Len(u) - 1)
                 PROVE  u[i + 1] = u[i] + 1
      BY DEF Consecutive
    <2>1. /\ a + i - 1 \in 1..(Len(t) - 1)
          /\ u[i] = t[a + i - 1] /\ u[i + 1] = t[(a + i - 1) + 1]
      BY <1>1
    <2> QED
      BY <2>1 DEF Honest, Consecutive
  <1>3. ASSUME NEW n \in Nat, Follows(n, t, cut)
        PROVE  Follows(n, u, TRUE)
    <2>1. CASE u = <<>>
      BY <2>1 DEF Follows
    <2>2. CASE u # <<>>
      <3>1. Len(u) >= 1 /\ t # <<>>
        BY <1>1, <2>2
      <3>2. u[Len(u)] = t[Len(t)]
        BY <1>1, <3>1
      <3> QED
        BY <1>3, <2>2, <3>1, <3>2 DEF Follows
    <2> QED
      BY <2>1, <2>2
  <1> QED
    BY <1>1, <1>2, <1>3 DEF Honest

\* Trimming leaves a suffix, perhaps an empty one.
LEMMA TrimIsSuffix ==
  ASSUME NEW t \in Seq(Nat)
  PROVE  \/ Len(t) <= ClientCap /\ Trim(t) = t
         \/ /\ Len(t) > ClientCap
            /\ \E a \in 1..(Len(t) + 1) : Trim(t) = SubSeq(t, a, Len(t))
  <1>1. CASE Len(t) <= ClientCap
    BY <1>1 DEF Trim
  <1>2. CASE ~(Len(t) <= ClientCap)
    <2> DEFINE over == Len(t) - ClientCap
               ends == {i \in (over + 1)..Len(t) : t[i] \in Newlines}
               a == IF ends # {} THEN Min(ends) + 1 ELSE over + 1
    <2>1. over \in 1..Len(t)
      BY <1>2, LiveLogAssumption
    <2>2. ends \subseteq (over + 1)..Len(t) /\ ends \subseteq Nat
      BY <2>1
    <2>3. a \in 1..(Len(t) + 1)
      <3> HIDE DEF ends, over
      <3>1. CASE ends # {}
        <4>1. Min(ends) \in ends
          BY <2>2, <3>1, LeastOf
        <4>2. Min(ends) \in (over + 1)..Len(t)
          BY <2>2, <4>1
        <4> HIDE DEF a
        <4>3. a = Min(ends) + 1
          BY <3>1 DEF a
        <4> QED
          BY <2>1, <4>2, <4>3
      <3>2. CASE ends = {}
        BY <2>1, <3>2
      <3> QED
        BY <3>1, <3>2
    <2>4. Trim(t) = SubSeq(t, a, Len(t))
      BY <1>2 DEF Trim
    <2>5. Len(t) > ClientCap
      BY <1>2, LiveLogAssumption
    <2> HIDE DEF a
    <2> QED
      BY <2>3, <2>4, <2>5
  <1> QED
    BY <1>1, <1>2

LEMMA TrimTypes ==
  ASSUME NEW t \in Seq(Nat)
  PROVE  Trim(t) \in Seq(Nat)
  <1>1. \A a \in 1..(Len(t) + 1) : SubSeq(t, a, Len(t)) \in Seq(Nat)
    OBVIOUS
  <1> QED
    BY <1>1, TrimIsSuffix

\* It raises the flag, and what is left goes on as before.
LEMMA TrimHonest ==
  ASSUME NEW t \in Seq(Nat), NEW cut \in BOOLEAN, Honest(t, cut)
  PROVE  /\ Honest(Trim(t), cut \/ Len(t) > ClientCap)
         /\ \A n \in Nat : Follows(n, t, cut) => Follows(n, Trim(t), cut \/ Len(t) > ClientCap)
  <1>1. CASE Len(t) <= ClientCap /\ Trim(t) = t
    <2>1. (cut \/ Len(t) > ClientCap) = cut
      BY <1>1, LiveLogAssumption
    <2> QED
      BY <1>1, <2>1
  <1>2. ASSUME Len(t) > ClientCap,
               NEW a \in 1..(Len(t) + 1), Trim(t) = SubSeq(t, a, Len(t))
        PROVE  /\ Honest(Trim(t), TRUE)
               /\ \A n \in Nat : Follows(n, t, cut) => Follows(n, Trim(t), TRUE)
    BY <1>2, SuffixHonest
  <1>3. CASE Len(t) > ClientCap
    <2>1. (cut \/ Len(t) > ClientCap) = TRUE
      BY <1>3
    <2>2. \E a \in 1..(Len(t) + 1) : Trim(t) = SubSeq(t, a, Len(t))
      BY <1>3, TrimIsSuffix, LiveLogAssumption
    <2> QED
      BY <1>2, <1>3, <2>1, <2>2
  <1> QED
    BY <1>1, <1>3, TrimIsSuffix

-----------------------------------------------------------------------------
(* The stream: hub, wire, buffers and text. *)

StreamTypes ==
    /\ hub \in [first : Nat \ {0}, last : Nat, over : BOOLEAN]
    /\ snapDue \in Snapshot /\ wire \in Seq(Message)
    /\ pend \in Pend /\ due \in Pend
    /\ text \in Seq(Nat) /\ {truncated, overtaken} \subseteq BOOLEAN
    /\ raf \in {"none", "current", "old"}

\* The ring is empty only before the first character, or when the run is over.
HubInv ==
    /\ hub.first <= hub.last + 1
    /\ (hub.first = hub.last + 1 /\ ~hub.over) => hub.last = 0

\* A snapshot comes first, the end last, the characters between in order, up to
\* the hub's last.
WireInv ==
    \A i \in 1..Len(wire) :
       /\ wire[i].type = "snapshot" => i = 1
       /\ wire[i].type = "run_ended" => i = Len(wire) /\ hub.over
       /\ wire[i].type = "log" =>
            IF i = Len(wire) THEN hub.over \/ wire[i].at = hub.last
            ELSE wire[i + 1].type = "log" => wire[i + 1].at = wire[i].at + 1

SnapOnWire == wire # <<>> /\ wire[1].type = "snapshot"

\* Every flush that may come next gives an honest text. While a frame of the last
\* connection is due, the new one has a snapshot before it has text.
TextInv ==
    /\ Honest(text, truncated)
    /\ raf = "old" => HonestPend(due)
    /\ raf = "old" /\ pend.snap = NoSnap => pend.text = <<>>
    /\ raf # "old" \/ pend.snap # NoSnap => HonestPend(pend)

\* What is still to come, the snapshot first, goes on from what has come.
ConnInv ==
    /\ sock = "dialing" \/ snapDue # NoSnap => pend = NoPend
    /\ snapDue # NoSnap => /\ wire = <<>>
                           /\ Honest(snapDue.text, snapDue.cut)
                           /\ WireGoesOn(<<>>, snapDue.text, snapDue.cut)
    /\ SnapOnWire => /\ Honest(wire[1].snap.text, wire[1].snap.cut) /\ wire[1].snap # NoSnap
                     /\ WireGoesOn(Tail(wire), wire[1].snap.text, wire[1].snap.cut)
    /\ (sock = "open" /\ snapDue = NoSnap /\ ~SnapOnWire) =>
          /\ raf = "old" => pend.snap # NoSnap
          /\ WireGoesOn(wire, Flushed(pend), CutOf(pend))

\* Once a chunk has overtaken the snapshot nothing is claimed of the text until the
\* stream starts again.
StreamInv ==
    /\ StreamTypes /\ HubInv
    /\ sock # "open" => wire = <<>> /\ snapDue = NoSnap
    /\ ~overtaken => WireInv /\ TextInv /\ ConnInv

LEMMA Records ==
  /\ NoSnap \in Snapshot /\ NoPend \in Pend /\ NoPend.snap = NoSnap /\ NoPend.text = <<>>
  /\ \A p \in Pend : p.snap \in Snapshot /\ p.text \in Seq(Nat) /\ p.ended \in BOOLEAN
  /\ \A s \in Snapshot : s.text \in Seq(Nat) /\ s.cut \in BOOLEAN
  /\ \A m \in Message : /\ m.type \in {"log", "snapshot", "run_ended"}
                        /\ m.type = "log" => m.at \in Nat
                        /\ m.type = "snapshot" => m.snap \in Snapshot
  <1>1. <<0>> \in Seq(Nat) /\ <<>> \in Seq(Nat)
    OBVIOUS
  <1>2. NoSnap \in Snapshot
    BY <1>1 DEF NoSnap, Snap, Snapshot
  <1>3. NoPend \in Pend /\ NoPend.snap = NoSnap /\ NoPend.text = <<>>
    BY <1>1, <1>2 DEF NoPend, Pend
  <1>4. \A p \in Pend : p.snap \in Snapshot /\ p.text \in Seq(Nat) /\ p.ended \in BOOLEAN
    BY DEF Pend
  <1>5. \A s \in Snapshot : s.text \in Seq(Nat) /\ s.cut \in BOOLEAN
    BY DEF Snapshot
  <1>6. \A m \in Message : /\ m.type \in {"log", "snapshot", "run_ended"}
                           /\ m.type = "log" => m.at \in Nat
                           /\ m.type = "snapshot" => m.snap \in Snapshot
    BY DEF Message
  <1> QED
    BY <1>2, <1>3, <1>4, <1>5, <1>6

LEMMA Messages ==
  /\ \A n \in Nat : /\ [type |-> "log", at |-> n] \in Message
                    /\ [type |-> "log", at |-> n].type = "log"
                    /\ [type |-> "log", at |-> n].at = n
  /\ \A s \in Snapshot : /\ [type |-> "snapshot", snap |-> s] \in Message
                         /\ [type |-> "snapshot", snap |-> s].type = "snapshot"
                         /\ [type |-> "snapshot", snap |-> s].snap = s
  /\ [type |-> "run_ended"] \in Message
  /\ [type |-> "run_ended"].type = "run_ended"
  BY DEF Message

\* What a flush makes of the text.
LEMMA FlushedTypes ==
  ASSUME StreamTypes, NEW p \in Pend
  PROVE  Flushed(p) \in Seq(Nat) /\ CutOf(p) \in BOOLEAN
  <1>1. p.snap.text \in Seq(Nat) /\ p.snap.cut \in BOOLEAN /\ p.text \in Seq(Nat)
    BY Records
  <1>2. text \in Seq(Nat) /\ truncated \in BOOLEAN
    BY DEF StreamTypes
  <1>3. CASE p.snap = NoSnap
    BY <1>1, <1>2, <1>3, ConcatProperties DEF Flushed, CutOf
  <1>4. CASE p.snap # NoSnap
    BY <1>1, <1>2, <1>4, ConcatProperties DEF Flushed, CutOf
  <1> QED
    BY <1>3, <1>4

LEMMA AppendFirst ==
  ASSUME NEW w \in Seq(Message), NEW m \in Message
  PROVE  /\ Append(w, m) # <<>>
         /\ Append(w, m)[1] = IF w = <<>> THEN m ELSE w[1]
  <1>1. Len(Append(w, m)) = Len(w) + 1 /\ Len(w) \in Nat
    OBVIOUS
  <1>2. Append(w, m) # <<>>
    BY <1>1, EmptySeq
  <1>3. CASE w = <<>>
    BY <1>3
  <1>4. CASE w # <<>>
    BY <1>4
  <1> QED
    BY <1>2, <1>3, <1>4

\* The next character of the log goes on from what the wire goes on from.
LEMMA ProducedGoesOn ==
  ASSUME StreamTypes, NEW w \in Seq(Message), NEW t \in Seq(Nat), NEW cut \in BOOLEAN,
         ~hub.over, WireGoesOn(w, t, cut)
  PROVE  LET u == Append(w, [type |-> "log", at |-> hub.last + 1])
         IN u # <<>> /\ (u[1].type = "log" => Follows(u[1].at, t, cut))
  <1> DEFINE m == [type |-> "log", at |-> hub.last + 1]
             u == Append(w, m)
  <1>1. hub.last + 1 \in Nat /\ m \in Message /\ m.at = hub.last + 1
    BY Messages DEF StreamTypes
  <1> HIDE DEF m
  <1>2. u # <<>> /\ u[1] = IF w = <<>> THEN m ELSE w[1]
    BY <1>1, AppendFirst
  <1> HIDE DEF u
  <1>4. CASE w = <<>>
    BY <1>1, <1>2, <1>4 DEF WireGoesOn
  <1>5. CASE w # <<>>
    BY <1>1, <1>2, <1>5 DEF WireGoesOn
  <1> QED
    BY <1>2, <1>4, <1>5 DEF m, u

\* Without a connection nothing is on its way.
LEMMA ClosedConn ==
  ASSUME sock' # "open", wire' = <<>>, snapDue' = NoSnap,
         sock' = "dialing" => pend' = NoPend
  PROVE  WireInv' /\ ConnInv'
  BY DEF WireInv, ConnInv, SnapOnWire

LEMMA SameTexts ==
  ASSUME TextInv, UNCHANGED <<text, truncated, pend, raf, due>>
  PROVE  TextInv'
  BY DEF TextInv, HonestPend, Flushed, CutOf

LEMMA ProduceStream ==
  ASSUME StreamInv, Produce
  PROVE  StreamInv'
  <1> DEFINE n == hub.last + 1
             m == [type |-> "log", at |-> n]
  <1> USE DEF StreamInv
  <1>0. n \in Nat /\ m \in Message /\ m.at = n /\ m.type = "log"
    BY Messages DEF StreamTypes
  <1>1. /\ hub' \in [first : Nat \ {0}, last : Nat, over : BOOLEAN]
        /\ hub'.last = n /\ ~hub'.over /\ ~hub.over
        /\ hub'.first <= hub'.last
    BY LiveLogAssumption DEF Produce, StreamTypes, HubInv
  <1>2. /\ UNCHANGED <<sock, snapDue, text, truncated, pend, raf, due>>
        /\ wire' = IF sock = "open" THEN Append(wire, m) ELSE wire
        /\ overtaken' = (overtaken \/ (sock = "open" /\ snapDue # NoSnap))
    BY DEF Produce, hookVars, bufVars, Attached
  <1> HIDE DEF m
  <1>3. StreamTypes'
    BY <1>0, <1>1, <1>2 DEF StreamTypes
  <1>4. HubInv'
    BY <1>1 DEF HubInv, StreamTypes
  <1>5. CASE sock # "open"
    <2>1. ~overtaken' => WireInv' /\ ConnInv'
      BY <1>2, <1>5, ClosedConn DEF ConnInv
    <2> QED
      BY <1>2, <1>3, <1>4, <1>5, <2>1, SameTexts
  <1>6. CASE sock = "open"
    <2> SUFFICES ASSUME ~overtaken' PROVE WireInv' /\ TextInv' /\ ConnInv'
      BY <1>2, <1>3, <1>4, <1>6
    <2>1. snapDue = NoSnap /\ WireInv /\ TextInv /\ ConnInv
      BY <1>2, <1>6
    <2>2. /\ wire \in Seq(Message) /\ wire' = Append(wire, m) /\ Len(wire) \in Nat
          /\ Len(wire') = Len(wire) + 1 /\ wire'[Len(wire) + 1] = m
          /\ \A i \in 1..Len(wire) : wire'[i] = wire[i]
      BY <1>0, <1>2, <1>6 DEF StreamTypes
    <2>3. WireInv'
      BY <1>0, <1>1, <2>1, <2>2 DEF WireInv
    <2>4. SnapOnWire' = SnapOnWire
      BY <1>0, <2>2 DEF SnapOnWire
    <2>5. SnapOnWire => WireGoesOn(Tail(wire), wire[1].snap.text, wire[1].snap.cut)'
      <3> SUFFICES ASSUME SnapOnWire
                   PROVE  WireGoesOn(Tail(wire), wire[1].snap.text, wire[1].snap.cut)'
        OBVIOUS
      <3>1. /\ Tail(wire) \in Seq(Message) /\ Tail(wire') = Append(Tail(wire), m)
            /\ wire'[1] = wire[1]
        BY <1>0, <2>2 DEF SnapOnWire
      <3>2. wire[1].snap.text \in Seq(Nat) /\ wire[1].snap.cut \in BOOLEAN
        BY <2>2, Records DEF SnapOnWire
      <3>3. WireGoesOn(Tail(wire), wire[1].snap.text, wire[1].snap.cut)
        BY <2>1 DEF ConnInv
      <3> QED
        BY <1>1, <3>1, <3>2, <3>3, ProducedGoesOn DEF WireGoesOn, m
    <2>6. ~SnapOnWire => WireGoesOn(wire, Flushed(pend), CutOf(pend))'
      <3> SUFFICES ASSUME ~SnapOnWire PROVE WireGoesOn(wire, Flushed(pend), CutOf(pend))'
        OBVIOUS
      <3>1. WireGoesOn(wire, Flushed(pend), CutOf(pend))
        BY <1>6, <2>1 DEF ConnInv
      <3>2. Flushed(pend) \in Seq(Nat) /\ CutOf(pend) \in BOOLEAN
        BY FlushedTypes DEF StreamTypes
      <3>3. Flushed(pend)' = Flushed(pend) /\ CutOf(pend)' = CutOf(pend)
        BY <1>2 DEF Flushed, CutOf
      <3> QED
        BY <1>1, <2>2, <3>1, <3>2, <3>3, ProducedGoesOn DEF WireGoesOn, m
    <2>7. SnapOnWire => wire'[1] = wire[1]
      BY <2>2 DEF SnapOnWire
    <2>8. ConnInv'
      BY <1>2, <1>6, <2>1, <2>4, <2>5, <2>6, <2>7 DEF ConnInv
    <2> QED
      BY <1>2, <2>1, <2>3, <2>8, SameTexts
  <1> QED
    BY <1>5, <1>6

\* The snapshot reaches the wire before any character that follows it.
LEMMA SendSnapshotStream ==
  ASSUME StreamInv, SendSnapshot
  PROVE  StreamInv'
  <1> DEFINE m == [type |-> "snapshot", snap |-> snapDue]
  <1> USE DEF StreamInv
  <1>1. snapDue \in Snapshot /\ m \in Message /\ m.snap = snapDue /\ m.type = "snapshot"
    BY Messages DEF StreamTypes
  <1>2. /\ sock = "open" /\ snapDue # NoSnap
        /\ UNCHANGED <<hub, sock, text, truncated, pend, raf, due, overtaken>>
        /\ wire' = Append(wire, m) /\ snapDue' = NoSnap
    BY DEF SendSnapshot, hookVars, bufVars, Attached
  <1> HIDE DEF m
  <1>3. StreamTypes' /\ HubInv'
    BY <1>1, <1>2, Records DEF StreamTypes, HubInv
  <1> SUFFICES ASSUME ~overtaken PROVE WireInv' /\ TextInv' /\ ConnInv'
    BY <1>2, <1>3
  <1>4. wire = <<>> /\ Honest(snapDue.text, snapDue.cut)
        /\ WireGoesOn(<<>>, snapDue.text, snapDue.cut) /\ pend = NoPend
    BY <1>2 DEF ConnInv
  <1>5. wire' = <<m>> /\ Len(wire') = 1 /\ wire'[1] = m /\ Tail(wire') = <<>>
    BY <1>1, <1>2, <1>4
  <1>6. WireInv'
    BY <1>1, <1>5 DEF WireInv
  <1>7. SnapOnWire'
    BY <1>1, <1>5 DEF SnapOnWire
  <1>8. WireGoesOn(<<>>, snapDue.text, snapDue.cut) => WireGoesOn(Tail(wire), wire[1].snap.text, wire[1].snap.cut)'
    BY <1>1, <1>2, <1>5 DEF WireGoesOn
  <1>9. ConnInv'
    BY <1>1, <1>2, <1>4, <1>5, <1>7, <1>8 DEF ConnInv
  <1> QED
    BY <1>2, <1>6, <1>9, SameTexts

LEMMA DropRunStream ==
  ASSUME StreamInv, DropRun
  PROVE  StreamInv'
  <1> DEFINE m == [type |-> "run_ended"]
  <1> USE DEF StreamInv
  <1>0. m \in Message /\ m.type = "run_ended"
    BY Messages
  <1>1. /\ hub' \in [first : Nat \ {0}, last : Nat, over : BOOLEAN]
        /\ hub'.over /\ ~hub.over /\ hub'.first <= hub'.last + 1
    BY DEF DropRun, StreamTypes
  <1>2. /\ UNCHANGED <<sock, snapDue, text, truncated, pend, raf, due, overtaken>>
        /\ wire' = IF sock = "open" /\ snapDue = NoSnap THEN Append(wire, m) ELSE wire
    BY DEF DropRun, hookVars, bufVars, Attached
  <1> HIDE DEF m
  <1>3. StreamTypes' /\ HubInv'
    BY <1>0, <1>1, <1>2 DEF StreamTypes, HubInv
  <1>4. CASE sock # "open"
    <2>1. ~overtaken' => WireInv' /\ ConnInv'
      BY <1>2, <1>4, ClosedConn DEF ConnInv
    <2> QED
      BY <1>2, <1>3, <1>4, <2>1, SameTexts
  <1>5. CASE sock = "open"
    <2> SUFFICES ASSUME ~overtaken PROVE WireInv' /\ ConnInv'
      BY <1>2, <1>3, <1>5, SameTexts
    <2>1. CASE snapDue # NoSnap
      <3>1. wire = <<>> /\ wire' = <<>>
        BY <1>2, <2>1 DEF ConnInv
      <3> QED
        BY <1>1, <1>2, <2>1, <3>1 DEF ConnInv, WireInv, WireGoesOn, SnapOnWire
    <2>2. CASE snapDue = NoSnap
      <3>1. /\ wire \in Seq(Message) /\ wire' = Append(wire, m) /\ Len(wire) \in Nat
            /\ Len(wire') = Len(wire) + 1 /\ wire'[Len(wire) + 1] = m
            /\ \A i \in 1..Len(wire) : wire'[i] = wire[i]
        BY <1>0, <1>2, <1>5, <2>2 DEF StreamTypes
      <3>2. WireInv'
        BY <1>0, <1>1, <3>1 DEF WireInv
      <3>3. SnapOnWire' = SnapOnWire /\ (SnapOnWire => wire'[1] = wire[1])
        BY <1>0, <3>1 DEF SnapOnWire
      <3>4. SnapOnWire => WireGoesOn(Tail(wire), wire[1].snap.text, wire[1].snap.cut)'
        <4> SUFFICES ASSUME SnapOnWire
                     PROVE  WireGoesOn(Tail(wire), wire[1].snap.text, wire[1].snap.cut)'
          OBVIOUS
        <4>1. /\ Tail(wire) \in Seq(Message) /\ Tail(wire') = Append(Tail(wire), m)
              /\ wire'[1] = wire[1]
          BY <1>0, <3>1 DEF SnapOnWire
        <4>2. WireGoesOn(Tail(wire), wire[1].snap.text, wire[1].snap.cut)
          BY DEF ConnInv
        <4>3. /\ Tail(wire') # <<>>
              /\ Tail(wire')[1] = IF Tail(wire) = <<>> THEN m ELSE Tail(wire)[1]
          BY <1>0, <4>1, AppendFirst
        <4> QED
          BY <1>0, <1>1, <4>1, <4>2, <4>3 DEF WireGoesOn
      <3>5. ~SnapOnWire => WireGoesOn(wire, Flushed(pend), CutOf(pend))'
        <4> SUFFICES ASSUME ~SnapOnWire PROVE WireGoesOn(wire, Flushed(pend), CutOf(pend))'
          OBVIOUS
        <4>1. WireGoesOn(wire, Flushed(pend), CutOf(pend))
          BY <1>5, <2>2 DEF ConnInv
        <4>2. Flushed(pend)' = Flushed(pend) /\ CutOf(pend)' = CutOf(pend)
          BY <1>2 DEF Flushed, CutOf
        <4>3. /\ wire' # <<>>
              /\ wire'[1] = IF wire = <<>> THEN m ELSE wire[1]
          BY <1>0, <3>1, AppendFirst
        <4> QED
          BY <1>0, <1>1, <4>1, <4>2, <4>3 DEF WireGoesOn
      <3>6. ConnInv'
        BY <1>2, <1>5, <2>2, <3>3, <3>4, <3>5 DEF ConnInv
      <3> QED
        BY <3>2, <3>6
    <2> QED
      BY <2>1, <2>2
  <1> QED
    BY <1>4, <1>5

\* Nothing is left of a connection that goes.
LEMMA StopStreamInv ==
  ASSUME StreamInv, NEW c \in BOOLEAN, Stop(c)
  PROVE  StreamInv'
  <1> USE DEF StreamInv
  <1>1. /\ sock' = "none" /\ wire' = <<>> /\ snapDue' = NoSnap /\ raf' = "none"
        /\ pend' = NoPend /\ due' = NoPend
        /\ UNCHANGED <<hub, text, truncated, overtaken>>
    BY DEF Stop, CleanupEffect
  <1>2. StreamTypes' /\ HubInv'
    BY <1>1, Records, EmptySeq DEF StreamTypes, HubInv
  <1>3. WireInv' /\ ConnInv'
    BY <1>1, ClosedConn
  <1>4. TextInv => TextInv'
    <2>1. Flushed(NoPend)' = text /\ CutOf(NoPend)' = truncated
      BY <1>1, Records, ConcatEmptySeq DEF Flushed, CutOf, StreamTypes
    <2> QED
      BY <1>1, <2>1 DEF TextInv, HonestPend
  <1> QED
    BY <1>1, <1>2, <1>3, <1>4

\* A stream that starts has nothing but an empty text.
LEMMA ResumeStreamInv ==
  ASSUME StreamInv, SocketInv, ResumeStream
  PROVE  StreamInv'
  <1> USE DEF StreamInv
  <1>1. /\ sock = "none" /\ sock' = "none" /\ wire' = <<>> /\ snapDue' = NoSnap
        /\ text' = <<>> /\ truncated' = FALSE /\ overtaken' = FALSE
        /\ pend' = NoPend /\ raf' = "none" /\ due' = NoPend /\ hub' = hub
    BY DEF ResumeStream, StartEffect, SocketInv
  <1>2. StreamTypes' /\ HubInv'
    BY <1>1, Records, EmptySeq DEF StreamTypes, HubInv
  <1>3. WireInv' /\ ConnInv'
    BY <1>1, ClosedConn
  <1>4. TextInv'
    <2>1. Flushed(NoPend)' = <<>> /\ CutOf(NoPend)' = FALSE
      BY <1>1, Records, ConcatEmptySeq, EmptySeq DEF Flushed, CutOf
    <2>2. Honest(<<>>, FALSE)
      BY DEF Honest, Consecutive
    <2> QED
      BY <1>1, <2>1, <2>2 DEF TextInv, HonestPend
  <1> QED
    BY <1>1, <1>2, <1>3, <1>4

\* A new connection begins with empty buffers; what the last one had buffered
\* is flushed by the frame that had been asked for.
LEMMA ConnectStream ==
  ASSUME StreamInv, SocketInv, NEW g \in awaiting, Connect(g)
  PROVE  StreamInv'
  <1> USE DEF StreamInv
  <1>1. UNCHANGED <<hub, snapDue, wire, overtaken, text, truncated>>
    BY DEF Connect, wireVars
  <1>2. CASE MayConnect(g)
    <2>1. sock = "none" /\ wire = <<>> /\ snapDue = NoSnap
      BY <1>2 DEF MayConnect, SocketInv
    <2>2. /\ sock' = "dialing" /\ pend' = NoPend
          /\ due' = IF raf = "current" THEN pend ELSE due
          /\ raf' = IF raf = "current" THEN "old" ELSE raf
      BY <1>2 DEF Connect
    <2>3. StreamTypes' /\ HubInv'
      BY <1>1, <2>2, Records DEF StreamTypes, HubInv
    <2>4. WireInv' /\ ConnInv'
      BY <1>1, <2>1, <2>2, ClosedConn
    <2>5. TextInv => TextInv'
      <3> SUFFICES ASSUME TextInv PROVE TextInv'
        OBVIOUS
      <3>1. \A p : Flushed(p)' = Flushed(p') /\ CutOf(p)' = CutOf(p')
        BY <1>1 DEF Flushed, CutOf
      <3>2. Flushed(NoPend) = text /\ CutOf(NoPend) = truncated
        BY Records, ConcatEmptySeq DEF Flushed, CutOf, StreamTypes
      <3>3. HonestPend(pend)'
        BY <1>1, <2>2, <3>2 DEF TextInv, HonestPend, Flushed, CutOf
      <3>4. raf' = "old" => HonestPend(due)'
        <4>1. CASE raf = "current"
          BY <1>1, <2>2, <4>1 DEF TextInv, HonestPend, Flushed, CutOf
        <4>2. CASE raf # "current"
          BY <1>1, <2>2, <4>2 DEF TextInv, HonestPend, Flushed, CutOf
        <4> QED
          BY <4>1, <4>2
      <3>5. pend'.text = <<>>
        BY <2>2, Records
      <3> QED
        BY <1>1, <3>3, <3>4, <3>5 DEF TextInv
    <2> QED
      BY <1>1, <2>1, <2>2, <2>3, <2>4, <2>5
  <1>3. CASE ~MayConnect(g)
    <2>1. UNCHANGED <<sock, pend, due, raf>>
      BY <1>3 DEF Connect
    <2> QED
      BY <1>1, <2>1, SameTexts
         DEF StreamTypes, HubInv, WireInv, ConnInv, SnapOnWire, WireGoesOn, Flushed, CutOf
  <1> QED
    BY <1>2, <1>3

\* The snapshot holds what the hub has, which the next character goes on from.
LEMMA OpenStream ==
  ASSUME StreamInv, Open
  PROVE  StreamInv'
  <1> DEFINE t == Range12(hub.first, hub.last)
             cut == hub.first > 1 /\ hub.first <= hub.last
  <1> USE DEF StreamInv
  <1>1. /\ sock = "dialing" /\ sock' = "open" /\ snapDue' = Snap(t, cut)
        /\ wire = <<>> /\ snapDue = NoSnap
        /\ UNCHANGED <<hub, wire, overtaken, text, truncated, pend, raf, due>>
    BY DEF Open
  <1>2. hub.first \in Nat \ {0} /\ hub.last \in Nat /\ hub.over \in BOOLEAN
        /\ hub.first <= hub.last + 1
    BY DEF StreamTypes, HubInv
  <1>3. /\ t \in Seq(Nat) /\ Len(t) = hub.last + 1 - hub.first
        /\ \A i \in 1..Len(t) : t[i] = hub.first + i - 1
    BY <1>2 DEF Range12
  <1> HIDE DEF t
  <1>4. snapDue' \in Snapshot /\ snapDue'.text = t /\ snapDue'.cut = cut
    BY <1>1, <1>3 DEF Snapshot, Snap
  <1>5. StreamTypes' /\ HubInv'
    BY <1>1, <1>4 DEF StreamTypes, HubInv
  <1>6. Consecutive(t)
    BY <1>2, <1>3 DEF Consecutive
  <1>7. Honest(t, cut)
    BY <1>2, <1>3, <1>6 DEF Honest
  <1>8. ~hub.over => Follows(hub.last + 1, t, cut)
    <2>1. CASE t = <<>>
      BY <1>2, <1>3, <2>1 DEF Follows, HubInv
    <2>2. CASE t # <<>>
      BY <1>2, <1>3, <2>2 DEF Follows
    <2> QED
      BY <2>1, <2>2
  <1>9. snapDue' # NoSnap
    <2>1. NoSnap.text = <<0>> /\ Len(<<0>>) = 1 /\ <<0>>[1] = 0
      BY DEF NoSnap, Snap
    <2>2. t # <<0>>
      BY <1>2, <1>3, <2>1
    <2> QED
      BY <1>4, <2>1, <2>2
  <1>10. ~overtaken => WireInv' /\ ConnInv'
    BY <1>1, <1>4, <1>7, <1>8, <1>9 DEF ConnInv, WireInv, SnapOnWire, WireGoesOn
  <1> QED
    BY <1>1, <1>5, <1>10, SameTexts

LEMMA CloseStream ==
  ASSUME StreamInv, Close \/ Reconnect
  PROVE  StreamInv'
  <1> USE DEF StreamInv
  <1>1. /\ sock' # "open" /\ sock' # "dialing" /\ wire' = <<>> /\ snapDue' = NoSnap
        /\ UNCHANGED <<hub, overtaken, text, truncated, pend, raf, due>>
    BY DEF Close, Reconnect, wireVars, bufVars
  <1>2. StreamTypes' /\ HubInv'
    BY <1>1, Records, EmptySeq DEF StreamTypes, HubInv
  <1> QED
    BY <1>1, <1>2, ClosedConn, SameTexts

\* What comes off the wire goes on from what is buffered.
LEMMA ReceiveStream ==
  ASSUME StreamInv, Receive
  PROVE  StreamInv'
  <1> DEFINE m == wire[1]
             w == Tail(wire)
  <1> USE DEF StreamInv
  <1>1. /\ sock = "open" /\ wire \in Seq(Message) /\ wire # <<>> /\ Head(wire) = m
        /\ m \in Message /\ Len(wire) \in Nat \ {0}
        /\ w \in Seq(Message) /\ Len(w) = Len(wire) - 1
        /\ \A i \in 1..Len(w) : w[i] = wire[i + 1]
    BY DEF Receive, StreamTypes
  <1>tail. wire' = w
    BY DEF Receive
  <1> HIDE DEF m, w
  <1>2. /\ pend' = Buffered(pend, m) /\ wire' = w
        /\ raf' = IF raf = "none" THEN "current" ELSE raf
        /\ UNCHANGED <<hub, sock, snapDue, overtaken, text, truncated, due>>
    BY <1>1, <1>tail DEF Receive, hookVars
  <1>3. /\ pend' \in Pend
        /\ m.type = "snapshot" => pend'.snap = m.snap /\ pend'.text = <<>>
        /\ m.type = "log" => pend'.snap = pend.snap /\ pend'.text = Append(pend.text, m.at)
        /\ m.type = "run_ended" => pend'.snap = pend.snap /\ pend'.text = pend.text
    <2>1. pend \in Pend
      BY DEF StreamTypes
    <2>2. CASE m.type = "snapshot"
      BY <1>1, <1>2, <2>1, <2>2, Records, EmptySeq DEF Buffered, Pend
    <2>3. CASE m.type = "log"
      <3>1. Append(pend.text, m.at) \in Seq(Nat)
        BY <1>1, <2>1, <2>3, Records
      <3> QED
        BY <1>1, <1>2, <2>1, <2>3, <3>1 DEF Buffered, Pend
    <2>4. CASE m.type = "run_ended"
      BY <1>1, <1>2, <2>1, <2>4 DEF Buffered, Pend
    <2> QED
      BY <1>1, <2>2, <2>3, <2>4, Records
  <1>4. StreamTypes' /\ HubInv'
    BY <1>1, <1>2, <1>3 DEF StreamTypes, HubInv
  <1> SUFFICES ASSUME ~overtaken PROVE WireInv' /\ TextInv' /\ ConnInv'
    BY <1>1, <1>2, <1>4
  <1>5. snapDue = NoSnap /\ WireInv
    BY <1>1 DEF ConnInv
  <1>more. w # <<>> => Len(wire) >= 2 /\ w[1] = wire[2]
    <2>1. w # <<>> => Len(w) >= 1
      BY <1>1, EmptySeq
    <2> QED
      BY <1>1, <2>1
  <1>last. w = <<>> => Len(wire) = 1
    BY <1>1, EmptySeq
  <1>6. WireInv'
    <2> SUFFICES ASSUME NEW i \in 1..Len(w)
                 PROVE  /\ w[i].type = "snapshot" => i = 1
                        /\ w[i].type = "run_ended" => i = Len(w) /\ hub.over
                        /\ w[i].type = "log" =>
                             IF i = Len(w) THEN hub.over \/ w[i].at = hub.last
                             ELSE w[i + 1].type = "log" => w[i + 1].at = w[i].at + 1
      BY <1>2 DEF WireInv
    <2>1. /\ i \in Nat /\ i >= 1 /\ i + 1 \in 1..Len(wire) /\ w[i] = wire[i + 1]
          /\ i = Len(w) <=> i + 1 = Len(wire)
          /\ i # Len(w) => w[i + 1] = wire[(i + 1) + 1]
      BY <1>1
    <2> DEFINE j == i + 1
    <2>2. /\ wire[j].type = "snapshot" => j = 1
          /\ wire[j].type = "run_ended" => j = Len(wire) /\ hub.over
          /\ wire[j].type = "log" =>
               IF j = Len(wire) THEN hub.over \/ wire[j].at = hub.last
               ELSE wire[j + 1].type = "log" => wire[j + 1].at = wire[j].at + 1
      BY <1>5, <2>1 DEF WireInv
    <2> QED
      BY <2>1, <2>2
  <1>7. ~SnapOnWire'
    <2>1. Len(wire) >= 2 => wire[2].type # "snapshot"
      BY <1>1, <1>5 DEF WireInv
    <2> QED
      BY <1>1, <1>2, <1>more, <2>1 DEF SnapOnWire
  <1>8. TextInv' /\ WireGoesOn(wire, Flushed(pend), CutOf(pend))' /\ (raf' = "old" => pend'.snap # NoSnap)
    <2>1. CASE m.type = "snapshot"
      <3>1. /\ Honest(m.snap.text, m.snap.cut) /\ m.snap # NoSnap
            /\ WireGoesOn(w, m.snap.text, m.snap.cut)
        BY <1>1, <2>1 DEF ConnInv, SnapOnWire, m, w
      <3>2. Flushed(pend)' = m.snap.text /\ CutOf(pend)' = m.snap.cut
        BY <1>1, <1>3, <2>1, <3>1, Records, ConcatEmptySeq DEF Flushed, CutOf
      <3>3. TextInv'
        BY <1>2, <1>3, <2>1, <3>1, <3>2 DEF TextInv, HonestPend, Flushed, CutOf
      <3>4. WireGoesOn(w, m.snap.text, m.snap.cut)
              => WireGoesOn(wire, Flushed(pend), CutOf(pend))'
        BY <1>2, <3>2 DEF WireGoesOn
      <3> QED
        BY <1>3, <2>1, <3>1, <3>3, <3>4
    <2> DEFINE t == Flushed(pend)
               cut == CutOf(pend)
    <2>2. ASSUME m.type # "snapshot"
          PROVE  /\ t \in Seq(Nat) /\ cut \in BOOLEAN /\ Honest(t, cut)
                 /\ WireGoesOn(wire, t, cut) /\ (raf = "old" => pend.snap # NoSnap)
      <3>1. ~SnapOnWire
        BY <2>2 DEF SnapOnWire, m
      <3>2. WireGoesOn(wire, t, cut) /\ (raf = "old" => pend.snap # NoSnap)
        BY <1>1, <1>5, <3>1 DEF ConnInv
      <3>3. Honest(t, cut)
        BY <3>2 DEF TextInv, HonestPend
      <3> QED
        BY <3>2, <3>3, FlushedTypes DEF StreamTypes
    <2>3. CASE m.type = "log"
      <3>1. m.at \in Nat /\ Follows(m.at, t, cut)
        BY <1>1, <2>2, <2>3, Records DEF WireGoesOn, m
      <3>2. Flushed(pend)' = Append(t, m.at)
        <4> DEFINE base == IF pend.snap = NoSnap THEN text ELSE pend.snap.text
        <4>1. base \in Seq(Nat) /\ pend.text \in Seq(Nat)
          BY Records DEF StreamTypes
        <4>2. t = base \o pend.text
          BY DEF Flushed
        <4>3. Flushed(pend)' = base \o Append(pend.text, m.at)
          BY <1>2, <1>3, <2>3 DEF Flushed
        <4> HIDE DEF base
        <4>4. base \o Append(pend.text, m.at) = Append(base \o pend.text, m.at)
          BY <3>1, <4>1
        <4> QED
          BY <4>2, <4>3, <4>4
      <3>3. CutOf(pend)' = cut
        BY <1>2, <1>3, <2>3 DEF CutOf
      <3> HIDE DEF t, cut
      <3>4. /\ Honest(Append(t, m.at), cut)
            /\ Follows(m.at + 1, Append(t, m.at), cut)
        BY <2>2, <2>3, <3>1, AppendHonest
      <3>5. HonestPend(pend)'
        BY <3>2, <3>3, <3>4 DEF HonestPend, Honest, Consecutive
      <3>6. TextInv'
        BY <1>2, <1>3, <2>2, <2>3, <3>5 DEF TextInv, HonestPend, Flushed, CutOf
      <3>7. WireGoesOn(w, Append(t, m.at), cut)
        <4>1. CASE w = <<>>
          <5>1. hub.over \/ m.at = hub.last
            BY <1>1, <1>5, <1>last, <2>3, <4>1 DEF WireInv, m
          <5> QED
            BY <3>4, <4>1, <5>1 DEF WireGoesOn
        <4>2. CASE w # <<>>
          <5>1. wire[2].type = "log" => wire[2].at = m.at + 1
            <6>1. 1 \in 1..Len(wire) /\ 1 # Len(wire) /\ 1 + 1 = 2
              BY <1>1, <1>more, <4>2
            <6> QED
              BY <1>5, <2>3, <6>1 DEF WireInv, m
          <5> QED
            BY <1>more, <3>4, <4>2, <5>1 DEF WireGoesOn
        <4> QED
          BY <4>1, <4>2
      <3>8. WireGoesOn(wire, Flushed(pend), CutOf(pend))'
        BY <1>2, <3>2, <3>3, <3>7 DEF WireGoesOn
      <3> QED
        BY <1>2, <1>3, <2>2, <2>3, <3>6, <3>8
    <2>4. CASE m.type = "run_ended"
      <3>1. Flushed(pend)' = t /\ CutOf(pend)' = cut
        BY <1>2, <1>3, <2>4 DEF Flushed, CutOf
      <3>2. Len(wire) = 1 /\ hub.over
        BY <1>1, <1>5, <2>4 DEF WireInv, m
      <3>3. wire' = <<>>
        BY <1>1, <1>2, <3>2, EmptySeq
      <3>4. WireGoesOn(wire, Flushed(pend), CutOf(pend))'
        BY <1>2, <3>2, <3>3 DEF WireGoesOn
      <3>5. TextInv'
        BY <1>2, <1>3, <2>2, <2>4, <3>1 DEF TextInv, HonestPend, Flushed, CutOf
      <3> QED
        BY <1>2, <1>3, <2>2, <2>4, <3>4, <3>5
    <2> QED
      BY <1>1, <2>1, <2>3, <2>4, Records
  <1>9. ConnInv'
    BY <1>1, <1>2, <1>5, <1>7, <1>8 DEF ConnInv
  <1> QED
    BY <1>6, <1>8, <1>9

\* What is flushed becomes the text, up to what is trimmed.
LEMMA FlushStream ==
  ASSUME StreamInv, Flush
  PROVE  StreamInv'
  <1> DEFINE p == IF raf = "current" THEN pend ELSE due
             f == Flushed(p)
  <1> USE DEF StreamInv
  <1>1. /\ text' = Trim(f) /\ truncated' = (CutOf(p) \/ Len(f) > ClientCap)
        /\ pend' = IF raf = "current" THEN NoPend ELSE pend
        /\ raf # "none" /\ raf' = "none" /\ due' = NoPend
        /\ UNCHANGED <<hub, sock, snapDue, wire, overtaken>>
    BY DEF Flush, Truncates, CutOf, wireVars, hookVars
  <1>2. p \in Pend
    BY DEF StreamTypes
  <1>3. f \in Seq(Nat) /\ CutOf(p) \in BOOLEAN
    BY <1>2, FlushedTypes
  <1>4. pend' = NoPend => Flushed(pend)' = text' \o <<>> /\ CutOf(pend)' = truncated'
    BY Records DEF Flushed, CutOf
  <1>5. pend' = pend /\ pend.snap # NoSnap
          => Flushed(pend)' = Flushed(pend) /\ CutOf(pend)' = CutOf(pend)
    BY DEF Flushed, CutOf
  <1> HIDE DEF p, f
  <1>6. text' \in Seq(Nat) /\ truncated' \in BOOLEAN
    BY <1>1, <1>3, TrimTypes
  <1>7. StreamTypes' /\ HubInv'
    BY <1>1, <1>6, Records DEF StreamTypes, HubInv
  <1> SUFFICES ASSUME ~overtaken PROVE WireInv' /\ TextInv' /\ ConnInv'
    BY <1>1, <1>7
  <1>8. WireInv'
    BY <1>1 DEF WireInv
  <1>9. Honest(f, CutOf(p))
    BY <1>1 DEF TextInv, HonestPend, StreamTypes, p, f
  <1>10. Honest(text, truncated)' /\ \A n \in Nat : Follows(n, f, CutOf(p)) => Follows(n, text, truncated)'
    <2>1. /\ Honest(Trim(f), CutOf(p) \/ Len(f) > ClientCap)
          /\ \A n \in Nat : Follows(n, f, CutOf(p))
                              => Follows(n, Trim(f), CutOf(p) \/ Len(f) > ClientCap)
      BY <1>3, <1>9, TrimHonest
    <2> QED
      BY <1>1, <2>1 DEF Honest, Consecutive, Follows
  <1>11. CASE raf = "current"
    <2>1. pend' = NoPend /\ Flushed(pend)' = text' /\ CutOf(pend)' = truncated' /\ p = pend
      BY <1>1, <1>4, <1>6, <1>11, ConcatEmptySeq DEF p
    <2>2. TextInv'
      BY <1>1, <1>10, <2>1 DEF TextInv, HonestPend, Honest, Consecutive
    <2>3. (sock = "open" /\ snapDue = NoSnap /\ ~SnapOnWire)
             => WireGoesOn(wire, Flushed(pend), CutOf(pend))'
      <3> SUFFICES ASSUME sock = "open" /\ snapDue = NoSnap /\ ~SnapOnWire
                   PROVE  WireGoesOn(wire, Flushed(pend), CutOf(pend))'
        OBVIOUS
      <3>1. WireGoesOn(wire, f, CutOf(p))
        BY <2>1 DEF ConnInv, f
      <3>2. hub.last + 1 \in Nat /\ (wire # <<>> => wire[1] \in Message)
        BY DEF StreamTypes
      <3> QED
        BY <1>1, <1>10, <2>1, <3>1, <3>2, Records DEF WireGoesOn, Follows
    <2>4. ConnInv'
      BY <1>1, <2>1, <2>3 DEF ConnInv, SnapOnWire, WireGoesOn
    <2> QED
      BY <1>8, <2>2, <2>4
  <1>12. CASE raf = "old"
    <2>1. pend' = pend
      BY <1>1, <1>12
    <2>2. TextInv'
      <3>1. CASE pend.snap # NoSnap
        BY <1>1, <1>5, <1>10, <2>1, <3>1 DEF TextInv, HonestPend, Honest, Consecutive
      <3>2. CASE pend.snap = NoSnap
        <4>1. pend.text = <<>>
          BY <1>12, <3>2 DEF TextInv
        <4>2. Flushed(pend)' = text' /\ CutOf(pend)' = truncated'
          BY <1>6, <2>1, <3>2, <4>1, ConcatEmptySeq DEF Flushed, CutOf
        <4> QED
          BY <1>1, <1>10, <4>2 DEF TextInv, HonestPend, Honest, Consecutive
      <3> QED
        BY <3>1, <3>2
    <2>3. ConnInv'
      <3>1. (sock = "open" /\ snapDue = NoSnap /\ ~SnapOnWire)
              => pend.snap # NoSnap /\ WireGoesOn(wire, Flushed(pend), CutOf(pend))'
        BY <1>1, <1>5, <1>12, <2>1 DEF ConnInv, WireGoesOn
      <3> QED
        BY <1>1, <2>1, <3>1 DEF ConnInv, SnapOnWire, WireGoesOn
    <2> QED
      BY <1>8, <2>2, <2>3
  <1> QED
    BY <1>1, <1>11, <1>12 DEF StreamTypes

\* Steps of the panel alone.
LEMMA OtherStream ==
  ASSUME StreamInv, UNCHANGED <<hub, sock, wireVars, text, truncated, pend, raf, due>>
  PROVE  StreamInv'
  BY SameTexts DEF StreamInv, StreamTypes, HubInv, WireInv, ConnInv, SnapOnWire, WireGoesOn,
     Flushed, CutOf, wireVars

LEMMA InitStreamInv == LiveInit => StreamInv
  <1> SUFFICES ASSUME LiveInit PROVE StreamInv
    OBVIOUS
  <1>1. StreamTypes /\ HubInv /\ wire = <<>> /\ snapDue = NoSnap
    <2>1. <<>> \in Seq(Nat) /\ <<>> \in Seq(Message)
      BY EmptySeq
    <2>2. /\ hub \in [first : Nat \ {0}, last : Nat, over : BOOLEAN]
          /\ hub.first = 1 /\ hub.last = 0
      BY DEF LiveInit
    <2>3. /\ snapDue = NoSnap /\ wire = <<>> /\ pend = NoPend /\ due = NoPend /\ text = <<>>
          /\ {truncated, overtaken} \subseteq BOOLEAN /\ raf \in {"none", "current", "old"}
      BY DEF LiveInit
    <2>4. StreamTypes
      BY <2>1, <2>2, <2>3, Records DEF StreamTypes
    <2>5. HubInv
      BY <2>2 DEF HubInv
    <2> QED
      BY <2>3, <2>4, <2>5
  <1>2. WireInv /\ ConnInv
    BY <1>1 DEF LiveInit, WireInv, ConnInv, SnapOnWire
  <1>3. Flushed(NoPend) = <<>> /\ CutOf(NoPend) = FALSE
    BY Records, ConcatEmptySeq, EmptySeq DEF LiveInit, Flushed, CutOf
  <1>4. TextInv
    BY <1>3 DEF LiveInit, TextInv, HonestPend, Honest, Consecutive
  <1> QED
    BY <1>1, <1>2, <1>4 DEF StreamInv

LEMMA StreamStep == StreamInv /\ SocketInv /\ [LiveNext]_liveVars => StreamInv'
  <1> SUFFICES ASSUME StreamInv, SocketInv, [LiveNext]_liveVars
               PROVE  StreamInv'
    OBVIOUS
  <1>1. CASE Produce
    BY <1>1, ProduceStream
  <1>2. CASE SendSnapshot
    BY <1>2, SendSnapshotStream
  <1>3. CASE DropRun
    BY <1>3, DropRunStream
  <1>4. CASE \E g \in awaiting : Connect(g)
    BY <1>4, ConnectStream
  <1>5. CASE Open
    BY <1>5, OpenStream
  <1>6. CASE Close \/ Reconnect
    BY <1>6, CloseStream
  <1>7. CASE Receive
    BY <1>7, ReceiveStream
  <1>8. CASE Flush
    BY <1>8, FlushStream
  <1>9. CASE TrackLines \/ Interact \/ UNCHANGED liveVars
    BY <1>9, OtherStream DEF TrackLines, Interact, liveVars, hookVars, bufVars
  <1>10. CASE StopStream
    BY <1>10, StopStreamInv DEF StopStream
  <1>11. CASE ResumeStream
    BY <1>11, ResumeStreamInv
  <1>12. CASE InactivityTick
    BY <1>12, StopStreamInv, OtherStream DEF InactivityTick, hookVars, bufVars
  <1> QED
    BY <1>1, <1>2, <1>3, <1>4, <1>5, <1>6, <1>7, <1>8, <1>9, <1>10, <1>11, <1>12 DEF LiveNext

\* Unless a chunk overtook the snapshot on its way from the hub, the text has no
\* gap and no repetition, however connections are cut and resumed in between,
\* whatever the frames of old connections flush, and however it is trimmed
\* (useLiveRunLogsWS.ts onmessage, flushPending and connect()).
THEOREM TextsAreContiguous == LiveSpec => []TextContiguous
  <1>1. StreamInv => TextContiguous
    BY DEF StreamInv, TextInv, Honest, Consecutive, TextContiguous
  <1> QED
    BY <1>1, InitSocketInv, SocketStep, InitStreamInv, StreamStep, PTL DEF LiveSpec

\* Nor does a text hide that its beginning is missing, whether the hub's ring or
\* the browser's cap has dropped it (the banner of LiveRunLogPanel.tsx).
THEOREM TruncationsAreShown == LiveSpec => []TruncationShown
  <1>1. StreamInv => TruncationShown
    BY DEF StreamInv, TextInv, Honest, TruncationShown
  <1> QED
    BY <1>1, InitSocketInv, SocketStep, InitStreamInv, StreamStep, PTL DEF LiveSpec

-----------------------------------------------------------------------------
(* The lines. *)

\* What holds at 0 and goes on from each number to the next holds up to n: the
\* library's induction takes an operator, this one a set.
LEMMA UpToTheEnd ==
  ASSUME NEW n \in Nat, NEW T, 0 \in T, \A i \in 1..n : i - 1 \in T => i \in T
  PROVE  \A i \in 0..n : i \in T
  <1> DEFINE Fails == {i \in 0..n : i \notin T}
  <1>1. SUFFICES ASSUME Fails # {} PROVE FALSE
    OBVIOUS
  <1>2. Fails \subseteq Nat
    OBVIOUS
  <1> HIDE DEF Fails
  <1>3. PICK i \in Fails : \A j \in Fails : ~ (<<j, i>> \in OpToRel(<, Nat))
    BY <1>1, <1>2, NatLessThanWellFounded, WFMin
  <1>4. \A j \in Fails : ~ (j < i)
    BY <1>2, <1>3 DEF OpToRel
  <1> USE DEF Fails
  <1>5. i \in 1..n /\ i - 1 \in 0..n
    OBVIOUS
  <1>6. i - 1 \in T
    BY <1>4, <1>5
  <1> QED
    BY <1>5, <1>6

\* g[i] holds the pieces of the first i characters of t, up to n.
UpTo(g, n, t) ==
    /\ g = [i \in 0..n |-> g[i]]
    /\ g[0] = << <<>> >>
    /\ \A i \in 1..n : g[i] = Put(g[i - 1], t[i])

LEMMA UpToExtends ==
  ASSUME NEW t \in Seq(Nat), NEW n \in 1..Len(t), NEW g, UpTo(g, n - 1, t)
  PROVE  \E h : UpTo(h, n, t)
  <1> DEFINE h == [i \in 0..n |-> IF i = n THEN Put(g[n - 1], t[n]) ELSE g[i]]
  <1>1. n \in Nat /\ n # 0 /\ 1..n \subseteq 0..n /\ 0 \in 0..n
    OBVIOUS
  <1>2. \A i \in 0..n : h[i] = IF i = n THEN Put(g[n - 1], t[n]) ELSE g[i]
    OBVIOUS
  <1>3. h = [i \in 0..n |-> h[i]]
    BY <1>2
  <1> HIDE DEF h
  <1>4. h[0] = << <<>> >>
    BY <1>1, <1>2 DEF UpTo
  <1>5. ASSUME NEW i \in 1..n PROVE h[i] = Put(h[i - 1], t[i])
    <2>1. i \in 0..n /\ i - 1 \in 0..n /\ i - 1 # n
      BY <1>1
    <2>2. h[i - 1] = g[i - 1]
      BY <1>2, <2>1
    <2>3. CASE i = n
      BY <1>2, <2>1, <2>2, <2>3
    <2>4. CASE i # n
      <3>1. i \in 1..(n - 1) /\ h[i] = g[i]
        BY <1>1, <1>2, <2>1, <2>4
      <3> QED
        BY <2>2, <3>1 DEF UpTo
    <2> QED
      BY <2>3, <2>4
  <1> QED
    BY <1>3, <1>4, <1>5 DEF UpTo

\* Pieces is the last of them.
LEMMA PiecesAreUpTo ==
  ASSUME NEW t \in Seq(Nat)
  PROVE  \E g : UpTo(g, Len(t), t) /\ Pieces(t) = g[Len(t)]
  <1> DEFINE T == {n \in 0..Len(t) : \E g : UpTo(g, n, t)}
             Rule(g) == [i \in 0..Len(t) |->
                           IF i = 0 THEN << <<>> >> ELSE Put(g[i - 1], t[i])]
  <1>0. Len(t) \in Nat
    OBVIOUS
  <1>1. 0 \in T
    <2>1. UpTo([i \in 0..0 |-> << <<>> >>], 0, t)
      BY DEF UpTo
    <2> QED
      BY <1>0, <2>1
  <1>2. ASSUME NEW n \in 1..Len(t), n - 1 \in T PROVE n \in T
    BY <1>0, <1>2, UpToExtends
  <1>3. PICK h : UpTo(h, Len(t), t)
    <2> HIDE DEF T
    <2>1. \A n \in 0..Len(t) : n \in T
      BY <1>0, <1>1, <1>2, UpToTheEnd
    <2> QED
      BY <1>0, <2>1 DEF T
  <1>4. h = Rule(h)
    <2>1. \A i \in 0..Len(t) : h[i] = Rule(h)[i]
      BY <1>3 DEF UpTo
    <2> QED
      BY <1>3, <2>1 DEF UpTo
  <1>5. PICK g : g = Rule(g) /\ Pieces(t) = g[Len(t)]
    BY <1>4 DEF Pieces
  <1>6. UpTo(g, Len(t), t)
    <2>1. \A i \in 0..Len(t) : g[i] = Rule(g)[i]
      BY <1>5
    <2>2. g = [i \in 0..Len(t) |-> g[i]]
      BY <1>5
    <2>3. g[0] = << <<>> >>
      BY <1>0, <2>1
    <2>4. \A i \in 1..Len(t) : g[i] = Put(g[i - 1], t[i])
      BY <1>0, <2>1
    <2> QED
      BY <2>2, <2>3, <2>4 DEF UpTo
  <1> QED
    BY <1>5, <1>6

\* The first n characters of t.
FirstOf(t, n) == SubSeq(t, 1, n)

LEMMA FirstOfText ==
  ASSUME NEW t \in Seq(Nat), NEW n \in 0..Len(t)
  PROVE  /\ FirstOf(t, n) \in Seq(Nat) /\ Len(FirstOf(t, n)) = n
         /\ \A i \in 1..n : FirstOf(t, n)[i] = t[i]
  BY DEF FirstOf

LEMMA PiecesOfFirst ==
  ASSUME NEW t \in Seq(Nat), NEW g, UpTo(g, Len(t), t)
  PROVE  \A n \in 0..Len(t) : Pieces(FirstOf(t, n)) = g[n]
  <1> SUFFICES ASSUME NEW n \in 0..Len(t) PROVE Pieces(FirstOf(t, n)) = g[n]
    OBVIOUS
  <1>0. Len(t) \in Nat /\ n \in Nat /\ n <= Len(t)
    OBVIOUS
  <1>1. /\ FirstOf(t, n) \in Seq(Nat) /\ Len(FirstOf(t, n)) = n
        /\ \A i \in 1..n : FirstOf(t, n)[i] = t[i]
    BY FirstOfText
  <1>2. PICK h : UpTo(h, n, FirstOf(t, n)) /\ Pieces(FirstOf(t, n)) = h[n]
    BY <1>1, PiecesAreUpTo
  <1> DEFINE T == {i \in 0..n : h[i] = g[i]}
  <1>3. 0 \in T
    BY <1>0, <1>2 DEF UpTo
  <1>4. ASSUME NEW i \in 1..n, i - 1 \in T PROVE i \in T
    <2>1. h[i] = Put(h[i - 1], t[i])
      BY <1>1, <1>2 DEF UpTo
    <2>2. i \in 1..Len(t)
      BY <1>0
    <2>3. g[i] = Put(g[i - 1], t[i])
      BY <2>2 DEF UpTo
    <2> QED
      BY <1>0, <1>4, <2>1, <2>3
  <1> HIDE DEF T
  <1>5. \A i \in 0..n : i \in T
    BY <1>0, <1>3, <1>4, UpToTheEnd
  <1>6. n \in T
    BY <1>0, <1>5
  <1> QED
    BY <1>2, <1>6 DEF T

\* The pieces of a text are those of the text before its last character, and that
\* character put to them.
LEMMA PiecesStep ==
  ASSUME NEW t \in Seq(Nat)
  PROVE  /\ Pieces(FirstOf(t, 0)) = << <<>> >>
         /\ \A n \in 1..Len(t) : Pieces(FirstOf(t, n)) = Put(Pieces(FirstOf(t, n - 1)), t[n])
         /\ FirstOf(t, Len(t)) = t
  <1>1. PICK g : UpTo(g, Len(t), t)
    BY PiecesAreUpTo
  <1>2. \A n \in 0..Len(t) : Pieces(FirstOf(t, n)) = g[n]
    BY <1>1, PiecesOfFirst
  <1>3. Len(t) \in Nat
    OBVIOUS
  <1>4. ASSUME NEW n \in 1..Len(t)
        PROVE  Pieces(FirstOf(t, n)) = Put(Pieces(FirstOf(t, n - 1)), t[n])
    <2>1. n \in 0..Len(t) /\ n - 1 \in 0..Len(t)
      BY <1>3
    <2>2. Pieces(FirstOf(t, n)) = g[n] /\ Pieces(FirstOf(t, n - 1)) = g[n - 1]
      BY <1>2, <2>1
    <2>3. g[n] = Put(g[n - 1], t[n])
      BY <1>1 DEF UpTo
    <2> QED
      BY <2>2, <2>3
  <1>5. FirstOf(t, Len(t)) = t
    BY DEF FirstOf
  <1> QED
    BY <1>1, <1>2, <1>3, <1>4, <1>5 DEF UpTo

\* Lines of a text that has some, if only an empty one.
Chunks == {ps \in Seq(Seq(Nat)) : Len(ps) > 0}

\* What Put makes, place by place.
LEMMA FirstOfLog ==
  ASSUME NEW S, NEW s \in Seq(S), NEW n \in 0..Len(s)
  PROVE  /\ SubSeq(s, 1, n) \in Seq(S) /\ Len(SubSeq(s, 1, n)) = n
         /\ \A i \in 1..n : SubSeq(s, 1, n)[i] = s[i]
  OBVIOUS

LEMMA PutIs ==
  ASSUME NEW ps \in Chunks, NEW c \in Nat
  PROVE  /\ Put(ps, c) \in Chunks
         /\ c \in Newlines =>
              /\ Len(Put(ps, c)) = Len(ps) + 1
              /\ \A k \in 1..Len(ps) : Put(ps, c)[k] = ps[k]
              /\ Put(ps, c)[Len(ps) + 1] = <<>>
         /\ c \notin Newlines =>
              /\ Len(Put(ps, c)) = Len(ps)
              /\ \A k \in 1..(Len(ps) - 1) : Put(ps, c)[k] = ps[k]
              /\ Put(ps, c)[Len(ps)] = Append(ps[Len(ps)], c)
  <1>0. ps \in Seq(Seq(Nat)) /\ Len(ps) \in Nat /\ Len(ps) > 0 /\ ps[Len(ps)] \in Seq(Nat)
    BY DEF Chunks
  <1>1. CASE c \in Newlines
    <2>1. Put(ps, c) = Append(ps, <<>>) /\ <<>> \in Seq(Nat)
      BY <1>1 DEF Put
    <2> QED
      BY <1>0, <1>1, <2>1 DEF Chunks
  <1>2. CASE c \notin Newlines
    <2> DEFINE front == Front(ps)
               line == Append(Last(ps), c)
    <2>1. line \in Seq(Nat) /\ line = Append(ps[Len(ps)], c)
      BY <1>0 DEF Last
    <2>2. /\ front \in Seq(Seq(Nat)) /\ Len(front) = Len(ps) - 1
          /\ \A k \in 1..(Len(ps) - 1) : front[k] = ps[k]
      <3>1. front = SubSeq(ps, 1, Len(ps) - 1)
        BY DEF Front
      <3>2. Len(ps) - 1 \in 0..Len(ps)
        BY <1>0
      <3> QED
        BY <1>0, <3>1, <3>2, FirstOfLog
    <2>3. Put(ps, c) = Append(front, line)
      BY <1>2 DEF Put
    <2> HIDE DEF front, line
    <2>4. Append(front, line) \in Seq(Seq(Nat)) /\ Len(Append(front, line)) = Len(front) + 1
      BY <2>1, <2>2
    <2>5. \A k \in 1..Len(front) : Append(front, line)[k] = front[k]
      BY <2>1, <2>2
    <2>6. Append(front, line)[Len(front) + 1] = line
      BY <2>1, <2>2
    <2> QED
      BY <1>0, <1>2, <2>1, <2>2, <2>3, <2>4, <2>5, <2>6 DEF Chunks
  <1> QED
    BY <1>1, <1>2

\* The last piece is empty behind a newline, and before the first character.
LEMMA PiecesAreChunks ==
  ASSUME NEW t \in Seq(Nat)
  PROVE  Pieces(t) \in Chunks /\ (Last(Pieces(t)) = <<>> <=> (t = <<>> \/ EndsLine(t)))
  <1> DEFINE T == {n \in 0..Len(t) : Pieces(FirstOf(t, n)) \in Chunks}
  <1>0. Len(t) \in Nat
    OBVIOUS
  <1>1. Pieces(FirstOf(t, 0)) = << <<>> >>
    BY PiecesStep
  <1>2. << <<>> >> \in Chunks
    BY DEF Chunks
  <1>3. 0 \in T
    BY <1>0, <1>1, <1>2
  <1>4. ASSUME NEW n \in 1..Len(t), n - 1 \in T PROVE n \in T
    <2>1. Pieces(FirstOf(t, n - 1)) \in Chunks /\ t[n] \in Nat
      BY <1>0, <1>4
    <2>2. Pieces(FirstOf(t, n)) = Put(Pieces(FirstOf(t, n - 1)), t[n])
      BY PiecesStep
    <2>3. Pieces(FirstOf(t, n)) \in Chunks
      BY <2>1, <2>2, PutIs
    <2> QED
      BY <1>0, <2>3
  <1> HIDE DEF T
  <1>5. \A n \in 0..Len(t) : n \in T
    BY <1>0, <1>3, <1>4, UpToTheEnd
  <1>6. \A n \in 0..Len(t) : Pieces(FirstOf(t, n)) \in Chunks
    BY <1>5 DEF T
  <1>7. CASE t = <<>>
    <2>1. Len(t) = 0 /\ FirstOf(t, Len(t)) = t
      BY <1>7, PiecesStep
    <2>2. Pieces(t) = << <<>> >>
      BY <1>1, <2>1
    <2> QED
      BY <1>2, <1>7, <2>2 DEF Last
  <1>8. CASE t # <<>>
    <2>1. Len(t) \in 1..Len(t) /\ Len(t) - 1 \in 0..Len(t)
      BY <1>0, <1>8, EmptySeq
    <2> DEFINE ps == Pieces(FirstOf(t, Len(t) - 1))
               c == t[Len(t)]
    <2>2. ps \in Chunks /\ c \in Nat
      BY <1>6, <2>1
    <2>3. Pieces(t) = Put(ps, c)
      <3>1. FirstOf(t, Len(t)) = t
        BY PiecesStep
      <3>2. Pieces(FirstOf(t, Len(t))) = Put(Pieces(FirstOf(t, Len(t) - 1)), t[Len(t)])
        BY <2>1, PiecesStep
      <3> QED
        BY <3>1, <3>2
    <2>4. EndsLine(t) <=> c \in Newlines
      BY <1>8 DEF EndsLine, Last
    <2> HIDE DEF ps, c
    <2>5. Len(ps) \in Nat /\ Len(ps) > 0 /\ ps[Len(ps)] \in Seq(Nat)
      BY <2>2 DEF Chunks
    <2>6. ASSUME c \in Newlines PROVE Last(Put(ps, c)) = <<>>
      <3>1. Len(Put(ps, c)) = Len(ps) + 1 /\ Put(ps, c)[Len(ps) + 1] = <<>>
        BY <2>2, <2>6, PutIs
      <3> QED
        BY <3>1 DEF Last
    <2>7. ASSUME c \notin Newlines PROVE Last(Put(ps, c)) # <<>>
      <3>1. Len(Put(ps, c)) = Len(ps) /\ Put(ps, c)[Len(ps)] = Append(ps[Len(ps)], c)
        BY <2>2, <2>7, PutIs
      <3>2. Append(ps[Len(ps)], c) # <<>>
        <4>1. PICK line \in Seq(Nat) : line = ps[Len(ps)]
          BY <2>5
        <4>2. Append(line, c) \in Seq(Nat) /\ Len(Append(line, c)) = Len(line) + 1 /\ Len(line) \in Nat
          BY <2>2
        <4>3. Len(Append(line, c)) # 0
          BY <4>2
        <4>4. Append(line, c) # <<>>
          BY <4>2, <4>3, EmptySeq
        <4> QED
          BY <4>1, <4>4
      <3> QED
        BY <3>1, <3>2 DEF Last
    <2> QED
      BY <1>8, <2>2, <2>3, <2>4, <2>6, <2>7, PutIs
  <1> QED
    BY <1>7, <1>8

\* What replaces one member of a list that was split there.
LEMMA SpliceIs ==
  ASSUME NEW S, NEW f \in Seq(S), NEW x \in S, NEW r \in Seq(S)
  PROVE  /\ f \o <<x>> \o r \in Seq(S) /\ Len(f \o <<x>> \o r) = Len(f) + 1 + Len(r)
         /\ \A k \in 1..Len(f) : (f \o <<x>> \o r)[k] = f[k]
         /\ (f \o <<x>> \o r)[Len(f) + 1] = x
         /\ \A k \in 1..Len(r) : (f \o <<x>> \o r)[Len(f) + 1 + k] = r[k]
  <1> DEFINE one == <<x>>
             head == f \o one
             all == head \o r
  <1>0. Len(f) \in Nat /\ Len(r) \in Nat
    OBVIOUS
  <1>1. one \in Seq(S) /\ Len(one) = 1 /\ one[1] = x
    OBVIOUS
  <1> HIDE DEF one
  <1>2. /\ head \in Seq(S) /\ Len(head) = Len(f) + 1
        /\ \A i \in 1..(Len(f) + 1) : head[i] = IF i <= Len(f) THEN f[i] ELSE one[i - Len(f)]
    <2>1. /\ head \in Seq(S) /\ Len(head) = Len(f) + Len(one)
          /\ \A i \in 1..(Len(f) + Len(one)) :
               head[i] = IF i <= Len(f) THEN f[i] ELSE one[i - Len(f)]
      BY <1>1, ConcatProperties
    <2> HIDE DEF head
    <2> QED
      BY <1>1, <2>1
  <1> HIDE DEF head
  <1>3. /\ all \in Seq(S) /\ Len(all) = Len(head) + Len(r)
        /\ \A i \in 1..(Len(head) + Len(r)) :
             all[i] = IF i <= Len(head) THEN head[i] ELSE r[i - Len(head)]
    BY <1>2, ConcatProperties
  <1> HIDE DEF all
  <1>4. \A k \in 1..Len(f) : all[k] = f[k]
    BY <1>0, <1>2, <1>3
  <1>5. all[Len(f) + 1] = x
    BY <1>0, <1>1, <1>2, <1>3
  <1>6. ASSUME NEW k \in 1..Len(r) PROVE all[Len(f) + 1 + k] = r[k]
    <2>1. Len(f) + 1 + k \in 1..(Len(head) + Len(r)) /\ ~ (Len(f) + 1 + k <= Len(head))
      BY <1>0, <1>2
    <2>2. (Len(f) + 1 + k) - Len(head) = k
      BY <1>0, <1>2
    <2> QED
      BY <1>3, <2>1, <2>2
  <1>7. all = f \o <<x>> \o r
    BY DEF all, head, one
  <1> QED
    BY <1>0, <1>2, <1>3, <1>4, <1>5, <1>6, <1>7

\* Two lists of pieces, of texts that follow each other: the last piece of the one
\* goes on with the first of the other.
Join(ps, qs) == Front(ps) \o <<Last(ps) \o Head(qs)>> \o Tail(qs)

LEMMA JoinIs ==
  ASSUME NEW ps \in Chunks, NEW qs \in Chunks
  PROVE  /\ Join(ps, qs) \in Chunks /\ Len(Join(ps, qs)) = Len(ps) + Len(qs) - 1
         /\ \A k \in 1..(Len(ps) - 1) : Join(ps, qs)[k] = ps[k]
         /\ Join(ps, qs)[Len(ps)] = ps[Len(ps)] \o qs[1]
         /\ \A k \in 1..(Len(qs) - 1) : Join(ps, qs)[Len(ps) + k] = qs[k + 1]
  <1>0. /\ ps \in Seq(Seq(Nat)) /\ Len(ps) \in Nat /\ Len(ps) > 0 /\ ps[Len(ps)] \in Seq(Nat)
        /\ qs \in Seq(Seq(Nat)) /\ Len(qs) \in Nat /\ Len(qs) > 0 /\ qs[1] \in Seq(Nat)
    BY DEF Chunks
  <1> DEFINE front == Front(ps)
             line == Last(ps) \o Head(qs)
             rest == Tail(qs)
  <1>1. /\ front \in Seq(Seq(Nat)) /\ Len(front) = Len(ps) - 1
        /\ \A k \in 1..(Len(ps) - 1) : front[k] = ps[k]
    <2>1. front = SubSeq(ps, 1, Len(ps) - 1)
      BY DEF Front
    <2>2. Len(ps) - 1 \in 0..Len(ps)
      BY <1>0
    <2> QED
      BY <1>0, <2>1, <2>2, FirstOfLog
  <1>2. line \in Seq(Nat) /\ line = ps[Len(ps)] \o qs[1]
    <2>1. Last(ps) = ps[Len(ps)] /\ Head(qs) = qs[1]
      BY DEF Last
    <2> QED
      BY <1>0, <2>1, ConcatProperties
  <1>3. /\ rest \in Seq(Seq(Nat)) /\ Len(rest) = Len(qs) - 1
        /\ \A k \in 1..(Len(qs) - 1) : rest[k] = qs[k + 1]
    <2>1. qs # <<>>
      BY <1>0
    <2> QED
      BY <1>0, <2>1, HeadTailProperties
  <1>4. Join(ps, qs) = front \o <<line>> \o rest
    BY DEF Join
  <1> HIDE DEF front, line, rest
  <1>5. /\ Join(ps, qs) \in Seq(Seq(Nat)) /\ Len(Join(ps, qs)) = Len(front) + 1 + Len(rest)
        /\ \A k \in 1..Len(front) : Join(ps, qs)[k] = front[k]
        /\ Join(ps, qs)[Len(front) + 1] = line
        /\ \A k \in 1..Len(rest) : Join(ps, qs)[Len(front) + 1 + k] = rest[k]
    <2>1. /\ front \o <<line>> \o rest \in Seq(Seq(Nat))
          /\ Len(front \o <<line>> \o rest) = Len(front) + 1 + Len(rest)
          /\ \A k \in 1..Len(front) : (front \o <<line>> \o rest)[k] = front[k]
          /\ (front \o <<line>> \o rest)[Len(front) + 1] = line
          /\ \A k \in 1..Len(rest) : (front \o <<line>> \o rest)[Len(front) + 1 + k] = rest[k]
      <3> DEFINE S == Seq(Nat)
                 whole == front \o <<line>> \o rest
      <3>1. front \in Seq(S) /\ line \in S /\ rest \in Seq(S)
        BY <1>1, <1>2, <1>3
      <3> HIDE DEF S
      <3>2. /\ whole \in Seq(S) /\ Len(whole) = Len(front) + 1 + Len(rest)
            /\ \A k \in 1..Len(front) : whole[k] = front[k]
            /\ whole[Len(front) + 1] = line
            /\ \A k \in 1..Len(rest) : whole[Len(front) + 1 + k] = rest[k]
        BY <3>1, SpliceIs
      <3>3. whole \in Seq(Seq(Nat))
        BY <3>2 DEF S
      <3> QED
        BY <3>2, <3>3
    <2> QED
      BY <1>4, <2>1
  <1> DEFINE js == Join(ps, qs)
  <1> HIDE DEF js
  <1>6. Len(front) + 1 = Len(ps) /\ Len(rest) = Len(qs) - 1 /\ Len(front) = Len(ps) - 1
    BY <1>0, <1>1, <1>3
  <1>7. Len(js) = Len(ps) + Len(qs) - 1 /\ Len(js) > 0
    BY <1>0, <1>5, <1>6 DEF js
  <1>8. js[Len(ps)] = ps[Len(ps)] \o qs[1]
    BY <1>2, <1>5, <1>6 DEF js
  <1>9. \A k \in 1..(Len(ps) - 1) : js[k] = ps[k]
    BY <1>1, <1>5, <1>6 DEF js
  <1>10. \A k \in 1..(Len(qs) - 1) : js[Len(ps) + k] = qs[k + 1]
    BY <1>3, <1>5, <1>6 DEF js
  <1> QED
    BY <1>5, <1>7, <1>8, <1>9, <1>10 DEF js, Chunks

\* A character goes to the second of two joined lists of pieces.
LEMMA PutJoin ==
  ASSUME NEW ps \in Chunks, NEW qs \in Chunks, NEW c \in Nat
  PROVE  Put(Join(ps, qs), c) = Join(ps, Put(qs, c))
  <1> DEFINE n == Len(ps)
             m == Len(qs)
             js == Join(ps, qs)
             new == Put(qs, c)
             left == Put(js, c)
             right == Join(ps, new)
  <1>0. n \in Nat /\ n > 0 /\ m \in Nat /\ m > 0
    BY DEF Chunks
  <1>7. ps[n] \in Seq(Nat) /\ qs[1] \in Seq(Nat)
    BY DEF Chunks
  <1> HIDE DEF n, m
  <1>1. /\ js \in Chunks /\ Len(js) = n + m - 1
        /\ \A k \in 1..(n - 1) : js[k] = ps[k]
        /\ js[n] = ps[n] \o qs[1]
        /\ \A k \in 1..(m - 1) : js[n + k] = qs[k + 1]
    BY JoinIs DEF n, m
  <1>2. new \in Chunks
    BY PutIs
  <1> HIDE DEF js, new
  <1>3. /\ right \in Chunks /\ Len(right) = n + Len(new) - 1
        /\ \A k \in 1..(n - 1) : right[k] = ps[k]
        /\ right[n] = ps[n] \o new[1]
        /\ \A k \in 1..(Len(new) - 1) : right[n + k] = new[k + 1]
    BY <1>2, JoinIs DEF n
  <1>4. left \in Chunks
    BY <1>1, PutIs
  <1> HIDE DEF left, right
  <1>5. CASE c \in Newlines
    <2>1. /\ Len(left) = n + m /\ left[n + m] = <<>>
          /\ \A k \in 1..(n + m - 1) : left[k] = js[k]
      <3>1. /\ Len(left) = Len(js) + 1 /\ left[Len(js) + 1] = <<>>
            /\ \A k \in 1..Len(js) : left[k] = js[k]
        BY <1>1, <1>5, PutIs DEF left
      <3>2. Len(js) + 1 = n + m /\ Len(js) = n + m - 1
        BY <1>0, <1>1
      <3> QED
        BY <3>1, <3>2
    <2>2. /\ Len(new) = m + 1 /\ new[m + 1] = <<>>
          /\ \A k \in 1..m : new[k] = qs[k]
      BY <1>5, PutIs DEF new, m
    <2>3. \A k \in 1..(n - 1) : left[k] = right[k]
      BY <1>0, <1>1, <1>3, <2>1
    <2>4. left[n] = right[n]
      <3>1. n \in 1..(n + m - 1) /\ 1 \in 1..m
        BY <1>0
      <3>2. left[n] = js[n] /\ new[1] = qs[1]
        BY <2>1, <2>2, <3>1
      <3> QED
        BY <1>1, <1>3, <3>2
    <2>5. ASSUME NEW k \in 1..m PROVE left[n + k] = right[n + k]
      <3>1. right[n + k] = new[k + 1]
        BY <1>0, <1>3, <2>2
      <3>2. CASE k = m
        BY <2>1, <2>2, <3>1, <3>2
      <3>3. CASE k # m
        <4>1. k \in 1..(m - 1) /\ n + k \in 1..(n + m - 1) /\ k + 1 \in 1..m
          BY <1>0, <3>3
        <4>2. left[n + k] = js[n + k] /\ js[n + k] = qs[k + 1] /\ new[k + 1] = qs[k + 1]
          BY <1>1, <2>1, <2>2, <4>1
        <4> QED
          BY <3>1, <4>2
      <3> QED
        BY <3>2, <3>3
    <2>6. ASSUME NEW k \in 1..(n + m) PROVE left[k] = right[k]
      <3>1. CASE k <= n
        BY <1>0, <2>3, <2>4, <3>1
      <3>2. CASE k > n
        <4>1. k - n \in 1..m /\ n + (k - n) = k
          BY <1>0, <3>2
        <4> QED
          BY <2>5, <4>1
      <3> QED
        BY <1>0, <3>1, <3>2
    <2>7. Len(left) = Len(right)
      BY <1>0, <1>3, <2>1, <2>2
    <2>8. left \in Seq(Seq(Nat)) /\ right \in Seq(Seq(Nat))
      BY <1>3, <1>4 DEF Chunks
    <2> QED
      BY <2>1, <2>6, <2>7, <2>8, SeqEqual DEF left, right, js, new
  <1>6. CASE c \notin Newlines
    <2>1. /\ Len(left) = n + m - 1 /\ left[n + m - 1] = Append(js[n + m - 1], c)
          /\ \A k \in 1..(n + m - 2) : left[k] = js[k]
      <3>1. /\ Len(left) = Len(js) /\ left[Len(js)] = Append(js[Len(js)], c)
            /\ \A k \in 1..(Len(js) - 1) : left[k] = js[k]
        BY <1>1, <1>6, PutIs DEF left
      <3>2. Len(js) - 1 = n + m - 2
        BY <1>0, <1>1
      <3> QED
        BY <1>1, <3>1, <3>2
    <2>2. /\ Len(new) = m /\ new[m] = Append(qs[m], c)
          /\ \A k \in 1..(m - 1) : new[k] = qs[k]
      BY <1>6, PutIs DEF new, m
    <2>3. ASSUME NEW k \in 1..(n - 1) PROVE left[k] = right[k]
      <3>1. k \in 1..(n + m - 2)
        BY <1>0
      <3> QED
        BY <1>1, <1>3, <2>1, <3>1
    <2>4. left[n] = right[n]
      <3>1. CASE m = 1
        <4>1. left[n] = Append(ps[n] \o qs[1], c) /\ right[n] = ps[n] \o Append(qs[1], c)
          <5>1. n + m - 1 = n /\ js[n] = ps[n] \o qs[1]
            BY <1>0, <1>1, <3>1
          <5>2. new[1] = Append(qs[1], c)
            BY <2>2, <3>1
          <5> QED
            BY <1>3, <2>1, <5>1, <5>2
        <4>2. \A s, t \in Seq(Nat) : Append(s \o t, c) = s \o Append(t, c)
          OBVIOUS
        <4> QED
          BY <1>7, <4>1, <4>2
      <3>2. CASE m # 1
        <4>1. n \in 1..(n + m - 2) /\ 1 \in 1..(m - 1)
          BY <1>0, <3>2
        <4> QED
          BY <1>1, <1>3, <2>1, <2>2, <4>1
      <3> QED
        BY <3>1, <3>2
    <2>5. ASSUME NEW k \in 1..(m - 1) PROVE left[n + k] = right[n + k]
      <3>1. right[n + k] = new[k + 1]
        BY <1>0, <1>3, <2>2
      <3>2. js[n + k] = qs[k + 1]
        BY <1>1
      <3>3. CASE k = m - 1
        <4>1. n + k = n + m - 1 /\ k + 1 = m
          BY <1>0, <3>3
        <4> QED
          BY <2>1, <2>2, <3>1, <3>2, <4>1
      <3>4. CASE k # m - 1
        <4>1. n + k \in 1..(n + m - 2) /\ k + 1 \in 1..(m - 1)
          BY <1>0, <3>4
        <4> QED
          BY <2>1, <2>2, <3>1, <3>2, <4>1
      <3> QED
        BY <3>3, <3>4
    <2>6. ASSUME NEW k \in 1..(n + m - 1) PROVE left[k] = right[k]
      <3>1. CASE k < n
        BY <1>0, <2>3, <3>1
      <3>2. CASE k > n
        <4>1. k - n \in 1..(m - 1) /\ n + (k - n) = k
          BY <1>0, <3>2
        <4> QED
          BY <2>5, <4>1
      <3> QED
        BY <1>0, <2>4, <3>1, <3>2
    <2>7. Len(left) = Len(right)
      BY <1>0, <1>3, <2>1, <2>2
    <2>8. left \in Seq(Seq(Nat)) /\ right \in Seq(Seq(Nat))
      BY <1>3, <1>4 DEF Chunks
    <2> QED
      BY <2>1, <2>6, <2>7, <2>8, SeqEqual DEF left, right, js, new
  <1> QED
    BY <1>5, <1>6

\* The pieces of a text that has grown are those from before, joined by those of
\* what has come.
LEMMA PiecesJoin ==
  ASSUME NEW t \in Seq(Nat), NEW d \in Seq(Nat)
  PROVE  Pieces(t \o d) = Join(Pieces(t), Pieces(d))
  <1> DEFINE all == t \o d
             m == Len(t)
             T == {n \in 0..Len(d) : Pieces(FirstOf(all, m + n))
                                       = Join(Pieces(t), Pieces(FirstOf(d, n)))}
  <1>0. Len(d) \in Nat /\ m \in Nat
    OBVIOUS
  <1>1. /\ all \in Seq(Nat) /\ Len(all) = m + Len(d)
        /\ \A i \in 1..(m + Len(d)) : all[i] = IF i <= m THEN t[i] ELSE d[i - m]
    BY ConcatProperties
  <1> HIDE DEF all
  <1>2. Pieces(t) \in Chunks
    BY PiecesAreChunks
  <1>3. \A n \in 0..Len(d) : Pieces(FirstOf(d, n)) \in Chunks
    BY FirstOfText, PiecesAreChunks
  <1>4. 0 \in T
    <2>1. FirstOf(all, m) = t
      <3>1. m \in 0..Len(all)
        BY <1>0, <1>1
      <3>2. /\ FirstOf(all, m) \in Seq(Nat) /\ Len(FirstOf(all, m)) = m
            /\ \A i \in 1..m : FirstOf(all, m)[i] = all[i]
        BY <1>1, <3>1, FirstOfText
      <3>3. \A i \in 1..m : all[i] = t[i]
        BY <1>0, <1>1
      <3> QED
        BY <3>2, <3>3, SeqEqual
    <2>2. Pieces(FirstOf(d, 0)) = << <<>> >>
      BY PiecesStep
    <2>3. Join(Pieces(t), << <<>> >>) = Pieces(t)
      <3> DEFINE ps == Pieces(t)
                 qs == << <<>> >>
                 js == Join(ps, qs)
      <3>1. ps \in Chunks /\ qs \in Chunks
        BY <1>0, <1>2, <1>3, <2>2
      <3>2. Len(qs) = 1 /\ qs[1] = <<>>
        OBVIOUS
      <3> HIDE DEF ps, qs
      <3>3. /\ js \in Chunks /\ Len(js) = Len(ps) + Len(qs) - 1
            /\ \A k \in 1..(Len(ps) - 1) : js[k] = ps[k]
            /\ js[Len(ps)] = ps[Len(ps)] \o qs[1]
        BY <3>1, JoinIs
      <3>4. /\ Len(ps) \in Nat /\ Len(ps) > 0 /\ ps[Len(ps)] \in Seq(Nat)
            /\ js \in Seq(Seq(Nat)) /\ ps \in Seq(Seq(Nat))
        BY <3>1, <3>3 DEF Chunks
      <3> HIDE DEF js
      <3>5. js[Len(ps)] = ps[Len(ps)]
        BY <3>2, <3>3, <3>4, ConcatEmptySeq
      <3>6. Len(js) = Len(ps)
        BY <3>2, <3>3, <3>4
      <3>7. \A k \in 1..Len(js) : js[k] = ps[k]
        BY <3>3, <3>4, <3>5, <3>6
      <3>8. js = ps
        BY <3>4, <3>6, <3>7, SeqEqual
      <3> QED
        BY <3>8 DEF js, ps, qs
    <2>4. m + 0 = m /\ 0 \in 0..Len(d)
      BY <1>0
    <2> QED
      BY <2>1, <2>2, <2>3, <2>4
  <1>5. ASSUME NEW n \in 1..Len(d), n - 1 \in T PROVE n \in T
    <2>1. /\ m + n \in 1..Len(all) /\ (m + n) - 1 = m + (n - 1)
          /\ n \in 0..Len(d) /\ n - 1 \in 0..Len(d)
      BY <1>0, <1>1
    <2>2. all[m + n] = d[n] /\ d[n] \in Nat
      <3>1. m + n \in 1..(m + Len(d)) /\ ~ (m + n <= m) /\ (m + n) - m = n
        BY <1>0
      <3> QED
        BY <1>1, <3>1
    <2>3. Pieces(FirstOf(all, m + n)) = Put(Pieces(FirstOf(all, m + (n - 1))), all[m + n])
      BY <1>1, <2>1, PiecesStep
    <2>4. Pieces(FirstOf(d, n)) = Put(Pieces(FirstOf(d, n - 1)), d[n])
      BY PiecesStep
    <2>5. Pieces(FirstOf(all, m + (n - 1))) = Join(Pieces(t), Pieces(FirstOf(d, n - 1)))
      BY <1>5
    <2>6. Pieces(FirstOf(d, n - 1)) \in Chunks
      BY <1>3, <2>1
    <2>7. Put(Join(Pieces(t), Pieces(FirstOf(d, n - 1))), d[n])
            = Join(Pieces(t), Put(Pieces(FirstOf(d, n - 1)), d[n]))
      BY <1>2, <2>2, <2>6, PutJoin
    <2> QED
      BY <2>1, <2>2, <2>3, <2>4, <2>5, <2>7
  <1> HIDE DEF T
  <1>6. \A n \in 0..Len(d) : n \in T
    BY <1>0, <1>4, <1>5, UpToTheEnd
  <1>7. Pieces(FirstOf(all, m + Len(d))) = Join(Pieces(t), Pieces(FirstOf(d, Len(d))))
    BY <1>0, <1>6 DEF T
  <1>8. FirstOf(all, Len(all)) = all /\ FirstOf(d, Len(d)) = d
    BY <1>1, PiecesStep
  <1> QED
    BY <1>1, <1>7, <1>8 DEF all

\* A list of pieces without the empty one at its end.
LEMMA WithoutIs ==
  ASSUME NEW ps \in Chunks
  PROVE  /\ Last(ps) # <<>> => WithoutLastEmpty(ps) = ps
         /\ Last(ps) = <<>> => WithoutLastEmpty(ps) = Front(ps)
         /\ ps # <<>>
  <1>1. ps \in Seq(Seq(Nat)) /\ Len(ps) > 0
    BY DEF Chunks
  <1>2. ps # <<>>
    BY <1>1
  <1> QED
    BY <1>2 DEF WithoutLastEmpty

\* The lines of a text that has grown are those from before, extended by the pieces
\* of what has come, if prevNewline tells how the text from before ended.
LEMMA ExtendedSplits ==
  ASSUME NEW t \in Seq(Nat), NEW d \in Seq(Nat), t # <<>>, prevNewline = EndsLine(t)
  PROVE  Extended(Split(t), d) = Split(t \o d)
  <1> DEFINE ps == Pieces(t)
             qs == Pieces(d)
  <1>1. ps \in Chunks /\ qs \in Chunks /\ (Last(ps) = <<>> <=> EndsLine(t))
    BY PiecesAreChunks
  <1>2. Split(t \o d) = WithoutLastEmpty(Join(ps, qs))
    BY PiecesJoin DEF Split
  <1>3. Split(t) = WithoutLastEmpty(ps)
    BY DEF Split
  <1>4. Extended(Split(t), d) =
          WithoutLastEmpty(IF Split(t) = <<>> \/ prevNewline THEN Split(t) \o qs
             ELSE Front(Split(t)) \o <<Last(Split(t)) \o Head(qs)>> \o Tail(qs))
    BY DEF Extended
  <1> HIDE DEF ps, qs
  <1>5. CASE EndsLine(t)
    <2>1. Split(t) = Front(ps)
      BY <1>1, <1>3, <1>5, WithoutIs
    <2>2. Front(ps) \o qs = Join(ps, qs)
      <3> DEFINE front == Front(ps)
                 js == Join(ps, qs)
                 cs == front \o qs
      <3>0. /\ ps \in Seq(Seq(Nat)) /\ Len(ps) \in Nat /\ Len(ps) > 0
            /\ qs \in Seq(Seq(Nat)) /\ Len(qs) \in Nat /\ Len(qs) > 0 /\ qs[1] \in Seq(Nat)
        BY <1>1 DEF Chunks
      <3>1. /\ front \in Seq(Seq(Nat)) /\ Len(front) = Len(ps) - 1
            /\ \A k \in 1..(Len(ps) - 1) : front[k] = ps[k]
        <4>1. front = SubSeq(ps, 1, Len(ps) - 1)
          BY DEF Front
        <4>2. Len(ps) - 1 \in 0..Len(ps)
          BY <3>0
        <4> QED
          BY <3>0, <4>1, <4>2, FirstOfLog
      <3>2. /\ js \in Chunks /\ Len(js) = Len(ps) + Len(qs) - 1
            /\ \A k \in 1..(Len(ps) - 1) : js[k] = ps[k]
            /\ js[Len(ps)] = ps[Len(ps)] \o qs[1]
            /\ \A k \in 1..(Len(qs) - 1) : js[Len(ps) + k] = qs[k + 1]
        BY <1>1, JoinIs
      <3>3. js[Len(ps)] = qs[1]
        <4>1. ps[Len(ps)] = <<>>
          BY <1>1, <1>5 DEF Last
        <4> QED
          BY <3>0, <3>2, <4>1, ConcatEmptySeq
      <3> HIDE DEF front, js
      <3>4. /\ cs \in Seq(Seq(Nat)) /\ Len(cs) = Len(front) + Len(qs)
            /\ \A i \in 1..(Len(front) + Len(qs)) :
                 cs[i] = IF i <= Len(front) THEN front[i] ELSE qs[i - Len(front)]
        BY <3>0, <3>1, ConcatProperties
      <3> HIDE DEF cs
      <3>5. ASSUME NEW i \in 1..Len(cs) PROVE cs[i] = js[i]
        <4>0. Len(front) = Len(ps) - 1 /\ i \in 1..(Len(front) + Len(qs))
          BY <3>1, <3>4
        <4>1. CASE i < Len(ps)
          <5>1. i \in 1..(Len(ps) - 1) /\ i <= Len(front)
            BY <3>0, <4>0, <4>1
          <5> QED
            BY <3>1, <3>2, <3>4, <4>0, <5>1
        <4>2. CASE i = Len(ps)
          <5>1. ~ (i <= Len(front)) /\ i - Len(front) = 1
            BY <3>0, <4>0, <4>2
          <5> QED
            BY <3>3, <3>4, <4>0, <4>2, <5>1
        <4>3. CASE i > Len(ps)
          <5>1. /\ ~ (i <= Len(front)) /\ i - Len(front) = (i - Len(ps)) + 1
                /\ i - Len(ps) \in 1..(Len(qs) - 1) /\ Len(ps) + (i - Len(ps)) = i
            BY <3>0, <4>0, <4>3
          <5>2. cs[i] = qs[(i - Len(ps)) + 1]
            BY <3>4, <4>0, <5>1
          <5>3. js[Len(ps) + (i - Len(ps))] = qs[(i - Len(ps)) + 1]
            BY <3>2, <5>1
          <5> QED
            BY <5>1, <5>2, <5>3
        <4> QED
          BY <3>0, <4>0, <4>1, <4>2, <4>3
      <3>6. Len(cs) = Len(js) /\ js \in Seq(Seq(Nat))
        BY <3>0, <3>1, <3>2, <3>4 DEF Chunks
      <3>7. cs = js
        BY <3>4, <3>5, <3>6, SeqEqual
      <3> QED
        BY <3>7 DEF cs, js, front
    <2> QED
      BY <1>2, <1>4, <1>5, <2>1, <2>2
  <1>6. CASE ~EndsLine(t)
    <2>1. Split(t) = ps /\ ps # <<>>
      BY <1>1, <1>3, <1>6, WithoutIs
    <2> QED
      BY <1>2, <1>4, <1>6, <2>1 DEF Join
  <1> QED
    BY <1>5, <1>6

\* Unless the text was replaced or trimmed since it was last split as a whole, the
\* lines are those of its first prevLen characters. A text that was emptied for a
\* new stream is split before anything can come.
LinesInv ==
    /\ prevLen \in Nat
    /\ prevLen = 0 => lines = <<>>
    /\ ~swapped =>
         \/ text = <<>> /\ raf = "none" /\ sock # "open" /\ dirty
         \/ /\ prevLen <= Len(text) /\ lines = Split(SubSeq(text, 1, prevLen))
            /\ prevLen > 0 => prevNewline = EndsLine(SubSeq(text, 1, prevLen))
            /\ ~dirty => prevLen = Len(text)

LEMMA SplitEmpty == Split(<<>>) = <<>>
  <1> DEFINE t == <<>>
  <1>1. t \in Seq(Nat) /\ Len(t) = 0
    OBVIOUS
  <1>2. FirstOf(t, 0) = t /\ Pieces(FirstOf(t, 0)) = << <<>> >>
    BY <1>1, PiecesStep
  <1>3. Pieces(t) \in Chunks /\ Last(Pieces(t)) = <<>>
    BY <1>1, PiecesAreChunks
  <1>4. Split(t) = Front(Pieces(t))
    BY <1>3, WithoutIs DEF Split
  <1>5. Pieces(t) = << <<>> >>
    BY <1>2
  <1> HIDE DEF t
  <1>6. Front(<< <<>> >>) = <<>>
    BY DEF Front
  <1> QED
    BY <1>4, <1>5, <1>6 DEF t

LEMMA TrackLinesInv ==
  ASSUME LinesInv, text \in Seq(Nat), swapped \in BOOLEAN, TrackLines
  PROVE  LinesInv'
  <1> DEFINE n == Len(text)
             reset == n < prevLen \/ (prevLen = 0 /\ n > 0)
             old == SubSeq(text, 1, prevLen)
             new == SubSeq(text, prevLen + 1, n)
  <1>0. n \in Nat /\ prevLen \in Nat
    BY DEF LinesInv
  <1>1. /\ ~dirty' /\ prevLen' = n /\ text' = text /\ swapped' = (swapped /\ ~reset)
        /\ lines' = IF reset THEN Split(text)
                    ELSE IF n > prevLen THEN Extended(lines, new) ELSE lines
        /\ prevNewline' = IF reset \/ n > prevLen THEN EndsLine(text) ELSE prevNewline
    BY DEF TrackLines
  <1>2. SubSeq(text, 1, n) = text
    OBVIOUS
  <1>3. n = 0 <=> text = <<>>
    BY EmptySeq
  <1> HIDE DEF reset
  <1>4. SUFFICES /\ n = 0 => lines' = <<>>
                 /\ ~swapped' => lines' = Split(text) /\ (n > 0 => prevNewline' = EndsLine(text))
    <2>1. SubSeq(text', 1, prevLen') = text /\ Len(text') = prevLen'
      BY <1>1, <1>2
    <2>2. ~swapped' => lines' = Split(SubSeq(text', 1, prevLen'))
                       /\ (prevLen' > 0 => prevNewline' = EndsLine(SubSeq(text', 1, prevLen')))
      BY <1>1, <1>4, <2>1
    <2> QED
      BY <1>0, <1>1, <1>4, <2>1, <2>2 DEF LinesInv
  <1>5. CASE reset
    BY <1>1, <1>3, <1>5, SplitEmpty
  <1>6. CASE ~reset
    <2>1. n >= prevLen /\ (n > 0 => prevLen > 0)
      BY <1>0, <1>6 DEF reset
    <2>2. n = 0 => lines' = <<>>
      BY <1>0, <1>1, <1>6, <2>1 DEF LinesInv
    <2>3. ASSUME ~swapped', n > 0
          PROVE  lines' = Split(text) /\ prevNewline' = EndsLine(text)
      <3>1. ~swapped
        BY <1>1, <1>6, <2>3
      <3>2. /\ prevLen > 0 /\ prevLen <= n /\ lines = Split(old)
            /\ prevNewline = EndsLine(old)
        BY <1>0, <1>3, <2>1, <2>3, <3>1 DEF LinesInv
      <3>3. CASE n > prevLen
        <4>1. old \in Seq(Nat) /\ Len(old) = prevLen /\ new \in Seq(Nat)
          BY <1>0, <3>2, <3>3
        <4>2. old \o new = SubSeq(text, 1, n)
          <5>1. 1 \in 1..(Len(text) + 1) /\ prevLen \in (1 - 1)..Len(text) /\ n \in prevLen..Len(text)
            BY <1>0, <3>2
          <5> QED
            BY <5>1, ConcatAdjacentSubSeq
        <4>3. old # <<>>
          BY <3>2, <4>1, EmptySeq
        <4> HIDE DEF old, new
        <4>4. Extended(lines, new) = Split(text)
          BY <1>2, <3>2, <4>1, <4>2, <4>3, ExtendedSplits
        <4> QED
          BY <1>1, <1>6, <3>3, <4>4
      <3>4. CASE n = prevLen
        <4>1. old = text /\ ~ (n > prevLen)
          BY <1>2, <3>4
        <4> QED
          BY <1>1, <1>6, <3>2, <4>1
      <3> QED
        BY <1>0, <3>2, <3>3, <3>4
    <2>4. n = 0 => text = <<>>
      BY <1>3
    <2> QED
      BY <1>0, <2>2, <2>3, <2>4, SplitEmpty
  <1> QED
    BY <1>5, <1>6

\* A flush that neither replaces nor trims the text adds to its end.
LEMMA FlushLines ==
  ASSUME LinesInv, StreamTypes, swapped \in BOOLEAN, Flush
  PROVE  LinesInv'
  <1>1. PICK p \in Pend : /\ text' = Trim(Flushed(p))
                          /\ swapped' = (swapped \/ (p.snap # NoSnap /\ text # <<>>)
                                                 \/ Len(Flushed(p)) > ClientCap)
    BY DEF Flush, StreamTypes
  <1>2. raf # "none" /\ dirty' /\ UNCHANGED <<lines, prevLen, prevNewline>>
    BY DEF Flush, lineVars
  <1>3. SUFFICES ASSUME ~swapped'
                 PROVE  /\ prevLen <= Len(text') /\ lines = Split(SubSeq(text', 1, prevLen))
                        /\ prevLen > 0 => prevNewline = EndsLine(SubSeq(text', 1, prevLen))
    BY <1>2 DEF LinesInv
  <1>4. /\ ~swapped /\ (p.snap = NoSnap \/ text = <<>>) /\ ~ (Len(Flushed(p)) > ClientCap)
    BY <1>1, <1>3
  <1>5. /\ prevLen \in Nat /\ prevLen <= Len(text) /\ lines = Split(SubSeq(text, 1, prevLen))
        /\ prevLen > 0 => prevNewline = EndsLine(SubSeq(text, 1, prevLen))
    BY <1>2, <1>4 DEF LinesInv
  <1>6. Flushed(p) \in Seq(Nat) /\ text' = Flushed(p)
    BY <1>1, <1>4, FlushedTypes, LiveLogAssumption DEF Trim, StreamTypes
  <1>7. CASE text = <<>>
    <2>1. prevLen = 0
      BY <1>5, <1>7
    <2>2. SubSeq(text', 1, 0) = <<>> /\ SubSeq(text, 1, 0) = <<>> /\ Len(text') \in Nat
      BY <1>6, <1>7
    <2>3. SubSeq(text', 1, prevLen) = SubSeq(text, 1, prevLen) /\ prevLen <= Len(text')
      BY <2>1, <2>2
    <2> QED
      BY <1>5, <2>1, <2>3
  <1>8. CASE p.snap = NoSnap
    <2>1. text' = text \o p.text /\ p.text \in Seq(Nat) /\ text \in Seq(Nat)
      BY <1>6, <1>8 DEF Flushed, Pend, StreamTypes
    <2>2. \A t, d \in Seq(Nat), n \in Nat :
            n <= Len(t) => /\ SubSeq(t \o d, 1, n) = SubSeq(t, 1, n)
                           /\ n <= Len(t \o d)
      OBVIOUS
    <2>3. SubSeq(text', 1, prevLen) = SubSeq(text, 1, prevLen) /\ prevLen <= Len(text')
      BY <1>5, <2>1, <2>2
    <2> QED
      BY <1>5, <2>3
  <1> QED
    BY <1>4, <1>7, <1>8

LEMMA LinesStep ==
  ASSUME LinesInv, StreamInv, SocketInv, swapped \in BOOLEAN, [LiveNext]_liveVars
  PROVE  LinesInv' /\ swapped' \in BOOLEAN
  <1>0. StreamTypes /\ (raf = "none" \/ raf # "none")
    BY DEF StreamInv
  <1>1. CASE TrackLines
    <2>1. swapped' \in BOOLEAN
      BY <1>1 DEF TrackLines
    <2> QED
      BY <1>0, <1>1, <2>1, TrackLinesInv DEF StreamTypes
  <1>2. CASE Flush
    <2>1. swapped' \in BOOLEAN
      BY <1>2 DEF Flush
    <2> QED
      BY <1>0, <1>2, <2>1, FlushLines
  <1>3. CASE ResumeStream
    BY <1>3 DEF ResumeStream, StartEffect, LinesInv, lineVars, SocketInv
  <1>4. ASSUME NEW c, Stop(c) PROVE LinesInv' /\ swapped' \in BOOLEAN
    BY <1>4 DEF Stop, CleanupEffect, LinesInv, lineVars
  <1>5. ASSUME NEW g \in awaiting, Connect(g) PROVE LinesInv' /\ swapped' \in BOOLEAN
    BY <1>5 DEF Connect, LinesInv, lineVars
  <1>6. CASE Open
    BY <1>6 DEF Open, LinesInv, lineVars
  <1>7. CASE Receive
    BY <1>7 DEF Receive, LinesInv, lineVars
  <1>8. CASE Produce \/ SendSnapshot \/ DropRun \/ Close \/ Reconnect \/ Interact
    BY <1>8 DEF Produce, SendSnapshot, DropRun, Close, Reconnect, Interact, LinesInv,
                lineVars, bufVars, hookVars
  <1>9. CASE InactivityTick
    <2>1. UNCHANGED <<text, raf, sock, dirty, swapped, lineVars>> \/ Stop(TRUE)
      BY <1>9 DEF InactivityTick, bufVars, hookVars
    <2> QED
      BY <1>4, <2>1 DEF LinesInv, lineVars
  <1>10. CASE UNCHANGED liveVars
    BY <1>10 DEF liveVars, LinesInv, lineVars, bufVars, hookVars
  <1> QED
    BY <1>1, <1>2, <1>3, <1>4, <1>5, <1>6, <1>7, <1>8, <1>9, <1>10 DEF LiveNext, StopStream

\* The lines, cut chunk by chunk with the last of them open or closed, are those
\* of the text, as long as it was neither replaced nor trimmed since it was last
\* split as a whole (the line effect of LiveRunLogPanel.tsx).
THEOREM LinesAreOfText == LiveSpec => []LinesFollowText
  <1>1. LiveInit => LinesInv /\ swapped \in BOOLEAN
    <2> SUFFICES ASSUME LiveInit PROVE LinesInv /\ swapped \in BOOLEAN
      OBVIOUS
    <2>1. text = <<>> /\ prevLen = 0 /\ lines = <<>> /\ swapped = FALSE /\ dirty
          /\ raf = "none" /\ sock = "none"
      BY DEF LiveInit
    <2> QED
      BY <2>1 DEF LinesInv
  <1>2. LinesInv /\ swapped \in BOOLEAN /\ StreamInv => LinesFollowText
    <2> SUFFICES ASSUME LinesInv, StreamInv, ~dirty, ~swapped PROVE lines = Split(text)
      BY DEF LinesFollowText
    <2>1. lines = Split(SubSeq(text, 1, Len(text))) /\ text \in Seq(Nat)
      BY DEF LinesInv, StreamInv, StreamTypes
    <2>2. SubSeq(text, 1, Len(text)) = text
      BY <2>1
    <2> QED
      BY <2>1, <2>2
  <1>3. LinesInv /\ swapped \in BOOLEAN /\ StreamInv /\ SocketInv /\ [LiveNext]_liveVars
          => LinesInv' /\ (swapped \in BOOLEAN)'
    BY LinesStep
  <1> QED
    BY <1>1, <1>2, <1>3, InitSocketInv, SocketStep, InitStreamInv, StreamStep, PTL DEF LiveSpec

-----------------------------------------------------------------------------
(* Types of the log panel. *)

(* The types. *)

Chars == 1..MaxLog
\* Lines cut from text, and pieces before the last empty one goes.
LineSeq == Seq(Seq(Chars \ Newlines))

\* Generations, sockets and flags.
CountTypes ==
    /\ gen \in 1..MaxStreams /\ awaiting \subseteq 1..MaxStreams
    /\ opened \in 0..MaxSockets /\ alive <= opened
FlagTypes == {ended, connected, dirty, swapped, prevNewline} \subseteq BOOLEAN
HookTypes == CountTypes /\ FlagTypes

\* The hook begins without a socket.
LEMMA InitHookTypes == LiveInit => HookTypes
  <1>1. LiveInit => CountTypes
    BY LiveLogAssumption DEF LiveInit, CountTypes
  <1>2. LiveInit => FlagTypes
    BY DEF LiveInit, FlagTypes
  <1> QED
    BY <1>1, <1>2 DEF HookTypes

\* Every step keeps the numbers and the flags of the hook.
LEMMA HookTypesStep ==
  ASSUME HookTypes, SocketInv, StreamInv, [LiveNext]_liveVars
  PROVE  HookTypes'
  <1> USE DEF HookTypes, CountTypes, FlagTypes
  <1>0. pend.ended \in BOOLEAN /\ due.ended \in BOOLEAN /\ alive \in 0..1
    BY DEF StreamInv, StreamTypes, Pend, SocketInv
  <1>1. CASE Produce \/ SendSnapshot \/ DropRun \/ Receive
    BY <1>1 DEF Produce, SendSnapshot, DropRun, Receive, hookVars, bufVars, lineVars
  <1>2. ASSUME NEW g \in awaiting, Connect(g) PROVE HookTypes'
    <2>1. /\ UNCHANGED <<gen, ended, connected, swapped, prevNewline, dirty>>
          /\ awaiting' = awaiting \ {g}
      BY <1>2 DEF Connect, lineVars
    <2>2. opened' \in 0..MaxSockets /\ alive' <= opened'
      <3>1. CASE MayConnect(g)
        BY <1>0, <1>2, <3>1, LiveLogAssumption DEF Connect
      <3>2. CASE ~MayConnect(g)
        BY <1>2, <3>2 DEF Connect
      <3> QED
        BY <3>1, <3>2
    <2> QED
      BY <2>1, <2>2
  <1>3. CASE Open
    BY <1>3 DEF Open, lineVars
  <1>4. CASE Close
    <2>1. /\ UNCHANGED <<gen, awaiting, opened, ended, swapped, prevNewline, dirty>>
          /\ connected' = FALSE /\ alive' = alive - 1
      BY <1>4 DEF Close, lineVars
    <2>2. gen' \in 1..MaxStreams /\ awaiting' \subseteq 1..MaxStreams /\ opened' \in 0..MaxSockets
      BY <2>1
    <2>3. alive' <= opened'
      BY <1>0, <2>1, LiveLogAssumption
    <2> QED
      BY <2>1, <2>2, <2>3
 <1>5. CASE Reconnect
    BY <1>5 DEF Reconnect, bufVars, lineVars
  <1>6. CASE Flush
    <2>1. /\ UNCHANGED <<hookVars, connected, lineVars>> /\ dirty' = TRUE
          /\ ended' \in BOOLEAN /\ swapped' \in BOOLEAN
      BY <1>6 DEF Flush
    <2> QED
      BY <2>1 DEF hookVars, lineVars
  <1>7. CASE TrackLines
    <2>1. UNCHANGED <<hookVars, ended, connected>> /\ dirty' = FALSE
      BY <1>7 DEF TrackLines
    <2>2. prevNewline' \in BOOLEAN
      BY <1>7 DEF TrackLines, EndsLine
    <2>3. swapped' \in BOOLEAN
      BY <1>7 DEF TrackLines
    <2> QED
      BY <2>1, <2>2, <2>3 DEF hookVars
  <1>8. ASSUME NEW c, Stop(c) PROVE HookTypes'
    <2>1. /\ UNCHANGED <<gen, awaiting, opened, ended, swapped, prevNewline, dirty>>
          /\ connected' = FALSE /\ (alive' = alive \/ alive' = alive - 1)
      BY <1>8 DEF Stop, CleanupEffect, lineVars
    <2>2. gen' \in 1..MaxStreams /\ awaiting' \subseteq 1..MaxStreams /\ opened' \in 0..MaxSockets
      BY <2>1
    <2>3. alive' <= opened'
      BY <1>0, <2>1, LiveLogAssumption
    <2> QED
      BY <2>1, <2>2, <2>3
 <1>9. CASE ResumeStream
    <2>1. /\ gen < MaxStreams /\ gen' = gen + 1 /\ awaiting' = awaiting \cup {gen + 1}
          /\ ended' = FALSE /\ connected' = FALSE /\ swapped' = FALSE /\ dirty' = TRUE
          /\ UNCHANGED <<opened, alive, prevNewline>>
      BY <1>9 DEF ResumeStream, StartEffect, lineVars
    <2>2. gen + 1 \in 1..MaxStreams
      BY <2>1, LiveLogAssumption
    <2> QED
      BY <2>1, <2>2
  <1>10. CASE UNCHANGED <<hookVars, bufVars, lineVars, dirty>>
    BY <1>10 DEF hookVars, bufVars, lineVars
  <1> QED
    BY <1>1, <1>2, <1>3, <1>4, <1>5, <1>6, <1>7, <1>8, <1>9, <1>10
       DEF LiveNext, StopStream, Interact, InactivityTick, liveVars

-----------------------------------------------------------------------------
\* A snapshot, and what is buffered, hold characters of the log.
SnapChars(s) == s = NoSnap \/ s.text \in Seq(Chars)
PendChars(p) == SnapChars(p.snap) /\ p.text \in Seq(Chars)
MessageChars(m) ==
    /\ m.type = "log" => m.at \in Chars
    /\ m.type = "snapshot" => SnapChars(m.snap)

CharTypes ==
    /\ hub.last <= MaxLog /\ SnapChars(snapDue)
    /\ \A i \in 1..Len(wire) : MessageChars(wire[i])
    /\ PendChars(pend) /\ PendChars(due)
    /\ text \in Seq(Chars) /\ Len(text) <= ClientCap

\* Nothing that is due has no characters.
LEMMA NoChars == SnapChars(NoSnap) /\ PendChars(NoPend)
  <1>1. NoPend.snap = NoSnap /\ NoPend.text = <<>>
    BY DEF NoPend
  <1> QED
    BY <1>1, EmptySeq DEF SnapChars, PendChars

\* The hub begins with the log as it is.
LEMMA InitCharTypes == LiveInit => CharTypes
  <1> SUFFICES ASSUME LiveInit PROVE CharTypes
    OBVIOUS
  <1>1. /\ hub.last = 0 /\ snapDue = NoSnap /\ wire = <<>> /\ Len(wire) = 0
        /\ pend = NoPend /\ due = NoPend /\ text = <<>> /\ Len(text) = 0
    BY EmptySeq DEF LiveInit
  <1> QED
    BY <1>1, NoChars, EmptySeq, LiveLogAssumption DEF CharTypes

\* A message is put behind what is on the wire.
LEMMA WireGrows ==
  ASSUME CharTypes, wire \in Seq(Message), NEW m \in Message, MessageChars(m),
         wire' = Append(wire, m)
  PROVE  \A i \in 1..Len(wire') : MessageChars(wire'[i])
  <1>1. Len(wire') = Len(wire) + 1 /\ Len(wire) \in Nat
    OBVIOUS
  <1>2. /\ \A i \in 1..Len(wire) : wire'[i] = wire[i]
        /\ wire'[Len(wire) + 1] = m
    OBVIOUS
  <1>3. \A i \in 1..Len(wire') : i \in 1..Len(wire) \/ i = Len(wire) + 1
    BY <1>1
  <1> QED
    BY <1>2, <1>3 DEF CharTypes

\* A text is a sequence of numbers, for the lemmas on the text.
LEMMA TextOfChars == ASSUME NEW t \in Seq(Chars) PROVE t \in Seq(Nat) /\ Len(t) \in Nat
  <1>1. Len(t) \in Nat /\ t = [i \in 1..Len(t) |-> t[i]] /\ \A i \in 1..Len(t) : t[i] \in Chars
    OBVIOUS
  <1>2. \A i \in 1..Len(t) : t[i] \in Nat
    BY <1>1 DEF Chars
  <1> QED
    BY <1>1, <1>2

\* The text fits after it was trimmed, and has no other characters.
LEMMA TrimFits ==
  ASSUME NEW t \in Seq(Chars)
  PROVE  Trim(t) \in Seq(Chars) /\ Len(Trim(t)) <= ClientCap
  <1>0. t \in Seq(Nat) /\ Len(t) \in Nat
    BY TextOfChars
  <1>1. CASE Len(t) <= ClientCap
    BY <1>1 DEF Trim
  <1>2. CASE ~(Len(t) <= ClientCap)
    <2> DEFINE over == Len(t) - ClientCap
               ends == {i \in (over + 1)..Len(t) : t[i] \in Newlines}
               a == IF ends # {} THEN Min(ends) + 1 ELSE over + 1
    <2>1. over \in 1..Len(t)
      BY <1>0, <1>2, LiveLogAssumption
    <2>2. ends \subseteq (over + 1)..Len(t) /\ ends \subseteq Nat
      BY <2>1
    <2>3. a \in (over + 1)..(Len(t) + 1)
      <3> HIDE DEF ends, over
      <3>1. CASE ends # {}
        <4>1. Min(ends) \in ends
          BY <2>2, <3>1, LeastOf
        <4>2. Min(ends) \in (over + 1)..Len(t)
          BY <2>2, <4>1
        <4> HIDE DEF a
        <4>3. a = Min(ends) + 1
          BY <3>1 DEF a
        <4> QED
          BY <2>1, <4>2, <4>3
      <3>2. CASE ends = {}
        BY <1>0, <2>1, <3>2
      <3> QED
        BY <3>1, <3>2
    <2>4. Trim(t) = SubSeq(t, a, Len(t))
      BY <1>2 DEF Trim
    <2> HIDE DEF a, ends
    <2>5. SubSeq(t, a, Len(t)) \in Seq(Chars) /\ Len(SubSeq(t, a, Len(t))) = Len(t) - a + 1
      BY <1>0, <2>1, <2>3
    <2> QED
      BY <1>0, <2>1, <2>3, <2>4, <2>5, LiveLogAssumption
  <1> QED
    BY <1>1, <1>2

\* What a frame writes are characters.
LEMMA FlushChars ==
  ASSUME CharTypes, NEW p, PendChars(p)
  PROVE  Flushed(p) \in Seq(Chars)
  <1>1. CASE p.snap = NoSnap
    BY <1>1, ConcatProperties DEF Flushed, CharTypes, PendChars
  <1>2. CASE p.snap # NoSnap
    BY <1>2, ConcatProperties DEF Flushed, PendChars, SnapChars
  <1> QED
    BY <1>1, <1>2

\* What is received is buffered.
LEMMA ReceiveChars ==
  ASSUME CharTypes, StreamTypes, Receive
  PROVE  CharTypes'
  <1> DEFINE m == wire[1]
  <1>1. /\ wire \in Seq(Message) /\ wire # <<>> /\ Len(wire) \in Nat \ {0}
        /\ m \in Message /\ MessageChars(m)
    BY EmptySeq DEF CharTypes, StreamTypes, Receive
  <1>2. /\ pend' = Buffered(pend, m) /\ wire' = Tail(wire)
        /\ UNCHANGED <<hub, snapDue, text, due>>
    BY <1>1 DEF Receive
  <1>3. \A i \in 1..Len(wire') : MessageChars(wire'[i])
    <2>1. Len(wire') = Len(wire) - 1 /\ \A i \in 1..Len(wire') : wire'[i] = wire[i + 1]
      BY <1>1, <1>2
    <2> QED
      BY <1>1, <2>1 DEF CharTypes
  <1> HIDE DEF m
  <1>4. m.type \in {"log", "snapshot", "run_ended"}
    BY <1>1, Records
  <1>5. pend \in Pend
    BY DEF StreamTypes
  <1>6. PendChars(pend')
    <2>1. CASE m.type = "snapshot"
      <3>1. pend' = [pend EXCEPT !.snap = m.snap, !.text = <<>>]
        BY <1>2, <2>1 DEF Buffered
      <3>2. pend'.snap = m.snap /\ pend'.text = <<>>
        BY <1>5, <3>1 DEF Pend
      <3> QED
        BY <1>1, <2>1, <3>2, EmptySeq DEF MessageChars, PendChars
    <2>2. CASE m.type = "log"
      <3>1. pend' = [pend EXCEPT !.text = Append(@, m.at)]
        BY <1>2, <2>2 DEF Buffered
      <3>2. pend'.snap = pend.snap /\ pend'.text = Append(pend.text, m.at)
        BY <1>5, <3>1 DEF Pend
      <3> QED
        BY <1>1, <2>2, <3>2, AppendProperties DEF MessageChars, PendChars, CharTypes
    <2>3. CASE m.type = "run_ended"
      <3>1. pend' = [pend EXCEPT !.ended = TRUE]
        BY <1>2, <2>3 DEF Buffered
      <3>2. pend'.snap = pend.snap /\ pend'.text = pend.text
        BY <1>5, <3>1 DEF Pend
      <3> QED
        BY <3>2 DEF PendChars, CharTypes
    <2> QED
      BY <1>4, <2>1, <2>2, <2>3
  <1> QED
    BY <1>2, <1>3, <1>6 DEF CharTypes

\* Every step moves characters of the log only.
LEMMA CharTypesStep ==
  ASSUME CharTypes, SocketInv, StreamInv, [LiveNext]_liveVars
  PROVE  CharTypes'
  <1>0. StreamTypes /\ StreamTypes' /\ hub.last \in Nat /\ hub.first \in Nat \ {0}
        /\ hub.first <= hub.last + 1
    BY StreamStep DEF StreamInv, StreamTypes, HubInv
  <1>1. CASE Produce
    <2> DEFINE n == hub.last + 1
    <2>1. /\ hub'.last = n /\ n <= MaxLog /\ n \in Chars
          /\ wire' = wire \/ wire' = Append(wire, [type |-> "log", at |-> n])
          /\ UNCHANGED <<snapDue, text, pend, due>>
      BY <1>0, <1>1, LiveLogAssumption DEF Produce, bufVars, Chars
    <2>2. [type |-> "log", at |-> n] \in Message /\ MessageChars([type |-> "log", at |-> n])
      BY <2>1 DEF Chars, Message, MessageChars
    <2>3. \A i \in 1..Len(wire') : MessageChars(wire'[i])
      <3> HIDE DEF n
      <3>1. CASE wire' = wire
        BY <3>1 DEF CharTypes
      <3>2. CASE wire' = Append(wire, [type |-> "log", at |-> n])
        BY <1>0, <2>2, <3>2, WireGrows DEF StreamTypes
      <3> QED
        BY <2>1, <3>1, <3>2
    <2> QED
      BY <2>1, <2>3 DEF CharTypes
  <1>2. CASE SendSnapshot
    <2>1. /\ wire' = Append(wire, [type |-> "snapshot", snap |-> snapDue])
          /\ snapDue' = NoSnap /\ UNCHANGED <<hub, text, pend, due>>
      BY <1>2 DEF SendSnapshot, bufVars
    <2>2. /\ [type |-> "snapshot", snap |-> snapDue] \in Message
          /\ MessageChars([type |-> "snapshot", snap |-> snapDue])
      BY <1>0, Messages DEF StreamTypes, MessageChars, CharTypes
    <2>3. \A i \in 1..Len(wire') : MessageChars(wire'[i])
      BY <1>0, <2>1, <2>2, WireGrows DEF StreamTypes
    <2> QED
      BY <2>1, <2>3, NoChars DEF CharTypes
  <1>3. CASE DropRun
    <2>1. /\ hub'.last = hub.last /\ UNCHANGED <<snapDue, text, pend, due>>
          /\ wire' = wire \/ wire' = Append(wire, [type |-> "run_ended"])
      BY <1>3 DEF DropRun, bufVars
    <2>2. [type |-> "run_ended"] \in Message /\ MessageChars([type |-> "run_ended"])
      BY Messages DEF MessageChars
    <2>3. \A i \in 1..Len(wire') : MessageChars(wire'[i])
      <3>1. CASE wire' = wire
        BY <3>1 DEF CharTypes
      <3>2. CASE wire' = Append(wire, [type |-> "run_ended"])
        BY <1>0, <2>2, <3>2, WireGrows DEF StreamTypes
      <3> QED
        BY <2>1, <3>1, <3>2
    <2> QED
      BY <2>1, <2>3 DEF CharTypes
  <1>4. ASSUME NEW g \in awaiting, Connect(g) PROVE CharTypes'
    <2>1. /\ UNCHANGED <<hub, snapDue, wire, text>>
          /\ pend' \in {pend, NoPend} /\ due' \in {pend, due}
      BY <1>4 DEF Connect, wireVars
    <2> QED
      BY <2>1, NoChars DEF CharTypes
  <1>5. CASE Open
    <2> DEFINE t == Range12(hub.first, hub.last)
    <2>1. /\ UNCHANGED <<hub, wire, text, pend, due>>
          /\ snapDue' = Snap(t, hub.first > 1 /\ hub.first <= hub.last)
      BY <1>5 DEF Open
    <2>2. snapDue'.text = t
      BY <2>1 DEF Snap
    <2>3. t \in Seq(Chars)
      <3>1. hub.last + 1 - hub.first \in Nat
        BY <1>0
      <3>2. \A i \in 1..(hub.last + 1 - hub.first) : hub.first + i - 1 \in Chars
        BY <1>0, <3>1, LiveLogAssumption DEF Chars, CharTypes
      <3> QED
        BY <3>1, <3>2 DEF Range12
    <2> QED
      BY <2>1, <2>2, <2>3 DEF CharTypes, SnapChars
  <1>6. CASE Close \/ Reconnect
    <2>1. UNCHANGED <<hub, text, pend, due>>
          /\ ((snapDue' = NoSnap /\ wire' = <<>>) \/ UNCHANGED <<snapDue, wire>>)
      BY <1>6 DEF Close, Reconnect, wireVars, bufVars
    <2> QED
      BY <2>1, NoChars, EmptySeq DEF CharTypes
  <1>7. CASE Receive
    BY <1>0, <1>7, ReceiveChars
  <1>8. CASE Flush
    <2>1. PICK p \in {pend, due} : text' = Trim(Flushed(p))
      BY <1>8 DEF Flush
    <2>2. UNCHANGED <<hub, snapDue, wire>> /\ pend' \in {pend, NoPend} /\ due' = NoPend
      BY <1>8 DEF Flush, wireVars
    <2>3. text' \in Seq(Chars) /\ Len(text') <= ClientCap
      BY <2>1, FlushChars, TrimFits DEF CharTypes
    <2> QED
      BY <2>2, <2>3, NoChars DEF CharTypes
  <1>9. ASSUME NEW c, Stop(c) PROVE CharTypes'
    <2>1. UNCHANGED <<hub, text>> /\ snapDue' = NoSnap /\ wire' = <<>>
          /\ pend' = NoPend /\ due' = NoPend
      BY <1>9 DEF Stop, CleanupEffect
    <2> QED
      BY <2>1, NoChars, EmptySeq DEF CharTypes
  <1>10. CASE ResumeStream
    <2>1. /\ UNCHANGED <<hub, snapDue, wire>> /\ text' = <<>>
          /\ pend' = NoPend /\ due' = NoPend
      BY <1>10 DEF ResumeStream, StartEffect
    <2>2. text' \in Seq(Chars) /\ Len(text') = 0
      BY <2>1, EmptySeq
    <2> QED
      BY <2>1, <2>2, NoChars, LiveLogAssumption DEF CharTypes
  <1>11. CASE UNCHANGED <<hub, snapDue, wire, text, pend, due>>
    BY <1>11 DEF CharTypes
  <1> QED
    BY <1>1, <1>2, <1>3, <1>4, <1>5, <1>6, <1>7, <1>8, <1>9, <1>10, <1>11
       DEF LiveNext, StopStream, Interact, InactivityTick, TrackLines, liveVars, wireVars, bufVars

-----------------------------------------------------------------------------
\* A character that is no newline goes to the last piece.
LEMMA PutInside ==
  ASSUME NEW ps \in LineSeq, Len(ps) > 0, NEW c \in Chars
  PROVE  Put(ps, c) \in LineSeq /\ Len(Put(ps, c)) > 0
  <1> DEFINE S == Seq(Chars \ Newlines)
  <1>0. ps \in Seq(S) /\ Len(ps) \in Nat /\ ps[Len(ps)] \in S
    BY DEF LineSeq
  <1>1. CASE c \in Newlines
    <2>1. Put(ps, c) = Append(ps, <<>>) /\ <<>> \in S
      BY <1>1, EmptySeq DEF Put
    <2> HIDE DEF S
    <2>2. Append(ps, <<>>) \in Seq(S) /\ Len(Append(ps, <<>>)) = Len(ps) + 1
      BY <1>0, <2>1
    <2> QED
      BY <1>0, <2>1, <2>2 DEF LineSeq, S
  <1>2. CASE c \notin Newlines
    <2> DEFINE front == Front(ps)
               line == Append(Last(ps), c)
    <2>1. line \in S
      <3>1. Last(ps) \in Seq(Chars \ Newlines)
        BY <1>0 DEF Last
      <3> QED
        BY <1>2, <3>1, AppendProperties
    <2>2. Put(ps, c) = Append(front, line)
      BY <1>2 DEF Put
    <2> HIDE DEF S, line
    <2>3. front \in Seq(S) /\ Len(front) \in Nat
      <3>1. front = SubSeq(ps, 1, Len(ps) - 1) /\ Len(ps) - 1 \in 0..Len(ps)
        BY <1>0 DEF Front
      <3> QED
        BY <1>0, <3>1, FirstOfLog
    <2> HIDE DEF front
    <2>4. Append(front, line) \in Seq(S) /\ Len(Append(front, line)) = Len(front) + 1
      BY <2>1, <2>3
    <2> QED
      BY <2>2, <2>3, <2>4 DEF LineSeq, S
  <1> QED
    BY <1>1, <1>2

\* The pieces of a text have no newlines.
LEMMA PiecesInside ==
  ASSUME NEW t \in Seq(Chars)
  PROVE  Pieces(t) \in LineSeq /\ Len(Pieces(t)) > 0
  <1> DEFINE T == {n \in 0..Len(t) : Pieces(FirstOf(t, n)) \in LineSeq /\ Len(Pieces(FirstOf(t, n))) > 0}
  <1>0. t \in Seq(Nat) /\ Len(t) \in Nat
    BY TextOfChars
  <1>1. << <<>> >> \in LineSeq /\ Len(<< <<>> >>) > 0
    <2>1. <<>> \in Seq(Chars \ Newlines)
      BY EmptySeq
    <2> QED
      BY <2>1 DEF LineSeq
  <1>2. 0 \in T
    <2>1. Pieces(FirstOf(t, 0)) = << <<>> >>
      BY <1>0, PiecesStep
    <2>2. Pieces(FirstOf(t, 0)) \in LineSeq /\ Len(Pieces(FirstOf(t, 0))) > 0
      BY Zenon, <1>1, <2>1
    <2>3. 0 \in 0..Len(t)
      BY <1>0
    <2> QED
      BY Zenon, <2>2, <2>3
  <1>3. ASSUME NEW n \in 1..Len(t), n - 1 \in T PROVE n \in T
    <2>1. /\ Pieces(FirstOf(t, n - 1)) \in LineSeq /\ Len(Pieces(FirstOf(t, n - 1))) > 0
          /\ t[n] \in Chars
      BY <1>0, <1>3
    <2>2. Pieces(FirstOf(t, n)) = Put(Pieces(FirstOf(t, n - 1)), t[n])
      BY <1>0, PiecesStep
    <2>3. Pieces(FirstOf(t, n)) \in LineSeq /\ Len(Pieces(FirstOf(t, n))) > 0
      BY <2>1, <2>2, PutInside
    <2> QED
      BY <1>0, <2>3
  <1> HIDE DEF T
  <1>4. \A n \in 0..Len(t) : n \in T
    BY <1>0, <1>2, <1>3, UpToTheEnd
  <1>5. Len(t) \in T
    BY <1>0, <1>4
  <1>6. FirstOf(t, Len(t)) = t
    BY <1>0, PiecesStep
  <1> QED
    BY <1>5, <1>6 DEF T

\* The ends of a sequence.
LEMMA FrontInside ==
  ASSUME NEW S, NEW ls \in Seq(S), ls # <<>>
  PROVE  Front(ls) \in Seq(S) /\ Last(ls) \in S /\ Head(ls) \in S /\ Tail(ls) \in Seq(S)
  <1>1. Len(ls) \in Nat /\ Len(ls) > 0
    BY EmptySeq
  <1>2. Front(ls) = SubSeq(ls, 1, Len(ls) - 1) /\ Len(ls) - 1 \in 0..Len(ls)
    BY <1>1 DEF Front
  <1>3. Front(ls) \in Seq(S)
    BY <1>2, FirstOfLog
  <1> QED
    BY <1>1, <1>3, HeadTailProperties DEF Last

\* A last line that is empty is left out.
LEMMA WithoutInside ==
  ASSUME NEW ls \in LineSeq
  PROVE  WithoutLastEmpty(ls) \in LineSeq
  <1>1. CASE ls = <<>>
    BY <1>1 DEF WithoutLastEmpty
  <1>2. CASE ls # <<>>
    BY <1>2, FrontInside DEF WithoutLastEmpty, LineSeq
  <1> QED
    BY <1>1, <1>2

\* Lines that a text is put behind are lines.
LEMMA ExtendedInside ==
  ASSUME NEW ls \in LineSeq, NEW d \in Seq(Chars)
  PROVE  Extended(ls, d) \in LineSeq
  <1> DEFINE ps == Pieces(d)
             S == Seq(Chars \ Newlines)
             one == <<Last(ls) \o Head(ps)>>
  <1>1. ps \in Seq(S) /\ ps # <<>>
    BY PiecesInside, EmptySeq DEF LineSeq
  <1>2. CASE ls = <<>> \/ prevNewline
    <2>1. Extended(ls, d) = WithoutLastEmpty(ls \o ps)
      BY <1>2 DEF Extended
    <2>2. ls \o ps \in LineSeq
      <3> HIDE DEF ps
      <3> QED
        BY <1>1, ConcatProperties DEF LineSeq
    <2> QED
      BY <2>1, <2>2, WithoutInside
  <1>3. CASE ls # <<>> /\ ~prevNewline
    <2>1. Extended(ls, d) = WithoutLastEmpty(Front(ls) \o one \o Tail(ps))
      BY <1>3 DEF Extended
    <2> HIDE DEF ps
    <2>2. ls \in Seq(S)
      BY DEF LineSeq
    <2>3. Front(ls) \in Seq(S) /\ Last(ls) \in S /\ Head(ps) \in S /\ Tail(ps) \in Seq(S)
      <3> HIDE DEF S
      <3> QED
        BY <1>1, <1>3, <2>2, FrontInside
    <2>4. Last(ls) \o Head(ps) \in S
      BY <2>3, ConcatProperties
    <2> HIDE DEF S
    <2>5. one \in Seq(S)
      BY <2>4
    <2> HIDE DEF one
    <2>6. Front(ls) \o one \in Seq(S)
      BY <2>3, <2>5, ConcatProperties
    <2>7. Front(ls) \o one \o Tail(ps) \in Seq(S)
      BY <2>3, <2>6, ConcatProperties
    <2> QED
      BY <2>1, <2>7, WithoutInside DEF LineSeq, S
  <1> QED
    BY <1>2, <1>3

LineTypes == prevLen \in 0..ClientCap /\ lines \in LineSeq

\* Lines are made of the text, or are put behind those there are.
LEMMA LineTypesStep ==
  ASSUME LineTypes, CharTypes, [LiveNext]_liveVars
  PROVE  LineTypes'
  <1>1. CASE TrackLines
    <2> DEFINE n == Len(text)
               new == SubSeq(text, prevLen + 1, n)
    <2>1. n \in 0..ClientCap /\ prevLen' = n
      BY <1>1, LiveLogAssumption DEF TrackLines, CharTypes
    <2>2. lines' \in {Split(text), lines} \/ (n > prevLen /\ lines' = Extended(lines, new))
      BY <1>1 DEF TrackLines
    <2>3. Split(text) \in LineSeq
      BY PiecesInside, WithoutInside DEF Split, CharTypes
    <2>4. n > prevLen => new \in Seq(Chars)
      BY <2>1, LiveLogAssumption DEF LineTypes, CharTypes
    <2> HIDE DEF n, new
    <2>5. n > prevLen => Extended(lines, new) \in LineSeq
      BY <2>4, ExtendedInside DEF LineTypes
    <2> QED
      BY <2>1, <2>2, <2>3, <2>5 DEF LineTypes
  <1>2. CASE UNCHANGED lineVars
    BY <1>2 DEF LineTypes, lineVars
  <1> QED
    BY <1>1, <1>2
       DEF LiveNext, Produce, SendSnapshot, DropRun, Connect, Open, Close, Reconnect, Receive,
           Flush, StopStream, ResumeStream, StartEffect, Interact, InactivityTick, Stop,
           CleanupEffect, liveVars

\* The log panel of a live run keeps its text, its lines, its frames and its
\* socket of their types (useRunLogStream.ts, LiveLogPanel.tsx).
LEMMA LiveTyped == LiveSpec => []LiveTypeOK
  <1>1. LiveInit => LineTypes
    BY EmptySeq, LiveLogAssumption DEF LiveInit, LineTypes, LineSeq
  <1>2. StreamInv /\ SocketInv /\ HookTypes /\ CharTypes /\ LineTypes => LiveTypeOK
    <2> SUFFICES ASSUME StreamInv, SocketInv, HookTypes, CharTypes, LineTypes PROVE LiveTypeOK
      OBVIOUS
    <2>1. hub \in [first : 1..(MaxLog + 1), last : 0..MaxLog, over : BOOLEAN]
      <3>1. hub \in [first : Nat \ {0}, last : Nat, over : BOOLEAN] /\ hub.first <= hub.last + 1
            /\ hub.last <= MaxLog
        BY DEF StreamInv, StreamTypes, HubInv, CharTypes
      <3>2. hub.first \in 1..(MaxLog + 1) /\ hub.last \in 0..MaxLog
        BY <3>1, LiveLogAssumption
      <3> QED
        BY <3>1, <3>2
    <2>2. /\ gen \in 0..MaxStreams /\ awaiting \subseteq 1..MaxStreams
          /\ opened \in 0..MaxSockets
      BY LiveLogAssumption DEF HookTypes, CountTypes
    <2>3. alive \in 0..MaxSockets
      <3>1. alive \in 0..1
        BY DEF SocketInv
      <3> QED
        BY <3>1, LiveLogAssumption DEF HookTypes, CountTypes
    <2>4. /\ sock \in {"none", "dialing", "open", "timer"}
          /\ panel \in [stopped : BOOLEAN, countdown : BOOLEAN, idle : BOOLEAN]
          /\ raf \in {"none", "current", "old"}
      BY DEF SocketInv, StreamInv, StreamTypes
    <2>5. text \in Seq(1..MaxLog) /\ Len(text) <= ClientCap
      BY DEF CharTypes, Chars
    <2>6. {truncated, ended, connected, dirty, swapped, overtaken, prevNewline} \subseteq BOOLEAN
      BY DEF StreamInv, StreamTypes, HookTypes, FlagTypes
    <2>7. prevLen \in 0..ClientCap /\ \A l \in DOMAIN lines : lines[l] \in Seq(1..MaxLog \ Newlines)
      BY DEF LineTypes, LineSeq, Chars
    <2> QED
      BY <2>1, <2>2, <2>3, <2>4, <2>5, <2>6, <2>7 DEF LiveTypeOK
  <1>3. HookTypes /\ SocketInv /\ StreamInv /\ [LiveNext]_liveVars => HookTypes'
    BY HookTypesStep
  <1>4. CharTypes /\ SocketInv /\ StreamInv /\ [LiveNext]_liveVars => CharTypes'
    BY CharTypesStep
  <1>5. LineTypes /\ CharTypes /\ [LiveNext]_liveVars => LineTypes'
    BY LineTypesStep
  <1> QED
    BY <1>1, <1>2, <1>3, <1>4, <1>5, InitHookTypes, InitCharTypes, InitSocketInv, SocketStep,
       InitStreamInv, StreamStep, PTL DEF LiveSpec

-----------------------------------------------------------------------------
(* The files of a run, and its tiles. *)

\* A failed fetch of config.json is on the way to being repeated, has been missed
\* early, or leaves the live view to be left, which asks again. Files that have
\* been read cannot be missed afterwards.
ConfigInv ==
    /\ srvRun.files \in {"none", "running", "done"}
    /\ srcLive \in {"loading", "none", "live"}
    /\ srcEarly \in BOOLEAN
    /\ srcConfig \in [data : {None, "running", "done"}, failed : BOOLEAN, busy : BOOLEAN]
    /\ srcConfig.data # None => srvRun.files # "none" /\ ~srcConfig.failed
    /\ (srcConfig.data = None /\ ~srcConfig.busy) => srcConfig.failed
    /\ (srcConfig.failed /\ srcLive = "none") => srcEarly

LEMMA InitConfigInv == SourceInit => ConfigInv
  <1> SUFFICES ASSUME SourceInit PROVE ConfigInv
    OBVIOUS
  <1>1. srvRun.files \in {"none", "running", "done"}
    BY DEF SourceInit
  <1>2. /\ srcConfig \in [data : {None, "running", "done"}, failed : BOOLEAN, busy : BOOLEAN]
        /\ srcConfig.data = None /\ ~srcConfig.failed /\ srcConfig.busy
    BY DEF SourceInit
  <1> QED
    BY <1>1, <1>2 DEF SourceInit, ConfigInv

\* The run's files only come.
LEMMA RunStep ==
  ASSUME ConfigInv, Report \/ WriteConfig \/ FinishRun \/ RowGoes
  PROVE  ConfigInv'
  <1>1. UNCHANGED <<srcLive, srcConfig, srcEarly>>
    BY DEF Report, WriteConfig, FinishRun, RowGoes
  <1>2. /\ srvRun'.files \in {"none", "running", "done"}
        /\ srvRun.files # "none" => srvRun'.files # "none"
    <2>1. CASE Report
      <3>1. srvRun'.files = srvRun.files
        BY <2>1 DEF Report
      <3> QED
        BY <3>1 DEF ConfigInv
    <2>2. CASE RowGoes
      <3>1. srvRun'.files = srvRun.files
        BY <2>2 DEF RowGoes
      <3> QED
        BY <3>1 DEF ConfigInv
    <2>3. CASE WriteConfig
      BY <2>3 DEF WriteConfig, ConfigInv
    <2>4. CASE FinishRun
      BY <2>4 DEF FinishRun, ConfigInv
    <2> QED
      BY <2>1, <2>2, <2>3, <2>4
  <1> QED
    BY <1>1, <1>2 DEF ConfigInv

\* What a fetch that starts makes of the query.
LEMMA Refetching ==
  ASSUME ConfigInv, NEW fetched \in BOOLEAN, srcConfig' = ConfigRefetched(fetched)
  PROVE  /\ srcConfig' \in [data : {None, "running", "done"}, failed : BOOLEAN, busy : BOOLEAN]
         /\ srcConfig'.data = srcConfig.data
         /\ fetched => srcConfig'.busy /\ ~srcConfig'.failed
         /\ ~fetched => srcConfig' = srcConfig
  <1>1. CASE fetched
    <2>1. srcConfig' = [srcConfig EXCEPT !.busy = TRUE,
                                         !.failed = @ /\ srcConfig.data # None]
      BY <1>1 DEF ConfigRefetched
    <2>2. (srcConfig.failed /\ srcConfig.data # None) = FALSE
      BY DEF ConfigInv
    <2>3. srcConfig' = [data |-> srcConfig.data, failed |-> FALSE, busy |-> TRUE]
      BY <2>1, <2>2 DEF ConfigInv
    <2>4. srcConfig.data \in {None, "running", "done"}
      BY DEF ConfigInv
    <2>5. /\ srcConfig' \in [data : {None, "running", "done"}, failed : BOOLEAN, busy : BOOLEAN]
          /\ srcConfig'.data = srcConfig.data /\ srcConfig'.busy /\ ~srcConfig'.failed
      BY <2>3, <2>4
    <2> QED
      BY <1>1, <2>5
  <1>2. CASE ~fetched
    BY <1>2 DEF ConfigRefetched, ConfigInv
  <1> QED
    BY <1>1, <1>2

\* The poll that leaves the live view asks for the files again.
LEMMA PollStep ==
  ASSUME ConfigInv, PollLive
  PROVE  ConfigInv'
  <1>1. /\ srvRun' = srvRun /\ srcLive' \in {"none", "live"}
        /\ srcEarly' = (srcEarly \/ (srcConfig.failed /\ srcLive' = "none" /\ srcLive # "live"))
    BY DEF PollLive
  <1>2. CASE FetchOnDisk(srcLive') /\ ~FetchOnDisk(srcLive)
    <2>1. PICK stale \in BOOLEAN : srcConfig' = ConfigRefetched(srcConfig.data = None \/ stale)
      BY <1>2 DEF PollLive, Enable
    <2>2. CASE srcConfig.data = None \/ stale
      <3>1. (srcConfig.data = None \/ stale) = TRUE
        BY <2>2
      <3>2. /\ srcConfig' \in [data : {None, "running", "done"}, failed : BOOLEAN, busy : BOOLEAN]
            /\ srcConfig'.data = srcConfig.data /\ srcConfig'.busy /\ ~srcConfig'.failed
        BY <2>1, <3>1, Refetching
      <3> QED
        BY <1>1, <3>2 DEF ConfigInv
    <2>3. CASE ~(srcConfig.data = None \/ stale)
      <3>1. srcConfig' = srcConfig /\ srcConfig.data # None
        BY <2>1, <2>3 DEF ConfigRefetched
      <3> QED
        BY <1>1, <3>1 DEF ConfigInv
    <2> QED
      BY <2>2, <2>3
  <1>3. CASE ~(FetchOnDisk(srcLive') /\ ~FetchOnDisk(srcLive))
    <2>1. srcConfig' = srcConfig
      BY <1>3 DEF PollLive, Enable
    <2>2. srcLive' = "none" => srcLive # "live"
      BY <1>3 DEF FetchOnDisk
    <2> QED
      BY <1>1, <2>1, <2>2 DEF ConfigInv
  <1> QED
    BY <1>2, <1>3

LEMMA AnswerStep ==
  ASSUME ConfigInv, ConfigAnswers
  PROVE  ConfigInv'
  <1>1. /\ srvRun' = srvRun /\ srcLive' = srcLive
        /\ srcEarly' = (srcEarly \/ (srvRun.files = "none" /\ srcLive = "none"))
    BY DEF ConfigAnswers
  <1>2. CASE srvRun.files = "none"
    <2>1. srcConfig' = [data |-> srcConfig.data, failed |-> TRUE, busy |-> FALSE]
          /\ srcConfig.data = None
      BY <1>2 DEF ConfigAnswers, ConfigInv
    <2> QED
      BY <1>1, <1>2, <2>1 DEF ConfigInv
  <1>3. CASE srvRun.files # "none"
    <2>1. srcConfig' = [data |-> srvRun.files, failed |-> FALSE, busy |-> FALSE]
      BY <1>3 DEF ConfigAnswers
    <2>2. srvRun.files \in {"running", "done"} /\ srvRun.files # None
      BY <1>3, SourceAssumption DEF ConfigInv
    <2> QED
      BY <1>1, <1>3, <2>1, <2>2 DEF ConfigInv
  <1> QED
    BY <1>2, <1>3

LEMMA RetryStep ==
  ASSUME ConfigInv, Retry
  PROVE  ConfigInv'
  <1>1. /\ srcConfig' \in [data : {None, "running", "done"}, failed : BOOLEAN, busy : BOOLEAN]
        /\ srcConfig'.data = srcConfig.data /\ srcConfig'.busy /\ ~srcConfig'.failed
    BY Refetching DEF Retry
  <1>2. UNCHANGED <<srvRun, srcLive, srcEarly>>
    BY DEF Retry
  <1> QED
    BY <1>1, <1>2 DEF ConfigInv

LEMMA ConfigStep == ConfigInv /\ [SourceNext]_sourceVars => ConfigInv'
  <1> SUFFICES ASSUME ConfigInv, [SourceNext]_sourceVars
               PROVE  ConfigInv'
    OBVIOUS
  <1>1. CASE Report \/ WriteConfig \/ FinishRun \/ RowGoes
    BY <1>1, RunStep
  <1>2. CASE PollLive
    BY <1>2, PollStep
  <1>3. CASE ConfigAnswers
    BY <1>3, AnswerStep
  <1>4. CASE Retry
    BY <1>4, RetryStep
  <1>5. CASE ResultAnswers \/ TileEffect \/ PopTimer \/ UNCHANGED sourceVars
    BY <1>5 DEF ResultAnswers, TileEffect, PopTimer, sourceVars, ConfigInv
  <1> QED
    BY <1>1, <1>2, <1>3, <1>4, <1>5 DEF SourceNext

\* However the polls of the live runs, config.json and result.json interleave with
\* the end of the run and its indexing, the page ends on the run's files
\* (RunDetailPage.tsx, the queries and the early returns).
THEOREM PageSettles == SourceSpec => []SettlesOnFiles
  <1>1. ConfigInv => SettlesOnFiles
    <2> SUFFICES ASSUME ConfigInv, srcLive = "none", ~srcConfig.busy, ~srcResult.busy, ~srcEarly
                 PROVE  View \in {"tests", "no result"}
      BY DEF SettlesOnFiles
    <2>1. ~srcConfig.failed /\ srcConfig.data # None
      BY DEF ConfigInv
    <2>2. ~Loading
      BY DEF Loading
    <2> QED
      BY <2>1, <2>2 DEF View
  <1> QED
    BY <1>1, InitConfigInv, ConfigStep, PTL DEF SourceSpec

-----------------------------------------------------------------------------
(* Types of the page of a run. *)

\* A poll and a retry leave what the result query has, and its other field a Boolean.
LEMMA ResultKept ==
  ASSUME SourceTypeOK, NEW fetched, srcResult' = Refetched(srcResult, fetched)
  PROVE  srcResult' \in [data : {"unset", "null", "ok"}, busy : BOOLEAN]
  BY DEF SourceTypeOK, Refetched

\* The state of the tiles.
PopsAre(pops) ==
    /\ pops = [prev |-> pops.prev, delays |-> pops.delays, timer |-> pops.timer]
    /\ pops.prev \in {None} \cup SUBSET (1..Total)
    /\ DOMAIN pops.delays \subseteq 1..Total /\ pops.timer \in BOOLEAN

\* Before anything pops, nothing is delayed.
LEMMA NoPopsAre == PopsAre(NoPops)
  <1>1. NoPops.prev = None /\ NoPops.delays = [t \in {} |-> 0] /\ NoPops.timer = FALSE
    BY DEF NoPops
  <1>2. NoPops = [prev |-> NoPops.prev, delays |-> NoPops.delays, timer |-> NoPops.timer]
    BY DEF NoPops
  <1>3. DOMAIN NoPops.delays \subseteq 1..Total
    BY <1>1
  <1> QED
    BY <1>1, <1>2, <1>3 DEF PopsAre

\* The view takes the state of its tiles along.
LEMMA PopsKept == ASSUME PopsAre(srcPops), PopsOfView PROVE PopsAre(srcPops')
  BY NoPopsAre DEF PopsOfView

SourceTypes == SourceTypeOK /\ PopsAre(srcPops)

\* Every step of the run, of the server and of the page.
LEMMA SourceStepTypes == ConfigInv /\ SourceTypes /\ [SourceNext]_sourceVars => SourceTypes'
  <1> SUFFICES ASSUME ConfigInv, SourceTypes, [SourceNext]_sourceVars
               PROVE  SourceTypes'
    OBVIOUS
  <1> USE DEF SourceTypes
  <1>0. ConfigInv'
    BY ConfigStep
  <1>1. srcConfig' \in [data : {None, "running", "done"}, failed : BOOLEAN, busy : BOOLEAN]
        /\ srcLive' \in {"loading", "none", "live"}
    BY <1>0 DEF ConfigInv
  <1>2. CASE Report \/ WriteConfig \/ FinishRun \/ RowGoes
    <2>1. srvRun' \in [row : BOOLEAN, done : 0..Total, files : {"none", "running", "done"}]
      <3>1. CASE Report
        <4>1. srvRun' = [row |-> TRUE, done |-> srvRun.done + 1, files |-> srvRun.files]
          BY <3>1 DEF Report, SourceTypeOK
        <4>2. srvRun.done + 1 \in 0..Total
          BY <3>1, SourceAssumption DEF Report, SourceTypeOK
        <4> QED
          BY <4>1, <4>2 DEF SourceTypeOK
      <3>2. CASE WriteConfig \/ FinishRun \/ RowGoes
        BY <3>2 DEF WriteConfig, FinishRun, RowGoes, SourceTypeOK
      <3> QED
        BY <1>2, <3>1, <3>2
    <2> QED
      BY <1>1, <1>2, <2>1 DEF Report, WriteConfig, FinishRun, RowGoes, SourceTypeOK
  <1>3. CASE PollLive
    <2>1. srvRun' = srvRun /\ PopsOfView
      BY <1>3 DEF PollLive
    <2>2. srcDone' \in 0..Total
      BY <1>3 DEF PollLive, SourceTypeOK
    <2>3. srcResult' \in [data : {"unset", "null", "ok"}, busy : BOOLEAN]
      BY <1>3, ResultKept DEF PollLive, Enable, SourceTypeOK
    <2> QED
      BY <1>1, <2>1, <2>2, <2>3, PopsKept DEF SourceTypeOK, PopsAre
  <1>4. CASE ConfigAnswers
    <2>1. UNCHANGED <<srvRun, srcDone, srcResult>> /\ PopsOfView
      BY <1>4 DEF ConfigAnswers
    <2> QED
      BY <1>1, <2>1, PopsKept DEF SourceTypeOK, PopsAre
  <1>5. CASE ResultAnswers
    BY <1>1, <1>5 DEF ResultAnswers, SourceTypeOK
  <1>6. CASE Retry
    <2>1. UNCHANGED <<srvRun, srcLive, srcDone, srcPops>>
          /\ srcResult' = Refetched(srcResult, TRUE)
      BY <1>6 DEF Retry
    <2> QED
      BY <1>1, <2>1, ResultKept DEF SourceTypeOK
  <1>7. CASE TileEffect
    <2>1. UNCHANGED <<srvRun, srcLive, srcDone, srcResult>>
      BY <1>7 DEF TileEffect
    <2> DEFINE done == 1..srcDone
    <2>2. done \subseteq 1..Total
      BY SourceAssumption DEF SourceTypeOK
    <2>3. \/ srcPops' = [srcPops EXCEPT !.prev = done]
          \/ srcPops' = [srcPops EXCEPT !.timer = FALSE]
          \/ srcPops' = [prev |-> done, delays |-> PopDelays(srcPops.prev, done), timer |-> TRUE]
      BY <1>7 DEF TileEffect
    <2>4. DOMAIN PopDelays(srcPops.prev, done) \subseteq done
      BY DEF PopDelays
    <2> HIDE DEF done
    <2>5. PopsAre(srcPops')
      <3>1. CASE srcPops' = [prev |-> done, delays |-> PopDelays(srcPops.prev, done), timer |-> TRUE]
        BY <2>2, <2>4, <3>1 DEF PopsAre
      <3>2. CASE srcPops' = [srcPops EXCEPT !.prev = done]
        <4>1. srcPops' = [prev |-> done, delays |-> srcPops.delays, timer |-> srcPops.timer]
          BY <3>2 DEF PopsAre
        <4> QED
          BY <2>2, <4>1 DEF PopsAre
      <3>3. CASE srcPops' = [srcPops EXCEPT !.timer = FALSE]
        <4>1. srcPops' = [prev |-> srcPops.prev, delays |-> srcPops.delays, timer |-> FALSE]
          BY <3>3 DEF PopsAre
        <4> QED
          BY <4>1 DEF PopsAre
      <3> QED
        BY <2>3, <3>1, <3>2, <3>3
    <2> QED
      BY <1>1, <2>1, <2>5 DEF SourceTypeOK, PopsAre
  <1>8. CASE PopTimer
    <2>1. srcPops' = [prev |-> srcPops.prev, delays |-> [t \in {} |-> 0], timer |-> FALSE]
      BY <1>8 DEF PopTimer, PopsAre
    <2>2. PopsAre(srcPops')
      BY <2>1 DEF PopsAre
    <2> QED
      BY <1>1, <1>8, <2>2 DEF PopTimer, SourceTypeOK, PopsAre
  <1>9. CASE UNCHANGED sourceVars
    BY <1>9 DEF sourceVars, SourceTypeOK
  <1> QED
    BY <1>2, <1>3, <1>4, <1>5, <1>6, <1>7, <1>8, <1>9 DEF SourceNext

\* The page of a run keeps what it has of the live run and of its files of their
\* types (RunDetailPage.tsx).
LEMMA SourceTyped == SourceSpec => []SourceTypeOK
  <1>1. SourceInit => SourceTypes
    BY SourceAssumption, NoPopsAre DEF SourceInit, SourceTypes, SourceTypeOK, PopsAre
  <1>2. SourceTypes => SourceTypeOK
    BY DEF SourceTypes
  <1> QED
    BY <1>1, <1>2, InitConfigInv, ConfigStep, SourceStepTypes, PTL DEF SourceSpec
=============================================================================
