------------------------------ MODULE LiveLog ------------------------------
(***************************************************************************)
(* The log panel of a live run in the browser: the hook that keeps a       *)
(* WebSocket to the log hub open and batches its messages into one flush   *)
(* per animation frame, and the panel that cuts the text into lines.       *)
(*                                                                         *)
(* The log is a sequence of characters numbered from 1, those in Newlines  *)
(* end a line. The hub keeps the last RingCap of them; a browser that      *)
(* connects gets them as a snapshot and every later chunk as it comes. A   *)
(* chunk is one character. Characters, styles and layout are left out.     *)
(***************************************************************************)
EXTENDS Naturals, Sequences, SequencesExt, FiniteSetsExt

CONSTANTS
    Newlines,    \* positions of the log that hold a newline
    RingCap,     \* maxLogBytesPerRun
    ClientCap,   \* MAX_CLIENT_TEXT_BYTES
    MaxLog,      \* bound on characters logged by the run
    MaxStreams,  \* bound on starts of the stream by one panel
    MaxSockets,  \* bound on sockets opened
    MaxLive      \* bound on the three together

\* Both buffers hold something; the stream starts at least once.
ASSUME LiveLogAssumption ==
    /\ RingCap \in Nat \ {0} /\ ClientCap \in Nat \ {0}
    /\ MaxLog \in Nat /\ MaxStreams \in Nat \ {0} /\ MaxSockets \in Nat
    /\ MaxLive \in Nat

VARIABLES
    \* the run's hub on the server
    hub,         \* [first, last, over]: what its buffer holds
    \* the hook
    gen,         \* generationRef
    awaiting,    \* generations whose connect() waits for the configuration
    sock,        \* what wsRef holds, or that the reconnect timer runs
    opened,      \* sockets opened so far
    alive,       \* sockets that nobody has closed
    snapDue,     \* the snapshot the server still has to send, if attached
    wire,        \* messages on their way to the browser
    text, truncated, ended, connected,
    pend,        \* what the current connection has buffered for the flush
    raf,         \* whose flushPending the animation frame will call
    due,         \* what that flush holds when its connection is gone
    \* the panel
    panel,       \* [stopped, countdown, idle]
    lines, prevLen, prevNewline,
    dirty,       \* version was bumped and the line effect has not run
    \* history
    swapped,     \* the text was replaced or trimmed since the last full split
    overtaken    \* a chunk reached the browser before the snapshot

hookVars == <<gen, awaiting, sock, opened, alive>>
wireVars == <<snapDue, wire, overtaken>>
bufVars == <<text, truncated, ended, connected, pend, raf, due, swapped>>
lineVars == <<lines, prevLen, prevNewline>>
liveVars == <<hub, hookVars, wireVars, bufVars, panel, lineVars, dirty>>

Range12(a, b) == [i \in 1..(b + 1 - a) |-> a + i - 1]
Snap(t, cut) == [text |-> t, cut |-> cut]
NoSnap == Snap(<<0>>, FALSE)
NoPend == [snap |-> NoSnap, text |-> <<>>, ended |-> FALSE]

MoreMayCome == hub.last + gen + opened < MaxLive

LiveTypeOK ==
    /\ hub \in [first : 1..(MaxLog + 1), last : 0..MaxLog, over : BOOLEAN]
    /\ gen \in 0..MaxStreams /\ awaiting \subseteq 1..MaxStreams
    /\ sock \in {"none", "dialing", "open", "timer"}
    /\ opened \in 0..MaxSockets /\ alive \in 0..MaxSockets
    /\ text \in Seq(1..MaxLog) /\ Len(text) <= ClientCap
    /\ {truncated, ended, connected, dirty, swapped, overtaken, prevNewline}
         \subseteq BOOLEAN
    /\ raf \in {"none", "current", "old"}
    /\ panel \in [stopped : BOOLEAN, countdown : BOOLEAN, idle : BOOLEAN]
    /\ prevLen \in 0..ClientCap
    /\ \A l \in DOMAIN lines : lines[l] \in Seq(1..MaxLog \ Newlines)

-----------------------------------------------------------------------------
(* The server: the hub of the run, and one UI connection to it. *)

Attached == sock = "open"

\* A chunk enters the ring and goes to the UI, which may still be waiting for
\* its snapshot: the snapshot is sent after the lock is released.
Produce ==
    /\ ~hub.over /\ hub.last < MaxLog /\ MoreMayCome
    /\ LET n == hub.last + 1
           lo == IF n + 1 - hub.first > RingCap THEN n + 1 - RingCap
                 ELSE hub.first
       IN /\ hub' = [first |-> lo, last |-> n, over |-> FALSE]
          /\ wire' = IF Attached THEN Append(wire, [type |-> "log", at |-> n])
                     ELSE wire
    /\ overtaken' = (overtaken \/ (Attached /\ snapDue # NoSnap))
    /\ UNCHANGED <<hookVars, snapDue, bufVars, panel, lineVars, dirty>>

SendSnapshot ==
    /\ Attached /\ snapDue # NoSnap
    /\ wire' = Append(wire, [type |-> "snapshot", snap |-> snapDue])
    /\ snapDue' = NoSnap
    /\ UNCHANGED <<hub, hookVars, overtaken, bufVars, panel, lineVars, dirty>>

\* The run is over: its hub goes, and a later connection makes an empty one.
DropRun ==
    /\ ~hub.over
    /\ hub' = [first |-> hub.last + 1, last |-> hub.last, over |-> TRUE]
    /\ wire' = IF Attached /\ snapDue = NoSnap
               THEN Append(wire, [type |-> "run_ended"]) ELSE wire
    /\ UNCHANGED <<hookVars, snapDue, overtaken, bufVars, panel, lineVars, dirty>>

-----------------------------------------------------------------------------
(* useLiveRunLogsWS. *)

\* The effect of [runId, enabled] when the stream is turned on.
StartEffect ==
    /\ gen < MaxStreams /\ MoreMayCome
    /\ gen' = gen + 1
    /\ awaiting' = awaiting \cup {gen + 1}
    /\ text' = <<>> /\ truncated' = FALSE /\ ended' = FALSE
    /\ connected' = FALSE
    /\ pend' = NoPend /\ raf' = "none" /\ due' = NoPend /\ swapped' = FALSE
    /\ overtaken' = FALSE /\ dirty' = TRUE
    /\ UNCHANGED <<hub, sock, opened, alive, snapDue, wire, lineVars>>

\* Its cleanup: the frame, the timer and the socket go; what connect() awaits
\* is only stopped by the check that follows the await.
CleanupEffect ==
    /\ sock' = "none"
    /\ alive' = IF sock \in {"dialing", "open"} THEN alive - 1 ELSE alive
    /\ wire' = <<>> /\ snapDue' = NoSnap
    /\ raf' = "none" /\ pend' = NoPend /\ due' = NoPend
    /\ connected' = FALSE
    /\ UNCHANGED <<hub, gen, awaiting, opened, text, truncated, ended, swapped,
                   overtaken, lineVars, dirty>>

\* Mutant of MayConnect: connect() does not look again after the await.
ConnectAnyway(g) == TRUE

\* cancelled and generationRef, looked at again after loadRuntimeConfig.
MayConnect(g) == g = gen /\ ~panel.stopped

\* connect() past its await. The buffers are local to the call, the id of the
\* animation frame is not: a frame asked for by the previous connection keeps
\* its buffers.
Connect(g) ==
    /\ g \in awaiting
    /\ awaiting' = awaiting \ {g}
    /\ IF MayConnect(g)
       THEN /\ opened < MaxSockets /\ MoreMayCome
            /\ opened' = opened + 1 /\ alive' = alive + 1
            /\ sock' = "dialing"
            /\ pend' = NoPend
            /\ due' = IF raf = "current" THEN pend ELSE due
            /\ raf' = IF raf = "current" THEN "old" ELSE raf
       ELSE UNCHANGED <<opened, alive, sock, pend, due, raf>>
    /\ UNCHANGED <<hub, gen, wireVars, text, truncated, ended, connected,
                   swapped, panel, lineVars, dirty>>

\* onopen; the server takes the snapshot when it attaches the UI. React renders
\* long before a handshake is over, an animation frame may not: a hidden tab
\* has none.
Open ==
    /\ sock = "dialing" /\ ~dirty
    /\ sock' = "open" /\ connected' = TRUE
    /\ snapDue' = Snap(Range12(hub.first, hub.last),
                       hub.first > 1 /\ hub.first <= hub.last)
    /\ UNCHANGED <<hub, gen, awaiting, opened, alive, wire, overtaken, text, truncated,
                   ended, pend, raf, due, swapped, panel, lineVars, dirty>>

\* onclose: the timer for the next attempt starts, ended or not.
Close ==
    /\ sock \in {"dialing", "open"}
    /\ wire = <<>> \/ ~hub.over
    /\ sock' = "timer" /\ alive' = alive - 1
    /\ connected' = FALSE /\ wire' = <<>> /\ snapDue' = NoSnap
    /\ UNCHANGED <<hub, gen, awaiting, opened, overtaken, text, truncated, ended,
                   pend, raf, due, swapped, panel, lineVars, dirty>>

Reconnect ==
    /\ sock = "timer"
    /\ sock' = "none" /\ awaiting' = awaiting \cup {gen}
    /\ UNCHANGED <<hub, gen, opened, alive, wireVars, bufVars, panel, lineVars,
                   dirty>>

\* The switch of onmessage.
Buffered(p, msg) ==
    CASE msg.type = "snapshot" -> [p EXCEPT !.snap = msg.snap, !.text = <<>>]
      [] msg.type = "log" -> [p EXCEPT !.text = Append(@, msg.at)]
      [] msg.type = "run_ended" -> [p EXCEPT !.ended = TRUE]

Receive ==
    /\ sock = "open" /\ wire # <<>>
    /\ pend' = Buffered(pend, Head(wire))
    /\ raf' = IF raf = "none" THEN "current" ELSE raf
    /\ wire' = Tail(wire)
    /\ UNCHANGED <<hub, hookVars, snapDue, overtaken, text, truncated, ended,
                   connected, due, swapped, panel, lineVars, dirty>>

\* The cap of the browser: the text loses its front, up to a line end if
\* there is one.
Trim(t) ==
    IF Len(t) <= ClientCap THEN t
    ELSE LET over == Len(t) - ClientCap
             ends == {i \in (over + 1)..Len(t) : t[i] \in Newlines}
         IN SubSeq(t, IF ends # {} THEN Min(ends) + 1 ELSE over + 1, Len(t))

\* Mutant of Flushed: the snapshot is put behind the text.
FlushedBehind(p) == (IF p.snap = NoSnap THEN text ELSE text \o p.snap.text) \o p.text

\* What flushPending makes of the text.
Flushed(p) == (IF p.snap = NoSnap THEN text ELSE p.snap.text) \o p.text

\* Mutant of Truncates: trimming does not raise the banner.
TruncatesSnapshot(p) == IF p.snap = NoSnap THEN truncated ELSE p.snap.cut

Truncates(p) ==
    \/ IF p.snap = NoSnap THEN truncated ELSE p.snap.cut
    \/ Len(Flushed(p)) > ClientCap

\* flushPending, called by the animation frame.
Flush ==
    /\ raf # "none"
    /\ LET p == IF raf = "current" THEN pend ELSE due
       IN /\ text' = Trim(Flushed(p))
          /\ truncated' = Truncates(p)
          /\ ended' = (ended \/ p.ended)
          /\ swapped' = (swapped \/ (p.snap # NoSnap /\ text # <<>>)
                                 \/ Len(Flushed(p)) > ClientCap)
          /\ pend' = IF raf = "current" THEN NoPend ELSE pend
    /\ raf' = "none" /\ due' = NoPend /\ dirty' = TRUE
    /\ UNCHANGED <<hub, hookVars, wireVars, connected, panel, lineVars>>

-----------------------------------------------------------------------------
(* LiveRunLogPanel. *)

\* split('\n'): the pieces of t between newlines, one character after the other.
Put(ps, c) ==
    IF c \in Newlines THEN Append(ps, <<>>)
    ELSE Append(Front(ps), Append(Last(ps), c))

Pieces(t) ==
    LET upTo[i \in 0..Len(t)] ==
            IF i = 0 THEN << <<>> >> ELSE Put(upTo[i - 1], t[i])
    IN upTo[Len(t)]

WithoutLastEmpty(ls) ==
    IF ls # <<>> /\ Last(ls) = <<>> THEN Front(ls) ELSE ls

Split(t) == WithoutLastEmpty(Pieces(t))

EndsLine(t) == t # <<>> /\ Last(t) \in Newlines

\* Mutant of Extended: a chunk always continues the last line.
ExtendedAlways(ls, delta) ==
    LET ps == Pieces(delta)
    IN WithoutLastEmpty(IF ls = <<>> THEN ps
         ELSE Front(ls) \o <<Last(ls) \o Head(ps)>> \o Tail(ps))

\* The lines when delta has been appended to the text.
Extended(ls, delta) ==
    LET ps == Pieces(delta)
    IN WithoutLastEmpty(IF ls = <<>> \/ prevNewline THEN ls \o ps
         ELSE Front(ls) \o <<Last(ls) \o Head(ps)>> \o Tail(ps))

\* The effect of [version], which only compares lengths.
TrackLines ==
    LET n == Len(text)
        reset == n < prevLen \/ (prevLen = 0 /\ n > 0)
    IN /\ dirty
       /\ dirty' = FALSE
       /\ lines' = IF reset THEN Split(text)
                   ELSE IF n > prevLen
                        THEN Extended(lines, SubSeq(text, prevLen + 1, n))
                        ELSE lines
       /\ prevNewline' = IF reset \/ n > prevLen THEN EndsLine(text)
                         ELSE prevNewline
       /\ prevLen' = n
       /\ swapped' = (swapped /\ ~reset)
       /\ UNCHANGED <<hub, hookVars, wireVars, text, truncated, ended, connected,
                      pend, raf, due, panel>>

\* The stream is turned off by the button, by scrolling up, or by the
\* inactivity timer; all but the timer clear the countdown.
Stop(countdown) ==
    /\ ~panel.stopped
    /\ panel' = [panel EXCEPT !.stopped = TRUE, !.countdown = countdown]
    /\ CleanupEffect

StopStream == Stop(FALSE)

\* The reconnect button, and "jump to latest".
ResumeStream ==
    /\ panel.stopped
    /\ panel' = [panel EXCEPT !.stopped = FALSE, !.countdown = FALSE,
                              !.idle = FALSE]
    /\ StartEffect

\* Interaction anywhere on the page, or none for INACTIVITY_GRACE_MS.
Interact ==
    /\ ~panel.stopped
    /\ panel' = [panel EXCEPT !.idle = ~@]
    /\ UNCHANGED <<hub, hookVars, wireVars, bufVars, lineVars, dirty>>

\* The interval that moves between grace, countdown and stop.
InactivityTick ==
    /\ ~panel.stopped
    /\ \/ /\ panel.countdown # panel.idle
          /\ panel' = [panel EXCEPT !.countdown = panel.idle]
          /\ UNCHANGED <<hub, hookVars, wireVars, bufVars, lineVars, dirty>>
       \/ panel.countdown /\ panel.idle /\ Stop(TRUE)

LiveInit ==
    /\ hub = [first |-> 1, last |-> 0, over |-> FALSE]
    /\ gen = 1 /\ awaiting = {1} /\ sock = "none" /\ opened = 0 /\ alive = 0
    /\ snapDue = NoSnap /\ wire = <<>> /\ overtaken = FALSE
    /\ text = <<>> /\ truncated = FALSE /\ ended = FALSE /\ connected = FALSE
    /\ pend = NoPend /\ raf = "none" /\ due = NoPend /\ swapped = FALSE
    /\ panel = [stopped |-> FALSE, countdown |-> FALSE, idle |-> FALSE]
    /\ lines = <<>> /\ prevLen = 0 /\ prevNewline = TRUE /\ dirty = TRUE

LiveNext ==
    \/ Produce \/ SendSnapshot \/ DropRun
    \/ \E g \in awaiting : Connect(g)
    \/ Open \/ Close \/ Reconnect \/ Receive \/ Flush \/ TrackLines
    \/ StopStream \/ ResumeStream \/ Interact \/ InactivityTick

LiveSpec == LiveInit /\ [][LiveNext]_liveVars

-----------------------------------------------------------------------------
(* Properties. *)

\* The panel never holds two sockets, however the stream is stopped and
\* started while connect() waits for the configuration.
OneSocket == alive <= 1 /\ (panel.stopped => alive = 0)

\* The lines are those of the text when it has only grown since it was last
\* split as a whole: cutting chunk by chunk gives the same lines.
LinesFollowText == (~dirty /\ ~swapped) => lines = Split(text)

\* The text has no gap and no repetition, unless a chunk overtook the
\* snapshot on the way from the hub.
TextContiguous ==
    ~overtaken => \A i \in 1..(Len(text) - 1) : text[i + 1] = text[i] + 1

\* A text that does not begin with the log says so.
TruncationShown ==
    (~overtaken /\ text # <<>> /\ text[1] > 1) => truncated
==============================================================================
