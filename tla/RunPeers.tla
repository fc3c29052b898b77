------------------------------ MODULE RunPeers ------------------------------
(***************************************************************************)
(* The rest of a run's page: the strip of the runs it is compared with,    *)
(* the selection of runs to compare, and the deletion of the run. All of   *)
(* it reads the run index, which is fetched again and again.               *)
(***************************************************************************)
EXTENDS Lists

CONSTANTS
    PeerRows,     \* run -> [suite, client, instance, labels]
    PeerSeq,      \* the runs, by descending timestamp
    ThisRun,
    MaxCompare, MinCompare,
    Widths        \* runs that fit on the strip

ASSUME PeersAssumption ==
    /\ PeerSeq \in Seq(DOMAIN PeerRows) /\ ToSet(PeerSeq) = DOMAIN PeerRows
    /\ ThisRun \in DOMAIN PeerRows
    /\ \A i, j \in DOMAIN PeerSeq : PeerSeq[i] = PeerSeq[j] => i = j
    /\ Widths \subseteq Nat \ {0} /\ MaxCompare \in Nat

VARIABLES
    peerIndex,    \* [runs, pending]: the index as last fetched
    peerDeleting, \* the server has queued this run for deletion
    peerStrip,    \* [anchor, fit]
    peerCompare,  \* [on, chosen]
    peerLeft      \* where the user went, if the page was left

peerVars == <<peerIndex, peerDeleting, peerStrip, peerCompare, peerLeft>>

PeersTypeOK ==
    /\ peerIndex.runs \subseteq DOMAIN PeerRows /\ peerIndex.pending \in BOOLEAN
    /\ peerDeleting \in BOOLEAN
    /\ peerStrip.anchor \in DOMAIN PeerRows \cup {None} /\ peerStrip.fit \in Widths
    /\ peerCompare.chosen \subseteq DOMAIN PeerRows /\ peerCompare.on \in BOOLEAN

\* selectClientPeerRuns: runs of the suite and client, narrowed to those with
\* the same labels, else to the same instance, as long as two are left.
ClientRunsOf(rs, me) ==
    LET client == {r \in rs : PeerRows[r].suite = me.suite /\ PeerRows[r].client = me.client}
        alike == {r \in client : PeerRows[r].labels = me.labels}
        named == {r \in client : me.instance # None /\ PeerRows[r].instance = me.instance}
    IN IF Cardinality(alike) > 1 THEN alike
       ELSE IF Cardinality(named) > 1 THEN named ELSE client

ClientRuns == ClientRunsOf(peerIndex.runs, PeerRows[ThisRun])
NewestPeers(rs) == Among(PeerSeq, rs)

-----------------------------------------------------------------------------
(* ClientRunsStrip. The page of the strip is tied to its newest run. *)

StripShown == Cardinality(ClientRuns) > 1
PlaceOf(r, s) == IF r \in ToSet(s) THEN CHOOSE i \in DOMAIN s : s[i] = r ELSE 0

\* Mutant of StripStart: an anchor that is the newest run counts as not found.
StripStartBehindNewest ==
    LET s == NewestPeers(ClientRuns)
        auto == Max({1, PlaceOf(ThisRun, s) - peerStrip.fit + 1})
        at == PlaceOf(peerStrip.anchor, s)
    IN Min({IF at > 1 THEN at ELSE auto, Max({1, Len(s) - peerStrip.fit + 1})})

\* Where the strip begins: at the anchor, or such that this run is on it.
StripStart ==
    LET s == NewestPeers(ClientRuns)
        auto == Max({1, PlaceOf(ThisRun, s) - peerStrip.fit + 1})
        at == PlaceOf(peerStrip.anchor, s)
    IN Min({IF at > 0 THEN at ELSE auto, Max({1, Len(s) - peerStrip.fit + 1})})

Displayed ==
    LET s == NewestPeers(ClientRuns)
    IN SubSeq(s, StripStart, Min({StripStart + peerStrip.fit - 1, Len(s)}))

Newer == StripStart > 1
Older == StripStart + peerStrip.fit <= Cardinality(ClientRuns)

PageTo(start) == NewestPeers(ClientRuns)[start]

TurnStrip ==
    /\ StripShown
    /\ \/ /\ Newer
          /\ peerStrip' = [peerStrip EXCEPT !.anchor =
                              PageTo(Max({1, StripStart - peerStrip.fit}))]
       \/ /\ Older
          /\ peerStrip' = [peerStrip EXCEPT !.anchor =
                PageTo(Min({Cardinality(ClientRuns) - peerStrip.fit + 1,
                            StripStart + peerStrip.fit}))]
    /\ UNCHANGED <<peerIndex, peerDeleting, peerCompare, peerLeft>>

Resize == \E w \in Widths :
    /\ peerStrip' = [peerStrip EXCEPT !.fit = w]
    /\ UNCHANGED <<peerIndex, peerDeleting, peerCompare, peerLeft>>

-----------------------------------------------------------------------------
(* Comparing. *)

Leave(to, runs) ==
    /\ peerLeft' = [to |-> to, runs |-> runs]
    /\ UNCHANGED <<peerIndex, peerDeleting, peerStrip, peerCompare>>

\* Mutant of WithRun: the comparison is full one run too late.
WithRunTooMany(chosen, r) ==
    IF r \in chosen THEN chosen \ {r}
    ELSE IF Cardinality(chosen) > MaxCompare THEN chosen ELSE chosen \cup {r}
\* handleSelectionChange
WithRun(chosen, r) ==
    IF r \in chosen THEN chosen \ {r}
    ELSE IF Cardinality(chosen) >= MaxCompare THEN chosen ELSE chosen \cup {r}

\* A click on a run of the strip chooses it, or goes to it.
ClickRun == \E r \in ToSet(Displayed) :
    /\ StripShown
    /\ IF peerCompare.on
       THEN /\ peerCompare' = [peerCompare EXCEPT !.chosen = WithRun(@, r)]
            /\ UNCHANGED <<peerIndex, peerDeleting, peerStrip, peerLeft>>
       ELSE Leave("run", {r})

ToggleCompare ==
    /\ StripShown \/ peerCompare.on
    /\ peerCompare' = [on |-> ~peerCompare.on, chosen |-> {}]
    /\ UNCHANGED <<peerIndex, peerDeleting, peerStrip, peerLeft>>

CompareChosen ==
    /\ peerCompare.on /\ Cardinality(peerCompare.chosen) >= MinCompare
    /\ Leave("compare", peerCompare.chosen)

\* The most recent peers, whether or not this run is one of them.
CompareRecent ==
    LET recent == ToSet(PageOf(NewestPeers(ClientRuns), 1, MaxCompare))
    IN /\ StripShown /\ Cardinality(recent) >= MinCompare
       /\ Leave("compare", recent)

-----------------------------------------------------------------------------
(* Deletion, for an administrator. *)

Pending == ThisRun \in peerIndex.runs /\ peerIndex.pending

\* Confirmed; when the request succeeds the user is taken to the list.
DeleteRun ==
    /\ ~Pending
    /\ peerDeleting' = (ThisRun \in peerIndex.runs)
    /\ peerLeft' = [to |-> "runs", runs |-> {}]
    /\ UNCHANGED <<peerIndex, peerStrip, peerCompare>>

\* The answer invalidates the index.
CancelDeletion ==
    /\ Pending
    /\ peerDeleting' = FALSE
    /\ UNCHANGED <<peerIndex, peerStrip, peerCompare, peerLeft>>

\* Somebody else's page.
QueuedElsewhere ==
    /\ ThisRun \in peerIndex.runs /\ ~peerDeleting
    /\ peerDeleting' = TRUE
    /\ UNCHANGED <<peerIndex, peerStrip, peerCompare, peerLeft>>

\* The next answer: runs have been added, one may be gone.
IndexAnswers ==
    /\ \E new \in {{}} \cup {{r} : r \in DOMAIN PeerRows \ peerIndex.runs},
          gone \in {{}} \cup {{r} : r \in peerIndex.runs} :
         peerIndex' = [runs |-> (peerIndex.runs \ gone) \cup new,
                       pending |-> peerDeleting /\ ThisRun \notin gone]
    /\ UNCHANGED <<peerDeleting, peerStrip, peerCompare, peerLeft>>

-----------------------------------------------------------------------------
PeersInit ==
    /\ \E rs \in {{}, {ThisRun}, DOMAIN PeerRows} :
          peerIndex = [runs |-> rs, pending |-> FALSE]
    /\ peerDeleting = FALSE
    /\ \E w \in Widths : peerStrip = [anchor |-> None, fit |-> w]
    /\ peerCompare = [on |-> FALSE, chosen |-> {}] /\ peerLeft = None

PeersNext ==
    /\ peerLeft = None
    /\ \/ TurnStrip \/ Resize \/ ClickRun \/ ToggleCompare \/ CompareChosen
       \/ CompareRecent \/ DeleteRun \/ CancelDeletion \/ QueuedElsewhere
       \/ IndexAnswers

PeersSpec == PeersInit /\ [][PeersNext]_peerVars

-----------------------------------------------------------------------------
(* Properties. *)

IsNewer(a, b) == PlaceOf(a, PeerSeq) < PlaceOf(b, PeerSeq)
NewerJoined(olds, news) ==
    olds \subseteq news /\ \A r \in news \ olds, o \in olds : IsNewer(r, o)

\* "A page holds still when the live view adds newer runs": once turned, a
\* strip that is full shows the same runs when newer ones join the peers. (One
\* that was made wider than its runs has room for them.)
StripHoldsStill ==
    [][peerStrip.anchor # None /\ peerStrip' = peerStrip =>
         \A olds \in {ClientRuns} :
           (/\ peerStrip.anchor \in olds /\ Cardinality(olds) > 1
            /\ peerStrip.fit <= Cardinality(olds)) =>
              \A news \in {ClientRuns'} :
                 (news # olds /\ NewerJoined(olds, news)) => Displayed' = Displayed]_peerVars

PeersChoice == INSTANCE RunChoice WITH
    mode <- IF peerCompare.on THEN "compare" ELSE "off", chosen <- peerCompare.chosen,
    Runs <- DOMAIN PeerRows, Most <- MaxCompare

\* The strip of a run's page keeps what RunChoice promises, while runs join and
\* leave it (RunDetailPage.tsx handleSelectionChange and the compare mode).
PeersChoiceKept == PeersChoice!ChoiceSpec
=============================================================================
