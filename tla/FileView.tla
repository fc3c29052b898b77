------------------------------ MODULE FileView ------------------------------
(***************************************************************************)
(* The viewer of a run's text files. A small file is fetched as a whole, a *)
(* large one by ranges of bytes, each cut behind its last newline. Two     *)
(* effects of a render and a sentinel below the last line ask for ranges,  *)
(* all with what the last render saw.                                      *)
(*                                                                         *)
(* A file is a sequence of bytes: "x" a character, "n" a newline, "h" and  *)
(* "t" the two bytes of one wide character. Rendering is left out.         *)
(***************************************************************************)
EXTENDS Lists

CONSTANTS
    FvFiles,     \* [path -> bytes]: the file of this name of the "run" and of its "suite"
    FvSizes,     \* [path -> bytes that are written when the page is opened]
    FvFull,      \* MAX_FULL_LOAD
    FvChunk,     \* CHUNK_SIZE
    FvLinks,     \* sets of lines that a link names
    FvClicks,    \* bound on clicks: the first line clicked, the next with Shift
    MostChunks,  \* bound on chunks
    MostRanges   \* bound on ranges under way

FvPaths == DOMAIN FvFiles
Bytes == {"x", "n", "h", "t"}
Characters == {"x", "n", "w", "?"}

ASSUME FvAssumption ==
    /\ {"run", "suite"} \subseteq FvPaths
    /\ \A p \in FvPaths : FvFiles[p] \in Seq(Bytes)
    /\ DOMAIN FvSizes = FvPaths /\ \A p \in FvPaths : FvSizes[p] \in 0..Len(FvFiles[p])
    /\ FvFull \in Nat /\ FvChunk \in 1..FvFull
    /\ \A S \in FvLinks : S \subseteq Nat /\ IsFiniteSet(S)
    /\ ToSet(FvClicks) \subseteq Nat
    /\ None \notin Nat

VARIABLES
    fvDisk,      \* bytes of each file that are written
    fvRanged,    \* the storage serves ranges, as it does unless it is S3
    fvUrl,       \* [base, lines]: the file is the suite's; selected lines as ranges
    fvHead,      \* size that HEAD has told of each path, 0 if there is none
    fvWhole,     \* fileviewer-full of each path: [got, failed]
    fvState,     \* chunks, loadedBytes, chunkLoading, lastClickedLine; history: a
                 \* fetch has been rejected since chunkLoading was last reset
    fvView,      \* what the last render saw
    fvRanges,    \* ranges that were asked for and are not answered
    fvMixed      \* history: a chunk did not continue the chunks before it

fvVars == <<fvDisk, fvRanged, fvUrl, fvHead, fvWhole, fvState, fvView, fvRanges, fvMixed>>

NoContent == [got |-> 0, failed |-> FALSE]

\* response.text(): half a wide character is one replacement character.
Decoded(bytes) ==
    FlattenSeq([i \in DOMAIN bytes |->
        CASE bytes[i] = "h" -> IF i < Len(bytes) THEN <<"w">> ELSE <<"?">>
          [] bytes[i] = "t" -> IF i = 1 THEN <<"?">> ELSE <<>>
          [] OTHER          -> <<bytes[i]>>])

NewlinesOf(t) == {i \in DOMAIN t : t[i] = "n"}

InOrder(S) ==
    [k \in 1..Cardinality(S) |-> CHOOSE i \in S : Cardinality({j \in S : j < i}) = k - 1]

\* split('\n')
LinesOf(t) ==
    LET ends == InOrder(NewlinesOf(t) \cup {Len(t) + 1})
    IN [k \in DOMAIN ends |->
          SubSeq(t, (IF k = 1 THEN 0 ELSE ends[k - 1]) + 1, ends[k] - 1)]

-----------------------------------------------------------------------------
(* The selected lines in the URL. *)

parseLineSelection(ranges) == UNION {r[1]..r[2] : r \in ToSet(ranges)}

serializeLineSelection(S) ==
    LET starts == InOrder({i \in S : i - 1 \notin S})
    IN [k \in DOMAIN starts |->
          <<starts[k], Min({i \in S : i >= starts[k] /\ i + 1 \notin S})>>]

-----------------------------------------------------------------------------
(* What a render computes from the state it sees. *)

filePath == IF fvUrl.base THEN "suite" ELSE "run"

FvNow ==
    [path |-> filePath, lines |-> fvUrl.lines, head |-> fvHead[filePath],
     whole |-> fvWhole[filePath], chunks |-> fvState.chunks,
     loaded |-> fvState.loaded, loading |-> fvState.loading]

isLargeFile(w) == w.head # None /\ w.head > FvFull
hasMoreChunks(w) == isLargeFile(w) /\ w.loaded < w.head
targetLine(w) == Max(parseLineSelection(w.lines) \cup {0})

\* chunks.join('\n')
Joined(chunks) ==
    FlattenSeq([i \in DOMAIN chunks |-> IF i = 1 THEN chunks[i] ELSE <<"n">> \o chunks[i]])

HasContent(w) == IF isLargeFile(w) THEN w.chunks # <<>> ELSE w.whole.got > 0
fileContent(w) ==
    IF isLargeFile(w) THEN Joined(w.chunks)
    ELSE Decoded(SubSeq(FvFiles[w.path], 1, w.whole.got))
shownLines(w) == IF HasContent(w) THEN LinesOf(fileContent(w)) ELSE <<>>

\* Neither the spinner nor an error stands in the place of the text.
ShowsText(w) ==
    /\ w.head # None /\ ~w.whole.failed
    /\ HasContent(w)

-----------------------------------------------------------------------------
(* Ranges. *)

RangeOf(w, first, by) ==
    [path |-> w.path, from |-> w.loaded, size |-> Min({FvChunk, w.head - w.loaded}),
     first |-> first, by |-> by, atEnd |-> ~first /\ w.loaded + FvChunk >= w.head]

\* loadNextChunk, as the render w made it.
CanLoadNext(w) == hasMoreChunks(w) /\ ~w.loading

\* What the effects of the render w ask for: the first chunk, and a chunk while
\* the selected line is out of reach.
WantsFirst(w) == isLargeFile(w) /\ w.chunks = <<>> /\ ~w.loading
WantsTarget(w) == CanLoadNext(w) /\ Len(shownLines(w)) < targetLine(w)
EffectRanges(w) ==
    (IF WantsFirst(w) THEN {[RangeOf(w, TRUE, "effect") EXCEPT !.from = 0,
                               !.size = Min({FvChunk, w.head})]} ELSE {})
    \cup (IF WantsTarget(w) THEN {RangeOf(w, FALSE, "effect")} ELSE {})

\* fetchPartialText: without ranges, the beginning of the file.
fetchPartialText(r) ==
    LET bytes == SubSeq(FvFiles[r.path], 1, fvDisk[r.path])
    IN IF fvRanged THEN Decoded(SubSeq(bytes, r.from + 1, r.from + r.size))
       ELSE SubSeq(Decoded(bytes), 1, Min({r.size, Len(Decoded(bytes))}))

\* The chunk ends before its last newline, which counts as loaded, unless the
\* file ends with it.
Cut(r, data) == IF r.atEnd THEN 0 ELSE Max(NewlinesOf(data) \cup {0})
CutText(r, data) == IF Cut(r, data) > 0 THEN SubSeq(data, 1, Cut(r, data) - 1) ELSE data
\* Mutant of bytesConsumed: the newline itself is not counted.
BytesShown(r, data) == IF Cut(r, data) > 0 THEN Cut(r, data) - 1 ELSE Len(data)
bytesConsumed(r, data) == IF Cut(r, data) > 0 THEN Cut(r, data) ELSE Len(data)

-----------------------------------------------------------------------------
FvTypeOK ==
    /\ DOMAIN fvDisk = FvPaths /\ \A p \in FvPaths : fvDisk[p] \in 0..Len(FvFiles[p])
    /\ {fvRanged, fvUrl.base, fvState.loading, fvState.lost, fvMixed} \subseteq BOOLEAN
    /\ \A i \in DOMAIN fvUrl.lines : fvUrl.lines[i] \in Nat \X Nat
    /\ \A p \in FvPaths : /\ fvHead[p] \in {None} \cup 0..fvDisk[p]
                          /\ fvWhole[p] \in [got : 0..fvDisk[p], failed : BOOLEAN]
    /\ fvState.loaded \in Nat /\ fvState.last \in Nat \cup {None}
    /\ DOMAIN fvView = DOMAIN FvNow
    /\ \A r \in fvRanges : r.path \in FvPaths /\ r.from \in Nat /\ r.size \in 1..FvChunk

FvInit ==
    /\ fvDisk = FvSizes
    /\ fvRanged \in BOOLEAN
    /\ \E base \in BOOLEAN, S \in FvLinks :
         fvUrl = [base |-> base, lines |-> serializeLineSelection(S)]
    /\ fvHead = [p \in FvPaths |-> None]
    /\ fvWhole = [p \in FvPaths |-> NoContent]
    /\ fvState = [chunks |-> <<>>, loaded |-> 0, loading |-> FALSE, last |-> None, lost |-> FALSE]
    /\ fvView = FvNow
    /\ fvRanges = {} /\ fvMixed = FALSE

\* A run in progress writes on.
FvGrow(p) ==
    /\ fvDisk[p] < Len(FvFiles[p])
    /\ fvDisk' = [fvDisk EXCEPT ![p] = Len(FvFiles[p])]
    /\ UNCHANGED <<fvRanged, fvUrl, fvHead, fvWhole, fvState, fvView, fvRanges, fvMixed>>

\* HEAD is answered, or fails, which counts as a file that does not exist; it is
\* asked again when the browser is back online, which succeeds here.
HeadAnswered(size) ==
    /\ fvView.path = filePath /\ size # fvHead[filePath]
    /\ size = fvDisk[filePath] \/ (size = 0 /\ fvHead[filePath] = None)
    /\ fvHead' = [fvHead EXCEPT ![filePath] = size]
    /\ fvMixed' = (fvMixed \/ (fvState.chunks # <<>>
                     /\ size > Max({fvState.loaded, fvHead[filePath]} \ {None})))
    /\ UNCHANGED <<fvDisk, fvRanged, fvUrl, fvWhole, fvState, fvView, fvRanges>>

\* The whole file is fetched unless it is known to be large.
WholeAnswered(ok) ==
    /\ fvView.path = filePath /\ fvView.head # None /\ ~isLargeFile(fvView)
    /\ ok => fvDisk[filePath] > 0
    /\ fvWhole' = [fvWhole EXCEPT ![filePath] =
                     IF ok THEN [got |-> fvDisk[filePath], failed |-> FALSE]
                     ELSE [@ EXCEPT !.failed = TRUE]]
    /\ fvWhole' # fvWhole
    /\ UNCHANGED <<fvDisk, fvRanged, fvUrl, fvHead, fvState, fvView, fvRanges, fvMixed>>

\* A render with its effects, in order: another file empties the chunks, the
\* first chunk is asked for, and the next one towards the selected line.
FvRender ==
    /\ fvView # FvNow /\ fvView' = FvNow
    /\ LET reset == filePath # fvView.path
           asked == EffectRanges(FvNow)
       IN /\ Cardinality(fvRanges \cup asked) <= MostRanges
          /\ fvRanges' = fvRanges \cup asked
          /\ fvState' = [fvState EXCEPT !.chunks = IF reset THEN <<>> ELSE @,
                                        !.loaded = IF reset THEN 0 ELSE @,
                                        !.loading = @ \/ asked # {}]
          /\ fvMixed' = (fvMixed /\ ~reset)
    /\ UNCHANGED <<fvDisk, fvRanged, fvUrl, fvHead, fvWhole>>

\* The sentinel comes into view. A mixed text is not read on: a bound.
SentinelVisible ==
    /\ ~fvMixed /\ ShowsText(fvView) /\ CanLoadNext(fvView)
    /\ LET r == RangeOf(fvView, FALSE, "sentinel")
       IN /\ r \notin fvRanges /\ Cardinality(fvRanges) < MostRanges
          /\ fvRanges' = fvRanges \cup {r}
    /\ fvState' = [fvState EXCEPT !.loading = TRUE]
    /\ UNCHANGED <<fvDisk, fvRanged, fvUrl, fvHead, fvWhole, fvView, fvMixed>>

\* A range is answered: the first chunk replaces all, another is appended, for
\* whatever file they were asked.
RangeAnswered(r) ==
    LET data == fetchPartialText(r)
        used == bytesConsumed(r, data)
    IN /\ fvState' = [fvState EXCEPT
             !.chunks = IF r.first THEN <<CutText(r, data)>> ELSE Append(@, CutText(r, data)),
             !.loaded = IF r.first THEN used ELSE @ + used,
             !.loading = FALSE, !.lost = FALSE]
       /\ fvMixed' = \/ r.path # filePath
                     \/ r.atEnd /\ r.from + r.size < fvView.head
                     \/ ~r.first /\ (fvMixed \/ r.from # fvState.loaded)

\* An answer without data, as of a server that reports an error.
RangeFailed == fvState' = [fvState EXCEPT !.loading = FALSE, !.lost = FALSE] /\ UNCHANGED fvMixed
\* A fetch that is rejected, as without a network, is caught nowhere: the viewer goes
\* on as if it were loading.
RangeRejected == fvState' = [fvState EXCEPT !.lost = TRUE] /\ UNCHANGED fvMixed

\* The render that follows a request or an answer is done before the next
\* answer is there; the sentinel alone may come before it.
RangeEnds(r) ==
    /\ fvView = FvNow
    /\ r \in fvRanges /\ fvRanges' = fvRanges \ {r}
    /\ r.first \/ Len(fvState.chunks) < MostChunks
    /\ RangeAnswered(r) \/ RangeFailed \/ RangeRejected
    /\ UNCHANGED <<fvDisk, fvRanged, fvUrl, fvHead, fvWhole, fvView>>

-----------------------------------------------------------------------------
(* The user. *)

Clicked(selected, l, key) ==
    CASE key = "shift" /\ fvState.last # None ->
           selected \cup (Min({fvState.last, l})..Max({fvState.last, l}))
      [] key = "ctrl" -> IF l \in selected THEN selected \ {l} ELSE selected \cup {l}
      [] OTHER        -> {l}

\* A click on the number of a line, alone, with Ctrl or with Shift. The new URL
\* has no base: from here on the file is the run's.
handleLineClick(l, key) ==
    /\ fvView = FvNow /\ ShowsText(fvView) /\ l \in DOMAIN shownLines(fvView)
    /\ ~fvMixed /\ IF fvState.last = None THEN l = FvClicks[1]
                    ELSE l = FvClicks[2] /\ key = "shift"
    /\ fvUrl' = [base |-> FALSE,
                 lines |-> serializeLineSelection(
                             Clicked(parseLineSelection(fvView.lines), l, key))]
    /\ fvState' = [fvState EXCEPT !.last = IF key = "shift" /\ @ # None THEN @ ELSE l]
    /\ UNCHANGED <<fvDisk, fvRanged, fvHead, fvWhole, fvView, fvRanges, fvMixed>>

\* The button of the error empties the chunks and asks for nothing.
refetch ==
    /\ fvView = FvNow /\ fvView.whole.failed
    /\ fvState' = [fvState EXCEPT !.chunks = <<>>, !.loaded = 0]
    /\ fvMixed' = FALSE
    /\ UNCHANGED <<fvDisk, fvRanged, fvUrl, fvHead, fvWhole, fvView, fvRanges>>

FvNext ==
    \/ \E p \in FvPaths : FvGrow(p)
    \/ \E size \in {0, fvDisk[filePath]} : HeadAnswered(size)
    \/ \E ok \in BOOLEAN : WholeAnswered(ok)
    \/ FvRender
    \/ SentinelVisible
    \/ \E r \in fvRanges : RangeEnds(r)
    \/ \E l \in ToSet(FvClicks), key \in {"none", "ctrl", "shift"} :
         handleLineClick(l, key)
    \/ refetch

FvSpec == FvInit /\ [][FvNext]_fvVars

-----------------------------------------------------------------------------
(* Properties. *)

\* Narrow characters only, and no line as long as a chunk: a newline is among any
\* bytes that are as many.
PlainFile(p) ==
    LET bytes == FvFiles[p]
    IN /\ bytes \in Seq({"x", "n"})
       /\ \A i \in 0..(Len(bytes) - FvChunk) : \E j \in (i + 1)..(i + FvChunk) : bytes[j] = "n"

\* The lines shown carry the numbers they have in the file, none is missing or
\* repeated, and when nothing is left to load the file is there to its end: for
\* files of narrow characters and lines shorter than a chunk, while every chunk
\* that came continued those before it (loadNextChunk and the effect of the first
\* chunk in FileViewerPage.tsx).
LinesAreTheFiles ==
    LET w == FvNow
        real == LinesOf(SubSeq(FvFiles[w.path], 1, w.head))
    IN (isLargeFile(w) /\ w.chunks # <<>> /\ PlainFile(w.path) /\ fvRanged /\ ~fvMixed)
         => /\ IsPrefix(shownLines(w), real)
            /\ ~hasMoreChunks(w) => shownLines(w) = real

\* Loading never comes to rest before the selected line is there, and the viewer
\* waits for an answer that nobody owes only when a fetch was rejected (the effects
\* of FileViewerPage.tsx, which depend on chunkLoading; no fetch is caught).
LoadsUntilTarget ==
    /\ fvState.loading => fvRanges # {} \/ fvState.lost
    /\ (fvView = FvNow /\ hasMoreChunks(fvView)
          /\ Len(shownLines(fvView)) < Max({1, targetLine(fvView)})) => fvState.loading

\* The lines of a large file come whole, in order, and up to the selected one.
FileViewSound == LinesAreTheFiles /\ LoadsUntilTarget
=============================================================================
