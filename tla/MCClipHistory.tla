---------------------------- MODULE MCClipHistory ----------------------------
(***************************************************************************)
(* Instances of ClipHistory for TLC: the bounds of the run.                *)
(***************************************************************************)
EXTENDS ClipHistory

CONSTANTS
    p, q, r, t,  \* clips: p and q are images, t is the large one
    f, g         \* folders

SizeOfClip == [c \in Clip |-> IF c = t THEN 3 ELSE 1]

\* A list of two items, nothing but clips.
Plain(clips) ==
    [clips |-> clips, maxima |-> {2}, bytes |-> {3}, thumbs |-> FALSE, folders |-> {}, seconds |-> 0,
     removals |-> 0]

\* Clips, small and large, and a bound that changes, or two.  Thumbnails.  Images and a
\* folder, seconds apart; two folders; a folder and thumbnails.
HistoryLimits ==
    {[Plain({p, q, r, t}) EXCEPT !.maxima = {1, 2}],
     [Plain({p, q, r}) EXCEPT !.maxima = {1, 2}, !.bytes = {2, 3}],
     [Plain({p, q, t}) EXCEPT !.maxima = {1}, !.thumbs = TRUE],
     [Plain({p, q}) EXCEPT !.folders = {f}, !.seconds = 1],
     [Plain({p, q}) EXCEPT !.folders = {f, g}, !.removals = 1],
     [Plain({p, q}) EXCEPT !.folders = {f}, !.thumbs = TRUE, !.removals = 1]}
=============================================================================
