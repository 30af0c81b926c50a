------------------------------ MODULE X11Files ------------------------------
(***************************************************************************)
(* Files on the clipboard of Linux: crates/sb-clipboard/src/x11_files.rs   *)
(* and uri_list.rs under the PollingWatcher of lib.rs.  The CLIPBOARD      *)
(* selection of X has one owner, asked for the contents at every paste.    *)
(*                                                                         *)
(* A writer puts its offer under a mutex and then claims the selection; a  *)
(* thread of our own (serve) answers requests and drops the offer when X   *)
(* tells it that another window took over, which it learns later.  The     *)
(* reader asks the owner, whoever that is, and waits 250 ms; the answer    *)
(* may come after that, and answers of two owners share one property.      *)
(*                                                                         *)
(* The X server and the other programs are the environment.  They include  *)
(* arboard, which owns the selection for text through a window of its own. *)
(***************************************************************************)
EXTENDS Naturals, Sequences

CONSTANTS
    None,        \* Option::None
    App,         \* windows of other programs
    Us,          \* the window of our Owner
    File,        \* lines of a list that are local files
    Folder,      \* those that are folders
    TooLarge,    \* those that are beyond READ_HARD_LIMIT
    Junk,        \* comments, the copy and cut header, other hosts, broken escapes
    Header,      \* the line "copy"
    AppClip,     \* what programs copy: [formats, lines, text]
    PathList,    \* what writers put on the clipboard
    Writer,      \* "session" (through the watcher) and "command" (past it)
    MaxAppCopies, MaxOwnWrites, MaxTimeouts, MaxReads  \* bounds

Format == {"uri", "gnome"}
Target == {"targets"} \cup Format

ASSUME X11Assumption ==
    /\ Us \notin App /\ None \notin App \cup {Us}
    /\ File \cap Junk = {} /\ Header \in Junk /\ Folder \cup TooLarge \subseteq File
    /\ AppClip \subseteq [formats : SUBSET Format, lines : Seq(File \cup Junk), text : File \cup Junk]
    /\ PathList \subseteq Seq(File) \ {<<>>}
    /\ None \notin AppClip /\ None \notin PathList
    /\ Writer \subseteq {"session", "command"}
    /\ {MaxAppCopies, MaxOwnWrites, MaxTimeouts, MaxReads} \subseteq Nat

VARIABLES
    owner,     \* the owner of the selection, or None
    has,       \* has[a]: what program a last copied, None before that
    asked,     \* requests of our reader that programs have yet to answer
    offer,     \* Owner.offer
    inbox,     \* events for our owner window
    notes,     \* SelectionNotify events for our reader window
    prop,      \* the property SHAREBOARD_SEL of the reader window
    claiming,  \* claiming[w]: writer w has set its offer, not yet claimed or checked
    reader,    \* the read under way, or None
    seenClip,  \* PollingWatcher.last
    raced,     \* history: the last claim met a SelectionClear of an earlier loss
    calm,      \* history: nothing but reads since the session wrote
    echoed,    \* history: a poll handed out what the session wrote
    appCopies, ownWrites, timeouts, reads  \* how much of each bound is used

x11Bounds == <<appCopies, ownWrites, timeouts, reads>>
x11Vars == <<owner, has, asked, offer, inbox, notes, prop, claiming, reader, seenClip,
             raced, calm, echoed, x11Bounds>>

\* A clip as the watcher fingerprints it.
Clip == [kind : {"files"}, of : Seq(File)] \cup [kind : {"text"}, of : File \cup Junk \cup PathList]

OwnerEvent == [type : {"clear"}] \cup [type : {"request"}, target : Target]
Note == [target : Target, ok : BOOLEAN]
Claim == [paths : PathList, at : {"offered", "claimed"}]
Read == [at : Target, offered : SUBSET Format, why : {"poll", "reread"}]

\* A value of SHAREBOARD_SEL: the formats on offer, or the lines in one of them.
Property ==
    [target : {"targets"}, formats : SUBSET Format]
        \cup [target : Format, lines : Seq(File \cup Junk)]

ASSUME NoneAssumption == None \notin Claim \cup Read \cup Property

X11TypeOK ==
    /\ owner \in App \cup {Us, None}
    /\ has \in [App -> AppClip \cup {None}]
    /\ asked \in Seq([app : App, target : Target])
    /\ offer \in PathList \cup {None}
    /\ inbox \in Seq(OwnerEvent)
    /\ notes \in Seq(Note)
    /\ prop \in Property \cup {None}
    /\ claiming \in [Writer -> Claim \cup {None}]
    /\ reader \in Read \cup {None}
    /\ seenClip \in Clip \cup {None}
    /\ {raced, calm, echoed} \subseteq BOOLEAN
    /\ {appCopies, ownWrites, timeouts, reads} \subseteq Nat

X11Init ==
    /\ owner = None
    /\ has = [a \in App |-> None]
    /\ asked = <<>>
    /\ offer = None
    /\ inbox = <<>>
    /\ notes = <<>>
    /\ prop = None
    /\ claiming = [w \in Writer |-> None]
    /\ reader = None
    /\ seenClip = None
    /\ raced = FALSE /\ calm = FALSE /\ echoed = FALSE
    /\ appCopies = 0 /\ ownWrites = 0 /\ timeouts = 0 /\ reads = 0

-----------------------------------------------------------------------------
(* The formats (uri_list.rs).                                              *)

ToUriList(paths) == paths
ToGnomeCopiedFiles(paths) == <<Header>> \o paths

\* The elements of s that are in S, in their order, collected by a loop over s
\* (SelectSeq, in a form that can be reasoned about).
Only(s, S) ==
    LET kept[i \in 0 .. Len(s)] ==
            IF i = 0 THEN <<>>
            ELSE IF s[i] \in S THEN Append(kept[i - 1], s[i]) ELSE kept[i - 1]
    IN  kept[Len(s)]

\* A plausible slip: the first line of a copy is taken for a file.
ParseHeaderToo(lines) == Only(lines, File \cup {Header})

\* parse: comments, headers, other hosts and broken lines are left out.
ParseList(lines) == Only(lines, File)

\* What an owner puts into the property for a target.
Answer(formats, uri, gnome, target) ==
    CASE target = "targets" -> [target |-> target, formats |-> formats]
      [] target = "uri" -> [target |-> target, lines |-> uri]
      [] target = "gnome" -> [target |-> target, lines |-> gnome]

-----------------------------------------------------------------------------
(* Other programs.                                                         *)

\* The queue of our owner window after it lost the selection, if it had it.
Lost == IF owner = Us THEN Append(inbox, [type |-> "clear"]) ELSE inbox

\* A program copies: it owns the selection, and X tells the one before.
AppCopies(a, c) ==
    /\ appCopies < MaxAppCopies
    /\ appCopies' = appCopies + 1
    /\ has' = [has EXCEPT ![a] = c]
    /\ owner' = a
    /\ inbox' = Lost
    /\ calm' = FALSE
    /\ UNCHANGED <<asked, offer, notes, prop, claiming, reader, seenClip, raced, echoed,
                   ownWrites, timeouts, reads>>

\* A program answers the first request it has got, with what it copied last,
\* whether or not it still owns the selection.
AppAnswers(a) ==
    \E i \in 1 .. Len(asked) :
        /\ asked[i].app = a
        /\ \A j \in 1 .. i - 1 : asked[j].app # a
        /\ LET t == asked[i].target
               ok == t = "targets" \/ t \in has[a].formats
           IN  /\ notes' = Append(notes, [target |-> t, ok |-> ok])
               /\ prop' = IF ok THEN Answer(has[a].formats, has[a].lines, has[a].lines, t) ELSE prop
        /\ asked' = SubSeq(asked, 1, i - 1) \o SubSeq(asked, i + 1, Len(asked))
        /\ UNCHANGED <<owner, has, offer, inbox, claiming, reader, seenClip, raced, calm,
                       echoed, x11Bounds>>

-----------------------------------------------------------------------------
(* The owner: write_file_paths and the thread.                             *)

\* Does the reader hold the watcher lock?
WatcherFree == reader = None /\ \A w \in Writer \ {"command"} : claiming[w] = None

\* write_file_paths up to the mutex: the offer is in place.
SetOffer(w, paths) ==
    /\ ownWrites < MaxOwnWrites
    /\ ownWrites' = ownWrites + 1
    /\ claiming[w] = None
    /\ w = "session" => WatcherFree
    /\ offer' = paths
    /\ claiming' = [claiming EXCEPT ![w] = [paths |-> paths, at |-> "offered"]]
    /\ calm' = FALSE
    /\ UNCHANGED <<owner, has, asked, inbox, notes, prop, reader, seenClip, raced, echoed,
                   appCopies, timeouts, reads>>

\* set_selection_owner; X tells the owner before, which is never our own window.
ClaimSelection(w) ==
    /\ claiming[w] # None /\ claiming[w].at = "offered"
    /\ owner' = Us
    /\ claiming' = [claiming EXCEPT ![w].at = "claimed"]
    /\ raced' = (offer = None \/ \E i \in 1 .. Len(inbox) : inbox[i].type = "clear")
    /\ UNCHANGED <<has, asked, offer, inbox, notes, prop, reader, seenClip, calm, echoed,
                   x11Bounds>>

\* Nothing that an earlier read asked for is still to come.
NothingLate ==
    /\ asked = <<>> /\ notes = <<>>
    /\ \A i \in 1 .. Len(inbox) : inbox[i].type # "request"

\* A plausible slip: the watcher does not read back what it wrote.
CheckOwnerNotReread(w) ==
    /\ claiming[w] # None /\ claiming[w].at = "claimed"
    /\ claiming' = [claiming EXCEPT ![w] = None]
    /\ UNCHANGED reader
    /\ calm' = (owner = Us /\ w = "session" /\ NothingLate)
    /\ UNCHANGED <<owner, has, asked, offer, inbox, notes, prop, seenClip, raced, echoed,
                   x11Bounds>>

\* get_selection_owner: with the selection ours, the watcher goes on to read
\* it back (PollingWatcher::write_file_paths); else the write has failed.
CheckOwner(w) ==
    /\ claiming[w] # None /\ claiming[w].at = "claimed"
    /\ claiming' = [claiming EXCEPT ![w] = None]
    /\ IF owner = Us /\ w = "session"
       THEN reader' = [at |-> "targets", offered |-> {}, why |-> "reread"]
       ELSE UNCHANGED reader
    /\ IF owner = Us /\ w = "session"
       THEN inbox' = Append(inbox, [type |-> "request", target |-> "targets"])
       ELSE UNCHANGED inbox
    /\ calm' = (owner = Us /\ w = "session" /\ NothingLate)
    /\ UNCHANGED <<owner, has, asked, offer, notes, prop, seenClip, raced, echoed, x11Bounds>>

\* A plausible slip: the offer is not dropped with the selection.
ServeKeepsOffer ==
    /\ inbox # <<>>
    /\ inbox' = Tail(inbox)
    /\ LET e == Head(inbox)
       IN  /\ IF e.type = "request"
              THEN /\ notes' = Append(notes, [target |-> e.target, ok |-> offer # None])
                   /\ prop' = IF offer = None THEN prop
                              ELSE Answer(Format, ToUriList(offer), ToGnomeCopiedFiles(offer), e.target)
              ELSE UNCHANGED <<notes, prop>>
    /\ UNCHANGED <<owner, has, asked, offer, claiming, reader, seenClip, raced, calm, echoed,
                   x11Bounds>>

\* A plausible slip: the offer is taken out to answer a request.
ServeTakesOffer ==
    /\ inbox # <<>>
    /\ inbox' = Tail(inbox)
    /\ offer' = None
    /\ LET e == Head(inbox)
       IN  /\ IF e.type = "request"
              THEN /\ notes' = Append(notes, [target |-> e.target, ok |-> offer # None])
                   /\ prop' = IF offer = None THEN prop
                              ELSE Answer(Format, ToUriList(offer), ToGnomeCopiedFiles(offer), e.target)
              ELSE UNCHANGED <<notes, prop>>
    /\ UNCHANGED <<owner, has, asked, claiming, reader, seenClip, raced, calm, echoed,
                   x11Bounds>>

\* One turn of serve: a request is answered from the offer, refused without
\* one; SelectionClear drops the offer.
Serve ==
    /\ inbox # <<>>
    /\ inbox' = Tail(inbox)
    /\ LET e == Head(inbox)
       IN  IF e.type = "clear"
           THEN offer' = None /\ UNCHANGED <<notes, prop>>
           ELSE /\ notes' = Append(notes, [target |-> e.target, ok |-> offer # None])
                /\ prop' = IF offer = None THEN prop
                           ELSE Answer(Format, ToUriList(offer), ToGnomeCopiedFiles(offer), e.target)
                /\ UNCHANGED offer
    /\ UNCHANGED <<owner, has, asked, claiming, reader, seenClip, raced, calm, echoed,
                   x11Bounds>>

-----------------------------------------------------------------------------
(* The reader: poll and the reading back, under the watcher lock.          *)

\* convert_selection for target t: X passes it to the owner.
Ask(t) ==
    IF owner = Us
    THEN inbox' = Append(inbox, [type |-> "request", target |-> t]) /\ UNCHANGED asked
    ELSE asked' = Append(asked, [app |-> owner, target |-> t]) /\ UNCHANGED inbox

\* poll, read_file_paths: the owner is asked for the formats.  (Before there
\* is an owner X refuses, there is no text either, and nothing changes.)
BeginRead ==
    /\ WatcherFree
    /\ reads < MaxReads
    /\ reads' = reads + 1
    /\ owner # None
    /\ reader' = [at |-> "targets", offered |-> {}, why |-> "poll"]
    /\ Ask("targets")
    /\ UNCHANGED <<owner, has, offer, notes, prop, claiming, seenClip, raced, calm, echoed,
                   appCopies, ownWrites, timeouts>>

\* get_text of arboard, which asks the owner of the moment.
TextNow ==
    CASE owner = Us /\ offer # None -> [kind |-> "text", of |-> offer]
      [] owner \in App -> [kind |-> "text", of |-> has[owner].text]
      [] OTHER -> None

\* bundle_from_paths: folders are left out, and what is too large makes it
\* refuse the rest as well.
Bundle(paths) ==
    LET files == Only(paths, (File \cup Junk) \ Folder)
    IN  IF files = <<>> \/ \E i \in DOMAIN files : files[i] \in TooLarge THEN None
        ELSE [kind |-> "files", of |-> files]

\* The read is over with these paths, with the text if there are none; poll
\* hands the clip out when it differs from the one last seen, the reading back
\* only notes it.
Conclude(paths) ==
    LET c == IF paths # <<>> THEN Bundle(paths) ELSE TextNow
    IN  /\ reader' = None
        /\ seenClip' = IF c # None \/ reader.why = "reread" THEN c ELSE seenClip
        /\ echoed' = (echoed \/ (reader.why = "poll" /\ calm' /\ c # None /\ c # seenClip))
        /\ UNCHANGED <<asked, inbox>>

\* The next format that is on offer, after the one just tried; else no files.
GoOn(tried, offered) ==
    LET left == offered \ tried
    IN  IF left = {} THEN Conclude(<<>>)
        ELSE LET t == IF "uri" \in left THEN "uri" ELSE "gnome"
             IN  /\ reader' = [reader EXCEPT !.at = t, !.offered = left]
                 /\ Ask(t)
                 /\ UNCHANGED <<seenClip, echoed>>

\* What comes of a read_target that failed, or got what.
Failed == IF reader.at = "targets" THEN Conclude(<<>>) ELSE GoOn({reader.at}, reader.offered)

Got(what) ==
    IF reader.at = "targets"
    THEN GoOn({}, IF what # None /\ what.target = "targets" THEN what.formats ELSE {})
    ELSE LET paths == IF what # None /\ what.target # "targets" THEN ParseList(what.lines) ELSE <<>>
         IN  IF paths # <<>> THEN Conclude(paths) ELSE GoOn({reader.at}, reader.offered)

\* poll_for_event: the next notification; one for another target is dropped.
HearNote ==
    /\ reader # None
    /\ notes # <<>>
    /\ notes' = Tail(notes)
    /\ UNCHANGED calm
    /\ LET n == Head(notes)
       IN  CASE n.target # reader.at -> UNCHANGED <<reader, asked, inbox, prop, seenClip, echoed>>
             [] n.target = reader.at /\ ~n.ok -> Failed /\ UNCHANGED prop
             [] n.target = reader.at /\ n.ok -> Got(prop) /\ prop' = None
    /\ UNCHANGED <<owner, has, offer, claiming, raced, x11Bounds>>

\* The deadline passes with no event waiting.
GiveUp ==
    /\ reader # None
    /\ notes = <<>>
    /\ timeouts < MaxTimeouts
    /\ timeouts' = timeouts + 1
    /\ calm' = FALSE
    /\ Failed
    /\ UNCHANGED <<owner, has, offer, notes, prop, claiming, raced, appCopies, ownWrites, reads>>

X11Next ==
    \/ \E a \in App : AppAnswers(a) \/ \E c \in AppClip : AppCopies(a, c)
    \/ \E w \in Writer :
          \/ \E p \in PathList : SetOffer(w, p)
          \/ ClaimSelection(w)
          \/ CheckOwner(w)
    \/ Serve
    \/ BeginRead
    \/ HearNote
    \/ GiveUp

X11Spec == X11Init /\ [][X11Next]_x11Vars

-----------------------------------------------------------------------------

\* Nothing is under way between us and the X server.
X11Quiet == inbox = <<>> /\ \A w \in Writer : claiming[w] = None

\* Once another program owns the selection and the thread has heard of it,
\* nothing of ours is offered any more, in whatever order writers, thread and
\* other programs took their turns.
NothingOfferedAfterLoss == X11Quiet /\ owner # Us => offer = None

\* Files that were written can be pasted for as long as the selection is ours,
\* unless the claim overtook the notice of an earlier loss: that notice then
\* drops the new offer, and pastes are refused although we own the selection.
PastableUnlessRaced == X11Quiet /\ owner = Us /\ ~raced => offer # None

\* What the session wrote is not taken for a new clip by the polls after it,
\* as long as nothing else happened and the reading back was answered in time.
NoEchoOfFiles == ~echoed
=============================================================================
