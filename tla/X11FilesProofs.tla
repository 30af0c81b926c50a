--------------------------- MODULE X11FilesProofs ---------------------------
(***************************************************************************)
(* What TLAPS proves of X11Files, for every set of programs and clips and  *)
(* every bound: its type invariant; the offer of the app follows the       *)
(* ownership of the X11 selection, but for a claim that overtook the       *)
(* notice of an earlier loss; files the session wrote are not read back.   *)
(***************************************************************************)
EXTENDS X11Files, SequenceTheorems, WellFoundedInduction, TLAPS

\* There is a notice of loss in queue q.
Notified(q) == \E i \in 1 .. Len(q) : q[i].type = "clear"

\* The types the argument needs.
OwnerTypes ==
    /\ inbox \in Seq(OwnerEvent)
    /\ claiming \in [Writer -> Claim \cup {None}]

\* An offer without the selection is on its way out or not claimed yet.
OfferFollows ==
    owner # Us /\ offer # None =>
        Notified(inbox) \/ \E w \in Writer : claiming[w] # None /\ claiming[w].at = "offered"

\* The selection without a race means an offer that nothing will drop.
OfferStands == owner = Us /\ ~raced => offer # None /\ ~Notified(inbox)

OfferInv == OwnerTypes /\ OfferFollows /\ OfferStands

-----------------------------------------------------------------------------
(* Queues.                                                                 *)

\* An event at the end of a queue is noticed, and those before it are still.
LEMMA NotifiedAppend ==
    ASSUME NEW q \in Seq(OwnerEvent), NEW e \in OwnerEvent
    PROVE  /\ Append(q, e) \in Seq(OwnerEvent)
           /\ Notified(Append(q, e)) <=> Notified(q) \/ e.type = "clear"
  <1>1. /\ Append(q, e) \in Seq(OwnerEvent)
        /\ Len(Append(q, e)) = Len(q) + 1
        /\ \A i \in 1 .. Len(q) : Append(q, e)[i] = q[i]
        /\ Append(q, e)[Len(q) + 1] = e
    BY AppendProperties
  <1>2. Len(q) \in Nat
    BY LenProperties
  <1> QED
    BY <1>1, <1>2 DEF Notified

\* Taking a request leaves the notices in the queue.
LEMMA NotifiedTail ==
    ASSUME NEW q \in Seq(OwnerEvent), q # <<>>
    PROVE  /\ Head(q) \in OwnerEvent
           /\ Tail(q) \in Seq(OwnerEvent)
           /\ Head(q).type = "clear" => Notified(q)
           /\ Head(q).type # "clear" => (Notified(Tail(q)) <=> Notified(q))
  <1>1. /\ Head(q) = q[1] /\ Head(q) \in OwnerEvent /\ Tail(q) \in Seq(OwnerEvent)
        /\ Len(q) \in Nat /\ Len(q) >= 1
        /\ Len(Tail(q)) = Len(q) - 1
        /\ \A i \in 1 .. Len(Tail(q)) : Tail(q)[i] = q[i + 1]
    BY HeadTailProperties, LenProperties, EmptySeq, ElementOfSeq
  <1>2. ASSUME Head(q).type # "clear", Notified(q)
        PROVE  Notified(Tail(q))
    <2>1. PICK i \in 1 .. Len(q) : q[i].type = "clear"
      BY <1>2 DEF Notified
    <2>2. i # 1
      BY <1>1, <1>2, <2>1
    <2>3. i - 1 \in 1 .. Len(Tail(q)) /\ Tail(q)[i - 1] = q[i]
      BY <1>1, <2>2
    <2> QED
      BY <2>1, <2>3 DEF Notified
  <1>3. ASSUME Notified(Tail(q))
        PROVE  Notified(q)
    BY <1>1, <1>3 DEF Notified
  <1> QED
    BY <1>1, <1>2, <1>3 DEF Notified

\* Asking adds at most a request to the queue of our owner window.
LEMMA AskEffect ==
    ASSUME NEW t \in Target, inbox \in Seq(OwnerEvent), Ask(t)
    PROVE  inbox' \in Seq(OwnerEvent) /\ (Notified(inbox') <=> Notified(inbox))
  <1>1. [type |-> "request", target |-> t] \in OwnerEvent
    BY DEF OwnerEvent
  <1> QED
    BY <1>1, NotifiedAppend DEF Ask

\* Whatever the reader concludes or goes on to, so does it.
LEMMA GoOnEffect ==
    ASSUME NEW tried, NEW offered, inbox \in Seq(OwnerEvent), GoOn(tried, offered)
    PROVE  inbox' \in Seq(OwnerEvent) /\ (Notified(inbox') <=> Notified(inbox))
  <1>1. CASE offered \ tried = {}
    BY <1>1 DEF GoOn, Conclude
  <1>2. CASE offered \ tried # {}
    <2>1. PICK t \in Format : Ask(t)
      BY <1>2 DEF GoOn, Format
    <2> QED
      BY <2>1, AskEffect DEF Target
  <1> QED
    BY <1>1, <1>2

LEMMA ReadEffect ==
    ASSUME NEW what, inbox \in Seq(OwnerEvent), Failed \/ Got(what)
    PROVE  inbox' \in Seq(OwnerEvent) /\ (Notified(inbox') <=> Notified(inbox))
  <1>1. CASE Failed
    BY <1>1, GoOnEffect DEF Failed, Conclude
  <1>2. CASE Got(what)
    BY <1>2, GoOnEffect DEF Got, Conclude
  <1> QED
    BY <1>1, <1>2

-----------------------------------------------------------------------------
(* The invariant.                                                          *)

LEMMA OfferInit == X11Init => OfferInv
  BY X11Assumption DEF X11Init, OfferInv, OwnerTypes, OfferFollows, OfferStands

\* A step of the reader touches neither offer nor selection.
LEMMA OfferReader ==
    ASSUME OfferInv, BeginRead \/ HearNote \/ GiveUp
    PROVE  OfferInv'
  <1>1. inbox' \in Seq(OwnerEvent) /\ (Notified(inbox') <=> Notified(inbox))
    <2>1. CASE BeginRead
      BY <2>1, AskEffect DEF BeginRead, OfferInv, OwnerTypes, Target
    <2>2. CASE HearNote
      <3>1. UNCHANGED inbox \/ Failed \/ Got(prop)
        BY <2>2 DEF HearNote
      <3> QED
        BY <3>1, ReadEffect DEF OfferInv, OwnerTypes
    <2>3. CASE GiveUp
      BY <2>3, ReadEffect DEF GiveUp, OfferInv, OwnerTypes
    <2> QED
      BY <2>1, <2>2, <2>3
  <1>2. UNCHANGED <<owner, offer, claiming, raced>>
    BY DEF BeginRead, HearNote, GiveUp
  <1> QED
    BY <1>1, <1>2 DEF OfferInv, OwnerTypes, OfferFollows, OfferStands

\* Our own steps: the offer precedes the claim, and the thread drops it only
\* on a notice.
LEMMA OfferWriter ==
    ASSUME OfferInv, NEW w \in Writer, NEW p \in PathList, SetOffer(w, p)
    PROVE  OfferInv'
  <1> USE DEF OfferInv, OwnerTypes
  <1>1. claiming' \in [Writer -> Claim \cup {None}]
    BY DEF SetOffer, Claim
  <1>2. claiming'[w] # None /\ claiming'[w].at = "offered"
    BY NoneAssumption DEF SetOffer, Claim
  <1>3. offer' # None
    BY X11Assumption DEF SetOffer
  <1> QED
    BY <1>1, <1>2, <1>3 DEF SetOffer, OfferFollows, OfferStands

LEMMA OfferClaim ==
    ASSUME OfferInv, NEW w \in Writer, ClaimSelection(w) \/ CheckOwner(w)
    PROVE  OfferInv'
  <1> USE DEF OfferInv, OwnerTypes
  <1>1. CASE ClaimSelection(w)
    <2>1. claiming' \in [Writer -> Claim \cup {None}]
      BY <1>1 DEF ClaimSelection, Claim
    <2> QED
      BY <1>1, <2>1 DEF ClaimSelection, OfferFollows, OfferStands, Notified
  <1>2. CASE CheckOwner(w)
    <2>1. claiming' \in [Writer -> Claim \cup {None}]
      BY <1>2 DEF CheckOwner
    <2>2. inbox' \in Seq(OwnerEvent) /\ (Notified(inbox') <=> Notified(inbox))
      <3>1. [type |-> "request", target |-> "targets"] \in OwnerEvent
        BY DEF OwnerEvent, Target
      <3> DEFINE e == [type |-> "request", target |-> "targets"]
      <3>2. inbox' \in {inbox, Append(inbox, e)}
        BY <1>2 DEF CheckOwner
      <3>3. e.type # "clear"
        OBVIOUS
      <3> HIDE DEF e
      <3>4. Append(inbox, e) \in Seq(OwnerEvent) /\ (Notified(Append(inbox, e)) <=> Notified(inbox))
        BY <3>1, <3>3, NotifiedAppend DEF e
      <3> QED
        BY <3>2, <3>4
    <2>3. \A v \in Writer : claiming[v] # None /\ claiming[v].at = "offered"
                              => claiming'[v] = claiming[v]
      BY <1>2 DEF CheckOwner
    <2> QED
      BY <1>2, <2>1, <2>2, <2>3 DEF CheckOwner, OfferFollows, OfferStands
  <1> QED
    BY <1>1, <1>2

LEMMA OfferThread ==
    ASSUME OfferInv, Serve
    PROVE  OfferInv'
  <1> USE DEF OfferInv, OwnerTypes
  <1>1. inbox # <<>> /\ inbox' = Tail(inbox) /\ UNCHANGED <<owner, claiming, raced>>
    BY DEF Serve
  <1>2. inbox' \in Seq(OwnerEvent)
    BY <1>1, NotifiedTail
  <1>3. CASE Head(inbox).type = "clear"
    <2>1. offer' = None /\ Notified(inbox)
      BY <1>1, <1>3, NotifiedTail DEF Serve
    <2> QED
      BY <1>1, <1>2, <2>1 DEF OfferFollows, OfferStands
  <1>4. CASE Head(inbox).type # "clear"
    <2>1. offer' = offer /\ (Notified(inbox') <=> Notified(inbox))
      BY <1>1, <1>4, NotifiedTail DEF Serve
    <2> QED
      BY <1>1, <1>2, <2>1 DEF OfferFollows, OfferStands
  <1> QED
    BY <1>3, <1>4

\* Other programs: who takes the selection from us leaves us a notice.
LEMMA OfferOthers ==
    ASSUME OfferInv, NEW a \in App, NEW c \in AppClip, AppCopies(a, c)
    PROVE  OfferInv'
  <1> USE DEF OfferInv, OwnerTypes
  <1>1. inbox' \in Seq(OwnerEvent) /\ (Notified(inbox') <=> Notified(inbox) \/ owner = Us)
    <2>1. [type |-> "clear"] \in OwnerEvent
      BY DEF OwnerEvent
    <2> QED
      BY <2>1, NotifiedAppend DEF AppCopies, Lost
  <1>2. owner' # Us
    BY X11Assumption DEF AppCopies
  <1> QED
    BY <1>1, <1>2 DEF AppCopies, OfferFollows, OfferStands

LEMMA OfferStep == OfferInv /\ [X11Next]_x11Vars => OfferInv'
  <1> SUFFICES ASSUME OfferInv, [X11Next]_x11Vars
               PROVE  OfferInv'
    OBVIOUS
  <1>1. CASE \E a \in App : AppAnswers(a) \/ \E c \in AppClip : AppCopies(a, c)
    <2>1. PICK a \in App : AppAnswers(a) \/ \E c \in AppClip : AppCopies(a, c)
      BY <1>1
    <2>2. CASE AppAnswers(a)
      BY <2>2 DEF AppAnswers, OfferInv, OwnerTypes, OfferFollows, OfferStands
    <2>3. CASE \E c \in AppClip : AppCopies(a, c)
      BY <2>3, OfferOthers
    <2> QED
      BY <2>1, <2>2, <2>3
  <1>2. CASE \E w \in Writer :
                \/ \E p \in PathList : SetOffer(w, p)
                \/ ClaimSelection(w)
                \/ CheckOwner(w)
    <2>1. PICK w \in Writer : (\E p \in PathList : SetOffer(w, p))
                                 \/ ClaimSelection(w) \/ CheckOwner(w)
      BY <1>2
    <2>2. CASE \E p \in PathList : SetOffer(w, p)
      BY <2>2, OfferWriter
    <2>3. CASE ClaimSelection(w) \/ CheckOwner(w)
      BY <2>3, OfferClaim
    <2> QED
      BY <2>1, <2>2, <2>3
  <1>3. CASE Serve
    BY <1>3, OfferThread
  <1>4. CASE BeginRead \/ HearNote \/ GiveUp
    BY <1>4, OfferReader
  <1>5. CASE UNCHANGED x11Vars
    BY <1>5 DEF x11Vars, OfferInv, OwnerTypes, OfferFollows, OfferStands
  <1> QED
    BY <1>1, <1>2, <1>3, <1>4, <1>5 DEF X11Next

LEMMA OfferInvariant == X11Spec => []OfferInv
  BY OfferInit, OfferStep, PTL DEF X11Spec

\* Once another program owns the selection and the thread has heard of it,
\* nothing of the app is offered any more (serve, SelectionClear).
THEOREM NothingOfferedAfterLossAlways == X11Spec => []NothingOfferedAfterLoss
  <1>1. OfferInv => NothingOfferedAfterLoss
    BY DEF OfferInv, OfferFollows, NothingOfferedAfterLoss, X11Quiet, Notified
  <1> QED
    BY <1>1, OfferInvariant, PTL

\* Files that were written can be pasted for as long as the selection is ours,
\* unless the claim overtook the notice of an earlier loss (write_file_paths).
THEOREM PastableUnlessRacedAlways == X11Spec => []PastableUnlessRaced
  <1>1. OfferInv => PastableUnlessRaced
    BY DEF OfferInv, OfferStands, PastableUnlessRaced
  <1> QED
    BY <1>1, OfferInvariant, PTL

-----------------------------------------------------------------------------
(* What is read while nothing disturbs us.                                 *)

\* The answer of the thread for target t, and the clip that a read of our own
\* offer comes to.
Offered(t) == Answer(Format, ToUriList(offer), ToGnomeCopiedFiles(offer), t)

ReadBack ==
    LET uri == ParseList(ToUriList(offer))
        gnome == ParseList(ToGnomeCopiedFiles(offer))
    IN  IF offer = None THEN None
        ELSE IF uri # <<>> THEN Bundle(uri)
        ELSE IF gnome # <<>> THEN Bundle(gnome)
        ELSE [kind |-> "text", of |-> offer]

\* The request of the reader is the last event for the thread; before it there
\* are at most notices of earlier losses, and only when we read back.
Awaiting ==
    /\ notes = <<>>
    /\ inbox # <<>>
    /\ inbox[Len(inbox)] = [type |-> "request", target |-> reader.at]
    /\ \A i \in 1 .. Len(inbox) - 1 : inbox[i].type = "clear"
    /\ Len(inbox) > 1 => reader.at = "targets" /\ reader.why = "reread"

\* The thread has answered, with what is on offer now.
Answered ==
    /\ inbox = <<>>
    /\ notes = <<[target |-> reader.at, ok |-> offer # None]>>
    /\ offer # None => prop = Offered(reader.at)

\* How far a read of our own offer can be.
Reading ==
    /\ reader.at # "targets" => offer # None
    /\ reader.at = "uri" => reader.offered = Format
    /\ reader.at = "gnome" => reader.offered = {"gnome"} /\ ParseList(ToUriList(offer)) = <<>>
    /\ Awaiting \/ Answered

\* The selection is ours, nothing is late, and what the watcher saw last is what
\* a read comes to, unless it is only just being read back.
Serene ==
    /\ owner = Us /\ asked = <<>>
    /\ reader = None => inbox = <<>> /\ notes = <<>>
    /\ reader # None => Reading
    /\ reader = None \/ reader.why = "poll" => seenClip = ReadBack

CalmInv == ~echoed /\ (calm => Serene)

\* The types of what a read looks at.
ReadTypes ==
    /\ calm => reader \in Read \cup {None}
    /\ offer \in PathList \cup {None}
    /\ calm \in BOOLEAN

EchoInv == OwnerTypes /\ ReadTypes /\ CalmInv

\* An answer of ours is not the absence of one.
LEMMA AnswerPresent ==
    ASSUME NEW t \in Target, offer \in PathList
    PROVE  /\ Offered(t).target = t
           /\ t = "targets" => Offered(t).formats = Format
           /\ t = "uri" => Offered(t).lines = ToUriList(offer)
           /\ t = "gnome" => Offered(t).lines = ToGnomeCopiedFiles(offer)
           /\ Offered(t) # None
  <1>1. offer \in Seq(File \cup Junk) /\ ToGnomeCopiedFiles(offer) \in Seq(File \cup Junk)
    <2>1. offer \in Seq(File \cup Junk)
      BY X11Assumption
    <2>2. <<Header>> \in Seq(File \cup Junk)
      BY X11Assumption
    <2> QED
      BY <2>1, <2>2, ConcatProperties DEF ToGnomeCopiedFiles
  <1>2. CASE t = "targets"
    <2>1. Offered(t) = [target |-> "targets", formats |-> Format]
      BY <1>2 DEF Offered, Answer
    <2>2. Offered(t) \in Property
      BY <2>1 DEF Property
    <2> QED
      BY <1>2, <2>1, <2>2, NoneAssumption
  <1>3. CASE t = "uri"
    <2>1. Offered(t) = [target |-> "uri", lines |-> ToUriList(offer)]
      BY <1>3 DEF Offered, Answer
    <2>2. Offered(t) \in Property
      BY <1>1, <2>1 DEF Property, Format, ToUriList
    <2> QED
      BY <1>3, <2>1, <2>2, NoneAssumption
  <1>4. CASE t = "gnome"
    <2>1. Offered(t) = [target |-> "gnome", lines |-> ToGnomeCopiedFiles(offer)]
      BY <1>4 DEF Offered, Answer
    <2>2. Offered(t) \in Property
      BY <1>1, <2>1 DEF Property, Format
    <2> QED
      BY <1>4, <2>1, <2>2, NoneAssumption
  <1> QED
    BY <1>2, <1>3, <1>4 DEF Target, Format

\* A queue of one event.
LEMMA LoneRequest ==
    ASSUME NEW t \in Target
    PROVE  LET q == Append(<<>>, [type |-> "request", target |-> t])
           IN  /\ q # <<>> /\ Len(q) = 1
               /\ q[Len(q)] = [type |-> "request", target |-> t]
  OBVIOUS

\* Our own request is the only thing in a queue that was empty.
LEMMA AskAlone ==
    ASSUME NEW t \in Target, owner = Us, inbox = <<>>, Ask(t)
    PROVE  /\ inbox' # <<>> /\ Len(inbox') = 1
           /\ inbox'[Len(inbox')] = [type |-> "request", target |-> t]
           /\ asked' = asked
  BY LoneRequest DEF Ask

-----------------------------------------------------------------------------
(* Steps while it is calm.                                                 *)

\* A read of our own offer ends with what the watcher saw last.
LEMMA CalmConclude ==
    ASSUME EchoInv, calm, reader # None, NEW paths, Conclude(paths),
           inbox = <<>>, notes' = <<>>, UNCHANGED <<owner, offer, claiming, calm>>,
           (IF paths # <<>> THEN Bundle(paths) ELSE TextNow) = ReadBack
    PROVE  EchoInv'
  <1> DEFINE c == IF paths # <<>> THEN Bundle(paths) ELSE TextNow
  <1>1. Serene /\ ~echoed
    BY DEF EchoInv, CalmInv
  <1>2. reader \in Read
    BY DEF EchoInv, ReadTypes
  <1>3. /\ reader' = None /\ UNCHANGED <<asked, inbox>>
        /\ seenClip' = IF c # None \/ reader.why = "reread" THEN c ELSE seenClip
        /\ echoed' = (echoed \/ (reader.why = "poll" /\ calm' /\ c # None /\ c # seenClip))
    BY DEF Conclude
  <1>4. c = ReadBack
    OBVIOUS
  <1> HIDE DEF c
  <1>5. reader.why = "poll" => seenClip = c
    BY <1>1, <1>4 DEF Serene
  <1>6. seenClip' = c
    <2>1. CASE reader.why = "poll"
      BY <1>3, <1>5, <2>1
    <2>2. CASE reader.why = "reread"
      BY <1>3, <2>2
    <2> QED
      BY <1>2, <2>1, <2>2 DEF Read
  <1>7. ~(reader.why = "poll" /\ calm' /\ c # None /\ c # seenClip)
    BY <1>5
  <1>8. ~echoed'
    BY <1>1, <1>3, <1>7
  <1>9. ReadBack' = ReadBack
    BY DEF ReadBack
  <1>10. Serene'
    BY <1>1, <1>3, <1>4, <1>6, <1>9 DEF Serene
  <1>11. OwnerTypes'
    BY <1>3 DEF EchoInv, OwnerTypes
  <1>12. ReadTypes'
    BY <1>3 DEF EchoInv, ReadTypes
  <1>13. CalmInv'
    BY <1>8, <1>10 DEF CalmInv
  <1> QED
    BY <1>11, <1>12, <1>13 DEF EchoInv

LEMMA EchoInit == X11Init => EchoInv
  <1> SUFFICES ASSUME X11Init
               PROVE  EchoInv
    OBVIOUS
  <1>1. OwnerTypes
    BY DEF X11Init, OwnerTypes
  <1>2. ReadTypes
    BY DEF X11Init, ReadTypes
  <1>3. CalmInv
    BY Zenon DEF X11Init, CalmInv
  <1> QED
    BY <1>1, <1>2, <1>3 DEF EchoInv

\* Whether or not it is calm, a step after which it is not keeps the invariant.
LEMMA NotCalm ==
    ASSUME OwnerTypes', ReadTypes', ~echoed', ~calm'
    PROVE  EchoInv'
  BY DEF EchoInv, CalmInv

\* The reading back begins when nothing is late.
LEMMA EchoCheck ==
    ASSUME EchoInv, OfferInv', NEW w \in Writer, CheckOwner(w)
    PROVE  EchoInv'
  <1>1. OwnerTypes' /\ UNCHANGED <<owner, asked, offer, notes, seenClip, echoed>>
    BY DEF OfferInv, CheckOwner
  <1>2. ReadTypes' /\ ~echoed'
    <2>1. calm' => reader' \in Read \cup {None}
      <3>1. [at |-> "targets", offered |-> {}, why |-> "reread"] \in Read
        BY DEF Read, Target
      <3> QED
        BY <3>1 DEF CheckOwner, EchoInv, ReadTypes
    <2>2. calm' \in BOOLEAN
      BY DEF CheckOwner
    <2> QED
      BY <1>1, <2>1, <2>2 DEF EchoInv, ReadTypes, CalmInv
  <1>3. CASE ~calm'
    BY <1>1, <1>2, <1>3, NotCalm
  <1>4. CASE calm'
    <2> DEFINE e == [type |-> "request", target |-> "targets"]
    <2>1. /\ owner = Us /\ NothingLate
          /\ reader' = [at |-> "targets", offered |-> {}, why |-> "reread"]
          /\ inbox' = Append(inbox, e)
      BY <1>4 DEF CheckOwner
    <2>2. reader' # None /\ reader'.at = "targets" /\ reader'.why = "reread"
      <3>1. reader' \in Read
        BY <2>1 DEF Read, Target
      <3> QED
        BY <2>1, <3>1, NoneAssumption
    <2>3. inbox \in Seq(OwnerEvent) /\ e \in OwnerEvent
      BY DEF EchoInv, OwnerTypes, OwnerEvent, Target
    <2> HIDE DEF e
    <2>4. /\ Len(inbox') = Len(inbox) + 1 /\ Len(inbox) \in Nat
          /\ \A i \in 1 .. Len(inbox) : inbox'[i] = inbox[i]
          /\ inbox'[Len(inbox')] = e
      <3>1. inbox' = Append(inbox, e)
        BY <2>1
      <3> QED
        BY <2>3, <3>1, AppendProperties, LenProperties
    <2>5. \A i \in 1 .. Len(inbox) : inbox[i].type = "clear"
      <3> SUFFICES ASSUME NEW i \in 1 .. Len(inbox)
                   PROVE  inbox[i].type = "clear"
        OBVIOUS
      <3>1. inbox[i] \in OwnerEvent
        BY <2>3, ElementOfSeq
      <3> QED
        BY <2>1, <3>1 DEF NothingLate, OwnerEvent
    <2>6. notes' = <<>> /\ asked' = <<>> /\ owner' = Us
      BY <1>1, <2>1 DEF NothingLate
    <2>7. inbox' # <<>>
      BY <2>4, EmptySeq
    <2>8. Awaiting'
      BY <2>2, <2>4, <2>5, <2>6, <2>7 DEF Awaiting, e
    <2>9. Serene'
      BY <2>2, <2>6, <2>8 DEF Serene, Reading
    <2> QED
      BY <1>1, <1>2, <2>9 DEF EchoInv, CalmInv
  <1> QED
    BY <1>3, <1>4

\* The thread answers the request, after the notices of earlier losses.
LEMMA EchoServe ==
    ASSUME EchoInv, OfferInv', Serve
    PROVE  EchoInv'
  <1>1. /\ OwnerTypes'
        /\ UNCHANGED <<owner, asked, reader, seenClip, calm, echoed>>
        /\ inbox # <<>> /\ inbox' = Tail(inbox)
    BY DEF OfferInv, Serve
  <1>2. ReadTypes' /\ ~echoed'
    <2>1. offer' \in PathList \cup {None}
      BY DEF Serve, EchoInv, ReadTypes
    <2> QED
      BY <1>1, <2>1 DEF EchoInv, ReadTypes, CalmInv
  <1>3. CASE ~calm'
    BY <1>1, <1>2, <1>3, NotCalm
  <1>4. CASE calm'
    <2>1. calm /\ Serene
      BY <1>1, <1>4 DEF EchoInv, CalmInv
    <2>2. reader # None /\ Awaiting /\ Reading
      BY <1>1, <2>1 DEF Serene, Reading, Answered
    <2>3. /\ Head(inbox) = inbox[1] /\ Len(inbox) \in Nat /\ Len(inbox) >= 1
          /\ Len(Tail(inbox)) = Len(inbox) - 1
          /\ \A i \in 1 .. Len(Tail(inbox)) : Tail(inbox)[i] = inbox[i + 1]
      BY <1>1, HeadTailProperties, LenProperties, EmptySeq DEF EchoInv, OwnerTypes
    <2>4. CASE Head(inbox).type = "clear"
      <3>1. offer' = None /\ UNCHANGED <<notes, prop>>
        BY <2>4 DEF Serve
      <3>2. Len(inbox) > 1
        BY <2>2, <2>3, <2>4 DEF Awaiting
      <3>3. reader.at = "targets" /\ reader.why = "reread"
        BY <2>2, <3>2 DEF Awaiting
      <3>4. /\ inbox'[Len(inbox')] = inbox[Len(inbox)]
            /\ \A i \in 1 .. Len(inbox') - 1 : inbox'[i].type = "clear"
        BY <1>1, <2>2, <2>3, <3>2 DEF Awaiting
      <3>5. inbox' # <<>>
        BY <1>1, <2>3, <3>2, EmptySeq
      <3>6. Awaiting'
        BY <1>1, <2>2, <3>1, <3>3, <3>4, <3>5 DEF Awaiting
      <3>7. Serene'
        BY <1>1, <2>1, <2>2, <3>3, <3>6 DEF Serene, Reading
      <3> QED
        BY <1>1, <1>2, <3>7 DEF EchoInv, CalmInv
    <2>5. CASE Head(inbox).type # "clear"
      <3>1. Len(inbox) = 1
        BY <2>2, <2>3, <2>5 DEF Awaiting
      <3>2. Head(inbox) = [type |-> "request", target |-> reader.at]
        BY <2>2, <2>3, <3>1 DEF Awaiting
      <3>3. /\ notes' = Append(notes, [target |-> reader.at, ok |-> offer # None])
            /\ prop' = IF offer = None THEN prop ELSE Offered(reader.at)
            /\ UNCHANGED offer
        BY <3>2 DEF Serve, Offered
      <3>4. notes' = <<[target |-> reader.at, ok |-> offer # None]>>
        BY <2>2, <3>3 DEF Awaiting
      <3>5. inbox' = <<>>
        BY <1>1, <2>3, <3>1, EmptySeq DEF OwnerTypes
      <3>6. Offered(reader.at)' = Offered(reader.at)
        BY <1>1, <3>3 DEF Offered
      <3>7. Answered'
        BY <1>1, <3>3, <3>4, <3>5, <3>6 DEF Answered
      <3>8. ReadBack' = ReadBack
        BY <3>3 DEF ReadBack
      <3>9. Serene'
        BY <1>1, <2>1, <2>2, <3>3, <3>7, <3>8 DEF Serene, Reading
      <3> QED
        BY <1>1, <1>2, <3>9 DEF EchoInv, CalmInv
    <2> QED
      BY <2>4, <2>5
  <1> QED
    BY <1>3, <1>4

\* The reader asks us for a target, with nothing else in any queue.
LEMMA CalmAsk ==
    ASSUME EchoInv, calm, owner = Us, asked = <<>>, inbox = <<>>,
           NEW r \in Read, Ask(r.at), reader' = r, notes' = <<>>, OwnerTypes',
           UNCHANGED <<owner, offer, seenClip, calm, echoed>>,
           r.at # "targets" => offer # None,
           r.at = "uri" => r.offered = Format,
           r.at = "gnome" => r.offered = {"gnome"} /\ ParseList(ToUriList(offer)) = <<>>,
           r.why = "poll" => seenClip = ReadBack
    PROVE  EchoInv'
  <1>1. r # None
    BY NoneAssumption
  <1>2. /\ inbox' # <<>> /\ Len(inbox') = 1
        /\ inbox'[Len(inbox')] = [type |-> "request", target |-> r.at]
        /\ asked' = asked
    BY AskAlone DEF Read
  <1>3. Awaiting'
    BY <1>2 DEF Awaiting
  <1>4. ReadBack' = ReadBack
    BY DEF ReadBack
  <1>5. Reading'
    BY <1>3 DEF Reading
  <1>6. Serene'
    BY <1>1, <1>2, <1>4, <1>5 DEF Serene
  <1>7. ReadTypes' /\ ~echoed'
    BY DEF EchoInv, ReadTypes, CalmInv
  <1> QED
    BY <1>6, <1>7 DEF EchoInv, CalmInv

LEMMA EchoBegin ==
    ASSUME EchoInv, OfferInv', BeginRead
    PROVE  EchoInv'
  <1> DEFINE r == [at |-> "targets", offered |-> {}, why |-> "poll"]
  <1>1. r \in Read /\ r.at = "targets" /\ r.why = "poll"
    BY DEF Read, Target
  <1>2. /\ OwnerTypes' /\ reader = None /\ reader' = r /\ Ask(r.at)
        /\ UNCHANGED <<owner, offer, notes, seenClip, calm, echoed>>
    BY DEF OfferInv, BeginRead, WatcherFree
  <1> HIDE DEF r
  <1>3. CASE ~calm
    BY <1>1, <1>2, <1>3, NotCalm DEF EchoInv, ReadTypes, CalmInv
  <1>4. CASE calm
    <2>1. Serene
      BY <1>4 DEF EchoInv, CalmInv
    <2>2. owner = Us /\ asked = <<>> /\ inbox = <<>> /\ notes' = <<>> /\ seenClip = ReadBack
      BY <1>2, <2>1 DEF Serene
    <2> QED
      BY <1>1, <1>2, <1>4, <2>2, CalmAsk
  <1> QED
    BY <1>3, <1>4

\* What a notification says.
LEMMA NoteRead ==
    ASSUME NEW n, NEW t, n = [target |-> t, ok |-> offer # None]
    PROVE  n.target = t /\ (n.ok <=> offer # None)
  <1>1. n.target = t
    OBVIOUS
  <1>2. CASE offer # None
    <2>1. n.ok
      BY <1>2, Zenon
    <2> QED
      BY <1>1, <1>2, <2>1
  <1>3. CASE offer = None
    <2>1. ~n.ok
      BY <1>3, Zenon
    <2> QED
      BY <1>1, <1>3, <2>1
  <1> QED
    BY <1>2, <1>3

\* The reader hears the answer to what it asked, which was ours.
LEMMA EchoHear ==
    ASSUME EchoInv, OfferInv', HearNote
    PROVE  EchoInv'
  <1>1. /\ OwnerTypes' /\ reader # None /\ notes # <<>> /\ notes' = Tail(notes)
        /\ UNCHANGED <<owner, offer, claiming, calm>>
    BY DEF OfferInv, HearNote
  <1>2. CASE ~calm
    <2>1. ~echoed /\ ~calm'
      BY <1>1, <1>2 DEF EchoInv, CalmInv
    <2>2. ASSUME NEW paths, Conclude(paths)
          PROVE  ~echoed'
      BY <2>1, <2>2 DEF Conclude
    <2>3. ASSUME NEW tried, NEW offered, GoOn(tried, offered)
          PROVE  ~echoed'
      BY <2>1, <2>2, <2>3 DEF GoOn
    <2>4. UNCHANGED echoed \/ Failed \/ Got(prop)
      BY DEF HearNote
    <2>5. ~echoed'
      BY <2>1, <2>2, <2>3, <2>4 DEF Failed, Got
    <2>6. ReadTypes'
      BY <1>1, <1>2 DEF EchoInv, ReadTypes
    <2> QED
      BY <1>1, <2>1, <2>5, <2>6, NotCalm
  <1>3. CASE calm
    <2>1. Serene /\ reader \in Read
      BY <1>1, <1>3 DEF EchoInv, CalmInv, ReadTypes
    <2>2. /\ owner = Us /\ asked = <<>> /\ Reading /\ Answered /\ inbox = <<>>
          /\ reader.why = "poll" => seenClip = ReadBack
      BY <1>1, <2>1 DEF Serene, Reading, Awaiting, Answered
    <2>3. /\ Head(notes) = [target |-> reader.at, ok |-> offer # None]
          /\ notes' = <<>>
      BY <1>1, <2>2 DEF Answered
    <2>4. CASE offer = None
      <3>1. Failed
        <4>1. Head(notes).target = reader.at /\ ~Head(notes).ok
          BY <2>3, <2>4, NoteRead
        <4> QED
          BY <4>1 DEF HearNote
      <3>2. reader.at = "targets"
        BY <2>2, <2>4 DEF Reading
      <3>3. Conclude(<<>>)
        BY <3>1, <3>2 DEF Failed
      <3>4. TextNow = None /\ ReadBack = None
        BY <2>2, <2>4, X11Assumption DEF TextNow, ReadBack
      <3> QED
        BY <1>1, <1>3, <2>2, <2>3, <3>3, <3>4, CalmConclude
    <2>5. CASE offer # None
      <3>1. offer \in PathList
        BY <2>5 DEF EchoInv, ReadTypes
      <3>2. Got(prop)
        <4>1. Head(notes).target = reader.at /\ Head(notes).ok
          BY <2>3, <2>5, NoteRead
        <4> QED
          BY <4>1 DEF HearNote
      <3>3. prop = Offered(reader.at)
        BY <2>2, <2>5 DEF Answered
      <3> DEFINE uri == ParseList(ToUriList(offer))
                 gnome == ParseList(ToGnomeCopiedFiles(offer))
      <3>4. /\ prop # None /\ prop.target = reader.at
            /\ reader.at = "targets" => prop.formats = Format
            /\ reader.at = "uri" => prop.lines = ToUriList(offer)
            /\ reader.at = "gnome" => prop.lines = ToGnomeCopiedFiles(offer)
        BY <2>1, <3>1, <3>3, AnswerPresent DEF Read
      <3>5. ReadBack = IF uri # <<>> THEN Bundle(uri)
                       ELSE IF gnome # <<>> THEN Bundle(gnome)
                       ELSE [kind |-> "text", of |-> offer]
        BY <2>5 DEF ReadBack
      <3>6. TextNow = [kind |-> "text", of |-> offer]
        BY <2>2, <2>5, X11Assumption DEF TextNow
      <3>7. CASE reader.at = "targets"
        <4>1. GoOn({}, Format)
          BY <3>2, <3>4, <3>7 DEF Got
        <4> DEFINE r == [reader EXCEPT !.at = "uri", !.offered = Format]
        <4>2. /\ reader' = r /\ Ask("uri") /\ UNCHANGED <<seenClip, echoed>>
          BY <4>1 DEF GoOn, Format
        <4>3. r \in Read /\ r.at = "uri" /\ r.offered = Format /\ r.why = reader.why
          BY <2>1 DEF Read, Target, Format
        <4> HIDE DEF r
        <4> QED
          BY <1>1, <1>3, <2>2, <2>3, <2>5, <4>2, <4>3, CalmAsk
      <3>8. CASE reader.at = "uri"
        <4>1. CASE uri # <<>>
          <5>1. Conclude(uri)
            BY <3>2, <3>4, <3>8, <4>1 DEF Got
          <5> QED
            BY <1>1, <1>3, <2>2, <2>3, <3>5, <4>1, <5>1, CalmConclude
        <4>2. CASE uri = <<>>
          <5>1. GoOn({"uri"}, Format)
            BY <2>2, <3>2, <3>4, <3>8, <4>2 DEF Got, Reading
          <5> DEFINE r == [reader EXCEPT !.at = "gnome", !.offered = {"gnome"}]
          <5>2. Format \ {"uri"} = {"gnome"}
            BY DEF Format
          <5>3. /\ reader' = r /\ Ask("gnome") /\ UNCHANGED <<seenClip, echoed>>
            BY <5>1, <5>2 DEF GoOn
          <5>4. r \in Read /\ r.at = "gnome" /\ r.offered = {"gnome"} /\ r.why = reader.why
            BY <2>1 DEF Read, Target, Format
          <5> HIDE DEF r
          <5> QED
            BY <1>1, <1>3, <2>2, <2>3, <2>5, <4>2, <5>3, <5>4, CalmAsk
        <4> QED
          BY <4>1, <4>2
      <3>9. CASE reader.at = "gnome"
        <4>1. uri = <<>> /\ reader.offered = {"gnome"}
          BY <2>2, <3>9 DEF Reading
        <4>2. CASE gnome # <<>>
          <5>1. Conclude(gnome)
            BY <3>2, <3>4, <3>9, <4>2 DEF Got
          <5> QED
            BY <1>1, <1>3, <2>2, <2>3, <3>5, <4>1, <4>2, <5>1, CalmConclude
        <4>3. CASE gnome = <<>>
          <5>1. GoOn({"gnome"}, {"gnome"})
            BY <3>2, <3>4, <3>9, <4>1, <4>3 DEF Got
          <5>2. Conclude(<<>>)
            BY <5>1 DEF GoOn
          <5> QED
            BY <1>1, <1>3, <2>2, <2>3, <3>5, <3>6, <4>1, <4>3, <5>2, CalmConclude
        <4> QED
          BY <4>2, <4>3
      <3> QED
        BY <2>1, <3>7, <3>8, <3>9 DEF Read, Target, Format
    <2> QED
      BY <2>4, <2>5
  <1> QED
    BY <1>2, <1>3

\* A read that is given up disturbs.
LEMMA EchoGiveUp ==
    ASSUME EchoInv, OfferInv', GiveUp
    PROVE  EchoInv'
  <1>1. OwnerTypes' /\ Failed /\ calm' = FALSE /\ UNCHANGED offer
    BY DEF OfferInv, GiveUp
  <1>2. ~calm' /\ ~echoed
    BY <1>1 DEF EchoInv, CalmInv
  <1>3. ASSUME NEW paths, Conclude(paths)
        PROVE  ~echoed'
    BY <1>2, <1>3 DEF Conclude
  <1>4. ASSUME NEW tried, NEW offered, GoOn(tried, offered)
        PROVE  ~echoed'
    BY <1>2, <1>3, <1>4 DEF GoOn
  <1>5. ~echoed'
    BY <1>1, <1>3, <1>4 DEF Failed
  <1>6. ReadTypes'
    BY <1>1 DEF EchoInv, ReadTypes
  <1> QED
    BY <1>1, <1>2, <1>5, <1>6, NotCalm

\* A claim finds the selection ours if it was calm; a copy and a write disturb,
\* and programs have nothing to answer.
LEMMA EchoClaim ==
    ASSUME EchoInv, OfferInv', NEW w \in Writer, ClaimSelection(w)
    PROVE  EchoInv'
  <1>1. /\ OwnerTypes' /\ owner' = Us
        /\ UNCHANGED <<asked, offer, inbox, notes, prop, reader, seenClip, calm, echoed>>
    BY DEF OfferInv, ClaimSelection
  <1>2. ReadTypes'
    BY <1>1 DEF EchoInv, ReadTypes
  <1>3. Serene => Serene'
    BY <1>1 DEF Serene, Reading, Awaiting, Answered, Offered, ReadBack
  <1> QED
    BY <1>1, <1>2, <1>3 DEF EchoInv, CalmInv

LEMMA EchoDisturb ==
    ASSUME EchoInv, OfferInv',
           \/ \E a \in App, c \in AppClip : AppCopies(a, c)
           \/ \E w \in Writer, p \in PathList : SetOffer(w, p)
    PROVE  EchoInv'
  <1>1. OwnerTypes' /\ calm' = FALSE /\ UNCHANGED echoed
    BY DEF OfferInv, AppCopies, SetOffer
  <1>2. offer' \in PathList \cup {None}
    BY DEF AppCopies, SetOffer, EchoInv, ReadTypes
  <1>3. ReadTypes'
    BY <1>1, <1>2 DEF ReadTypes
  <1>4. ~calm' /\ ~echoed'
    BY <1>1 DEF EchoInv, CalmInv
  <1> QED
    BY <1>1, <1>3, <1>4, NotCalm

LEMMA EchoAnswers ==
    ASSUME EchoInv, OfferInv', NEW a \in App, AppAnswers(a)
    PROVE  EchoInv'
  <1>1. /\ OwnerTypes' /\ asked # <<>>
        /\ UNCHANGED <<offer, reader, calm, echoed>>
    <2>1. PICK i \in 1 .. Len(asked) :
              UNCHANGED <<owner, has, offer, inbox, claiming, reader, seenClip, raced, calm,
                          echoed, x11Bounds>>
      BY DEF AppAnswers
    <2>2. asked # <<>>
      BY <2>1
    <2> QED
      BY <2>1, <2>2 DEF OfferInv
  <1>2. ~calm
    BY <1>1 DEF EchoInv, CalmInv, Serene
  <1>3. ~calm' /\ ~echoed'
    BY <1>1, <1>2 DEF EchoInv, CalmInv
  <1>4. ReadTypes'
    BY <1>1 DEF EchoInv, ReadTypes
  <1> QED
    BY <1>1, <1>3, <1>4, NotCalm

LEMMA EchoStep == EchoInv /\ OfferInv' /\ [X11Next]_x11Vars => EchoInv'
  <1> SUFFICES ASSUME EchoInv, OfferInv', [X11Next]_x11Vars
               PROVE  EchoInv'
    OBVIOUS
  <1>1. CASE \E a \in App : AppAnswers(a) \/ \E c \in AppClip : AppCopies(a, c)
    BY <1>1, EchoAnswers, EchoDisturb
  <1>2. CASE \E w \in Writer :
                \/ \E p \in PathList : SetOffer(w, p)
                \/ ClaimSelection(w)
                \/ CheckOwner(w)
    BY <1>2, EchoDisturb, EchoClaim, EchoCheck
  <1>3. CASE Serve
    BY <1>3, EchoServe
  <1>4. CASE BeginRead
    BY <1>4, EchoBegin
  <1>5. CASE HearNote
    BY <1>5, EchoHear
  <1>6. CASE GiveUp
    BY <1>6, EchoGiveUp
  <1>7. CASE UNCHANGED x11Vars
    <2>1. UNCHANGED <<owner, asked, offer, inbox, notes, prop, reader, seenClip, calm, echoed>>
      BY <1>7 DEF x11Vars
    <2>2. OwnerTypes'
      BY DEF OfferInv
    <2>3. ReadTypes'
      BY <2>1 DEF EchoInv, ReadTypes
    <2>4. Serene => Serene'
      BY <2>1 DEF Serene, Reading, Awaiting, Answered, Offered, ReadBack
    <2> QED
      BY <2>1, <2>2, <2>3, <2>4 DEF EchoInv, CalmInv
  <1> QED
    BY <1>1, <1>2, <1>3, <1>4, <1>5, <1>6, <1>7 DEF X11Next

\* What the session wrote is not handed out by the polls after it as if another
\* program had copied it, as long as nothing else happened (PollingWatcher::poll
\* after write_file_paths, which reads back what it wrote): no other writer, no
\* other program, and no reading that was answered after its deadline.
THEOREM NoEchoOfFilesAlways == X11Spec => []NoEchoOfFiles
  <1>1. EchoInv => NoEchoOfFiles
    BY DEF EchoInv, CalmInv, NoEchoOfFiles
  <1> QED
    BY <1>1, EchoInit, EchoStep, OfferInvariant, PTL DEF X11Spec

-----------------------------------------------------------------------------
(* Loops.                                                                  *)

\* What holds of 0, and of every number up to N if of the one before, holds of
\* all numbers up to N: there is no least one of which it does not.
LEMMA UpTo ==
    ASSUME NEW N \in Nat, NEW T, 0 \in T, \A k \in 1 .. N : k - 1 \in T => k \in T
    PROVE  \A k \in 0 .. N : k \in T
  <1> DEFINE Out == {k \in 0 .. N : k \notin T}
  <1>1. SUFFICES ASSUME Out # {}
                 PROVE  FALSE
    OBVIOUS
  <1>2. PICK m \in Out : \A n \in Out : ~ (<<n, m>> \in OpToRel(<, Nat))
    <2>1. Out \subseteq Nat
      OBVIOUS
    <2> HIDE DEF Out
    <2> QED
      BY <1>1, <2>1, NatLessThanWellFounded, WFMin
  <1>3. m \in 0 .. N /\ m \notin T /\ m # 0
    OBVIOUS
  <1>4. m - 1 \in 0 .. N /\ m \in 1 .. N /\ m - 1 \notin T
    BY <1>3
  <1>5. m - 1 \in Out /\ m - 1 \in Nat /\ m \in Nat /\ m - 1 < m
    BY <1>3, <1>4
  <1>6. ~ (<<m - 1, m>> \in OpToRel(<, Nat))
    BY <1>2, <1>5
  <1> HIDE DEF Out
  <1>7. <<m - 1, m>> \in OpToRel(<, Nat)
    BY <1>5, Zenon DEF OpToRel
  <1> QED
    BY <1>6, <1>7

\* g is what the loop of Only has kept after each of the first N elements.
Keeps(g, s, S, N) ==
    g = [i \in 0 .. N |-> IF i = 0 THEN <<>>
                          ELSE IF s[i] \in S THEN Append(g[i - 1], s[i]) ELSE g[i - 1]]

\* There is such a course of the loop: it goes on from that of one turn less.
LEMMA KeepsExists ==
    ASSUME NEW s, NEW S, NEW N \in Nat
    PROVE  \E g : Keeps(g, s, S, N)
  <1> DEFINE K == {k \in Nat : \E g : Keeps(g, s, S, k)}
  <1>1. 0 \in K
    <2>1. Keeps([i \in 0 .. 0 |-> <<>>], s, S, 0)
      BY DEF Keeps
    <2> QED
      BY <2>1
  <1>2. ASSUME NEW k \in 1 .. N, k - 1 \in K
        PROVE  k \in K
    <2>1. PICK h : Keeps(h, s, S, k - 1)
      BY <1>2
    <2> DEFINE g == [i \in 0 .. k |-> IF i # k THEN h[i]
                                      ELSE IF s[k] \in S THEN Append(h[k - 1], s[k]) ELSE h[k - 1]]
    <2>2. ASSUME NEW i \in 0 .. k
          PROVE  g[i] = IF i = 0 THEN <<>>
                        ELSE IF s[i] \in S THEN Append(g[i - 1], s[i]) ELSE g[i - 1]
      <3>1. CASE i = k
        <4>1. i # 0 /\ i - 1 \in 0 .. k /\ i - 1 # k
          BY <3>1
        <4>2. g[i - 1] = h[i - 1]
          BY <4>1
        <4> QED
          BY <3>1, <4>1, <4>2
      <3>2. CASE i # k
        <4>1. i \in 0 .. k - 1 /\ g[i] = h[i] /\ (i # 0 => i - 1 \in 0 .. k /\ i - 1 # k)
          BY <3>2
        <4>2. i # 0 => g[i - 1] = h[i - 1]
          BY <4>1
        <4>3. h[i] = IF i = 0 THEN <<>>
                     ELSE IF s[i] \in S THEN Append(h[i - 1], s[i]) ELSE h[i - 1]
          BY <2>1, <4>1 DEF Keeps
        <4> QED
          BY <4>1, <4>2, <4>3
      <3> QED
        BY <3>1, <3>2
    <2>3. g = [i \in 0 .. k |-> g[i]]
      OBVIOUS
    <2> HIDE DEF g
    <2>4. Keeps(g, s, S, k)
      BY <2>2, <2>3 DEF Keeps
    <2> QED
      BY <2>4
  <1>3. N \in K
    <2> HIDE DEF K
    <2>1. \A k \in 1 .. N : k - 1 \in K => k \in K
      BY <1>2
    <2>2. \A k \in 0 .. N : k \in K
      BY ONLY N \in Nat, <1>1, <2>1, UpTo
    <2> QED
      BY <2>2
  <1> QED
    BY <1>3

\* Only keeps a sequence of what it was to keep.
LEMMA OnlyType ==
    ASSUME NEW T, NEW s \in Seq(T), NEW S
    PROVE  Only(s, S) \in Seq(S \cap T)
  <1> DEFINE N == Len(s)
             g == CHOOSE f : Keeps(f, s, S, N)
             K == {k \in 0 .. N : g[k] \in Seq(S \cap T)}
  <1>1. N \in Nat /\ \A i \in 1 .. N : s[i] \in T
    BY ElementOfSeq
  <1>2. Only(s, S) = g[N]
    BY DEF Only, Keeps
  <1>3. Keeps(g, s, S, N)
    <2> HIDE DEF N
    <2>1. \E f : Keeps(f, s, S, N)
      BY <1>1, KeepsExists
    <2> QED
      BY <2>1
  <1> HIDE DEF g, N
  <1>4. /\ g[0] = <<>>
        /\ \A i \in 1 .. N : g[i] = IF s[i] \in S THEN Append(g[i - 1], s[i]) ELSE g[i - 1]
    <2>1. ASSUME NEW i \in 0 .. N
          PROVE  g[i] = IF i = 0 THEN <<>>
                        ELSE IF s[i] \in S THEN Append(g[i - 1], s[i]) ELSE g[i - 1]
      BY <1>3, <2>1 DEF Keeps
    <2>2. 0 \in 0 .. N /\ \A i \in 1 .. N : i \in 0 .. N /\ i # 0
      BY <1>1
    <2> QED
      BY <2>1, <2>2
  <1>5. 0 \in K
    <2>1. <<>> \in Seq(S \cap T)
      OBVIOUS
    <2>2. g[0] \in Seq(S \cap T)
      BY <1>4, <2>1
    <2>3. 0 \in 0 .. N
      BY <1>1
    <2> QED
      BY <2>2, <2>3
  <1>6. \A k \in 1 .. N : k - 1 \in K => k \in K
    <2> SUFFICES ASSUME NEW k \in 1 .. N, k - 1 \in K
                 PROVE  k \in K
      OBVIOUS
    <2>1. g[k - 1] \in Seq(S \cap T) /\ k \in 0 .. N
      BY <1>1
    <2>2. s[k] \in S => Append(g[k - 1], s[k]) \in Seq(S \cap T)
      BY <1>1, <2>1, AppendProperties
    <2> QED
      BY <1>4, <2>1, <2>2
  <1>7. N \in K
    <2> HIDE DEF K
    <2>1. \A k \in 0 .. N : k \in K
      BY ONLY <1>1, <1>5, <1>6, UpTo
    <2> QED
      BY <1>1, <2>1
  <1> QED
    BY <1>2, <1>7

-----------------------------------------------------------------------------
(* Types.                                                                  *)

\* Who owns the selection has something to answer with, and so has whoever was
\* asked; nobody is read before there is an owner.
OwnersHave ==
    /\ owner \in App => has[owner] # None
    /\ \A i \in 1 .. Len(asked) : has[asked[i].app] # None
    /\ reader # None => owner # None

TypeInv == X11TypeOK /\ OwnersHave

Asked == [app : App, target : Target]

\* What is kept of a list.
LEMMA ListTypes ==
    ASSUME NEW lines \in Seq(File \cup Junk)
    PROVE  /\ ParseList(lines) \in Seq(File)
           /\ lines \in Seq(File) => Bundle(lines) \in Clip \cup {None}
  <1>1. ParseList(lines) \in Seq(File)
    <2>1. Only(lines, File) \in Seq(File \cap (File \cup Junk))
      BY OnlyType
    <2>2. File \cap (File \cup Junk) = File
      OBVIOUS
    <2> QED
      BY <2>1, <2>2 DEF ParseList
  <1>2. ASSUME lines \in Seq(File) PROVE Bundle(lines) \in Clip \cup {None}
    <2> DEFINE S == (File \cup Junk) \ Folder
               files == Only(lines, S)
    <2>1. files \in Seq(S \cap File)
      BY <1>2, OnlyType
    <2>2. files \in Seq(File)
      <3> HIDE DEF files
      <3>1. S \cap File \subseteq File
        OBVIOUS
      <3> HIDE DEF S
      <3>2. \A i \in 1 .. Len(files) : files[i] \in File
        BY <2>1, <3>1, ElementOfSeq
      <3> QED
        BY <2>1, <3>1, <3>2
    <2>3. Bundle(lines) \in {None, [kind |-> "files", of |-> files]}
      BY DEF Bundle
    <2> HIDE DEF files
    <2>4. [kind |-> "files", of |-> files] \in Clip
      BY <2>2 DEF Clip
    <2> QED
      BY <2>3, <2>4
  <1> QED
    BY <1>1, <1>2

\* What any owner puts into the property.
LEMMA AnswerType ==
    ASSUME NEW formats \in SUBSET Format, NEW uri \in Seq(File \cup Junk),
           NEW gnome \in Seq(File \cup Junk), NEW t \in Target
    PROVE  Answer(formats, uri, gnome, t) \in Property
  <1>1. CASE t = "targets"
    BY <1>1 DEF Answer, Property
  <1>2. CASE t = "uri"
    BY <1>2 DEF Answer, Property, Format
  <1>3. CASE t = "gnome"
    BY <1>3 DEF Answer, Property, Format
  <1> QED
    BY <1>1, <1>2, <1>3 DEF Target, Format

\* What a program has copied.
LEMMA ClipTypes ==
    ASSUME NEW c \in AppClip
    PROVE  /\ c.formats \in SUBSET Format /\ c.lines \in Seq(File \cup Junk)
           /\ c.text \in File \cup Junk
  BY X11Assumption

\* The lists we write.
LEMMA OfferTypes ==
    ASSUME NEW p \in PathList
    PROVE  /\ ToUriList(p) \in Seq(File \cup Junk)
           /\ ToGnomeCopiedFiles(p) \in Seq(File \cup Junk)
  <1>1. p \in Seq(File \cup Junk)
    BY X11Assumption
  <1>2. <<Header>> \in Seq(File \cup Junk)
    BY X11Assumption
  <1> QED
    BY <1>1, <1>2, ConcatProperties DEF ToUriList, ToGnomeCopiedFiles

\* What a read leads to: the part of the invariant that it touches.
ReadTyped ==
    /\ asked \in Seq(Asked) /\ \A i \in 1 .. Len(asked) : has[asked[i].app] # None
    /\ inbox \in Seq(OwnerEvent)
    /\ reader \in Read \cup {None}
    /\ seenClip \in Clip \cup {None}
    /\ echoed \in BOOLEAN

LEMMA TypeRead == TypeInv => ReadTyped
  BY DEF TypeInv, X11TypeOK, OwnersHave, ReadTyped, Asked

\* Each request that waits for an answer.
LEMMA AskedTypes ==
    ASSUME TypeInv
    PROVE  /\ asked \in Seq(Asked) /\ Len(asked) \in Nat
           /\ \A j \in 1 .. Len(asked) :
                 asked[j] \in Asked /\ asked[j].app \in App /\ has[asked[j].app] # None
  <1>1. asked \in Seq(Asked) /\ \A i \in 1 .. Len(asked) : has[asked[i].app] # None
    BY TypeRead DEF ReadTyped
  <1>2. Len(asked) \in Nat /\ \A j \in 1 .. Len(asked) : asked[j] \in Asked
    BY <1>1, ElementOfSeq, LenProperties
  <1> QED
    BY <1>1, <1>2 DEF Asked

LEMMA AskTypes ==
    ASSUME TypeInv, NEW t \in Target, owner # None, Ask(t), UNCHANGED has
    PROVE  /\ asked' \in Seq(Asked) /\ \A i \in 1 .. Len(asked') : has'[asked'[i].app] # None
           /\ inbox' \in Seq(OwnerEvent)
  <1>1. /\ asked \in Seq(Asked) /\ inbox \in Seq(OwnerEvent)
        /\ \A i \in 1 .. Len(asked) : has[asked[i].app] # None
        /\ owner \in App \cup {Us} /\ (owner \in App => has[owner] # None)
    BY DEF TypeInv, X11TypeOK, OwnersHave, Asked
  <1>2. CASE owner = Us
    <2>1. [type |-> "request", target |-> t] \in OwnerEvent
      BY DEF OwnerEvent
    <2> QED
      BY <1>1, <1>2, <2>1, AppendProperties DEF Ask
  <1>3. CASE owner # Us
    <2> DEFINE r == [app |-> owner, target |-> t]
    <2>1. r \in Asked /\ r.app = owner
      BY <1>1, <1>3 DEF Asked
    <2>2. asked' = Append(asked, r) /\ inbox' = inbox
      BY <1>3 DEF Ask
    <2> HIDE DEF r
    <2>3. /\ asked' \in Seq(Asked) /\ Len(asked') = Len(asked) + 1 /\ asked'[Len(asked) + 1] = r
          /\ \A i \in 1 .. Len(asked) : asked'[i] = asked[i]
      BY <1>1, <2>1, <2>2, AppendProperties
    <2>4. Len(asked) \in Nat /\ has[r.app] # None
      BY <1>1, <1>3, <2>1
    <2>5. ASSUME NEW i \in 1 .. Len(asked') PROVE has'[asked'[i].app] # None
      <3>1. CASE i = Len(asked) + 1
        BY <2>3, <2>4, <3>1
      <3>2. CASE i # Len(asked) + 1
        <4>1. i \in 1 .. Len(asked)
          BY <2>3, <2>4, <3>2
        <4> QED
          BY <1>1, <2>3, <4>1
      <3> QED
        BY <3>1, <3>2
    <2> QED
      BY <1>1, <2>2, <2>3, <2>5
  <1> QED
    BY <1>2, <1>3

LEMMA TextType ==
    ASSUME TypeInv
    PROVE  TextNow \in Clip \cup {None}
  <1>1. CASE owner = Us /\ offer # None
    <2>1. TextNow = [kind |-> "text", of |-> offer] /\ offer \in PathList
      BY <1>1, X11Assumption DEF TextNow, TypeInv, X11TypeOK
    <2> QED
      BY <2>1 DEF Clip
  <1>2. CASE owner \in App
    <2>1. TextNow = [kind |-> "text", of |-> has[owner].text]
      BY <1>2, X11Assumption DEF TextNow
    <2>2. has[owner] \in AppClip
      BY <1>2 DEF TypeInv, X11TypeOK, OwnersHave
    <2>3. has[owner].text \in File \cup Junk
      BY <2>2, ClipTypes
    <2> QED
      BY <2>1, <2>3 DEF Clip
  <1>3. CASE ~(owner = Us /\ offer # None) /\ owner \notin App
    BY <1>3 DEF TextNow
  <1> QED
    BY <1>1, <1>2, <1>3

LEMMA ConcludeTypes ==
    ASSUME TypeInv, NEW paths \in Seq(File), Conclude(paths), UNCHANGED has
    PROVE  ReadTyped'
  <1> DEFINE c == IF paths # <<>> THEN Bundle(paths) ELSE TextNow
  <1>1. c \in Clip \cup {None}
    <2>1. \A i \in 1 .. Len(paths) : paths[i] \in File \cup Junk
      BY ElementOfSeq
    <2>2. paths \in Seq(File \cup Junk)
      BY <2>1
    <2> QED
      BY <2>2, ListTypes, TextType
  <1>2. /\ reader' = None /\ UNCHANGED <<asked, inbox>>
        /\ seenClip' = IF c # None \/ reader.why = "reread" THEN c ELSE seenClip
    BY DEF Conclude
  <1>3. echoed' = (echoed \/ (reader.why = "poll" /\ calm' /\ c # None /\ c # seenClip))
    BY DEF Conclude
  <1>4. echoed' \in BOOLEAN
    BY <1>3, Zenon
  <1> HIDE DEF c
  <1>5. seenClip' \in Clip \cup {None}
    BY <1>1, <1>2, TypeRead DEF ReadTyped
  <1> QED
    BY <1>2, <1>4, <1>5, TypeRead DEF ReadTyped

LEMMA GoOnTypes ==
    ASSUME TypeInv, reader \in Read, owner # None, UNCHANGED has,
           NEW tried, NEW offered \in SUBSET Format, GoOn(tried, offered)
    PROVE  ReadTyped'
  <1> DEFINE left == offered \ tried
             t == IF "uri" \in left THEN "uri" ELSE "gnome"
  <1>1. CASE left = {}
    <2>1. Conclude(<<>>)
      BY <1>1 DEF GoOn
    <2>2. <<>> \in Seq(File)
      OBVIOUS
    <2> QED
      BY <2>1, <2>2, ConcludeTypes
  <1>2. CASE left # {}
    <2>1. /\ reader' = [reader EXCEPT !.at = t, !.offered = left] /\ Ask(t)
          /\ UNCHANGED <<seenClip, echoed>>
      BY <1>2 DEF GoOn
    <2>2. t \in Target /\ left \in SUBSET Format
      BY DEF Target, Format
    <2> HIDE DEF t, left
    <2>3. reader' \in Read
      BY <2>1, <2>2 DEF Read
    <2>4. /\ asked' \in Seq(Asked) /\ \A i \in 1 .. Len(asked') : has'[asked'[i].app] # None
          /\ inbox' \in Seq(OwnerEvent)
      BY <2>1, <2>2, AskTypes
    <2> QED
      BY <2>1, <2>3, <2>4, TypeRead DEF ReadTyped
  <1> QED
    BY <1>1, <1>2

\* What comes of an answer, or of none.
LEMMA HeardTypes ==
    ASSUME TypeInv, reader # None, UNCHANGED has, Failed \/ Got(prop)
    PROVE  ReadTyped'
  <1>1. reader \in Read /\ owner # None /\ prop \in Property \cup {None}
    BY DEF TypeInv, X11TypeOK, OwnersHave
  <1>2. reader.offered \in SUBSET Format
    BY <1>1 DEF Read
  <1>3. <<>> \in Seq(File)
    OBVIOUS
  <1>4. CASE Failed
    BY <1>1, <1>2, <1>3, <1>4, ConcludeTypes, GoOnTypes DEF Failed
  <1>5. CASE Got(prop) /\ reader.at = "targets"
    <2> DEFINE offered == IF prop # None /\ prop.target = "targets" THEN prop.formats ELSE {}
    <2>1. GoOn({}, offered)
      BY <1>5 DEF Got
    <2>2. offered \in SUBSET Format
      BY <1>1 DEF Property, Format
    <2> HIDE DEF offered
    <2> QED
      BY <1>1, <2>1, <2>2, GoOnTypes
  <1>6. CASE Got(prop) /\ reader.at # "targets"
    <2> DEFINE paths == IF prop # None /\ prop.target # "targets" THEN ParseList(prop.lines) ELSE <<>>
    <2>1. IF paths # <<>> THEN Conclude(paths) ELSE GoOn({reader.at}, reader.offered)
      BY <1>6 DEF Got
    <2>2. paths \in Seq(File)
      <3>1. CASE prop # None /\ prop.target # "targets"
        <4>1. prop.lines \in Seq(File \cup Junk)
          BY <1>1, <3>1 DEF Property
        <4> QED
          BY <3>1, <4>1, ListTypes
      <3>2. CASE ~(prop # None /\ prop.target # "targets")
        BY <1>3, <3>2
      <3> QED
        BY <3>1, <3>2
    <2> HIDE DEF paths
    <2> QED
      BY <1>1, <1>2, <2>1, <2>2, ConcludeTypes, GoOnTypes
  <1> QED
    BY <1>4, <1>5, <1>6

LEMMA TypeInit == X11Init => TypeInv
  <1> SUFFICES ASSUME X11Init
               PROVE  TypeInv
    OBVIOUS
  <1>1. <<>> \in Seq(Asked) /\ <<>> \in Seq(OwnerEvent) /\ <<>> \in Seq(Note) /\ Len(<<>>) = 0
    OBVIOUS
  <1>2. owner = None /\ None \notin App
    BY X11Assumption DEF X11Init
  <1>3. {raced, calm, echoed} \subseteq BOOLEAN
    BY DEF X11Init
  <1>4. {appCopies, ownWrites, timeouts, reads} \subseteq Nat
    BY DEF X11Init
  <1>5. X11TypeOK
    BY <1>1, <1>2, <1>3, <1>4 DEF X11Init, X11TypeOK, Asked
  <1>6. OwnersHave
    BY <1>1, <1>2 DEF X11Init, OwnersHave
  <1> QED
    BY <1>5, <1>6 DEF TypeInv

\* The other parts of the invariant.
StateTyped ==
    /\ owner \in App \cup {Us, None} /\ has \in [App -> AppClip \cup {None}]
    /\ owner \in App => has[owner] # None
    /\ reader # None => owner # None
    /\ offer \in PathList \cup {None} /\ notes \in Seq(Note) /\ prop \in Property \cup {None}
    /\ claiming \in [Writer -> Claim \cup {None}]
    /\ raced \in BOOLEAN /\ calm \in BOOLEAN

BoundsTyped == {appCopies, ownWrites, timeouts, reads} \subseteq Nat

LEMMA TypeParts ==
    ASSUME StateTyped', BoundsTyped', ReadTyped'
    PROVE  TypeInv'
  <1>1. X11TypeOK'
    BY DEF ReadTyped, StateTyped, BoundsTyped, X11TypeOK, Asked
  <1>2. OwnersHave'
    BY DEF ReadTyped, StateTyped, OwnersHave
  <1> QED
    BY <1>1, <1>2 DEF TypeInv

LEMMA TypeCopies ==
    ASSUME TypeInv, NEW a \in App, NEW c \in AppClip, AppCopies(a, c)
    PROVE  TypeInv'
  <1> USE DEF TypeInv, X11TypeOK, OwnersHave
  <1>1. /\ has' = [has EXCEPT ![a] = c] /\ owner' = a /\ inbox' = Lost /\ calm' = FALSE
        /\ UNCHANGED <<asked, offer, notes, prop, claiming, reader, seenClip, raced, echoed>>
    BY DEF AppCopies
  <1>2. /\ has' \in [App -> AppClip \cup {None}] /\ has'[a] # None
        /\ \A b \in App : has[b] # None => has'[b] # None
    BY <1>1, X11Assumption
  <1>3. owner' # None
    BY <1>1, X11Assumption
  <1>4. inbox' \in Seq(OwnerEvent)
    <2>1. [type |-> "clear"] \in OwnerEvent
      BY DEF OwnerEvent
    <2> QED
      BY <1>1, <2>1, AppendProperties DEF Lost
  <1>5. \A i \in 1 .. Len(asked) : asked[i].app \in App
    BY AskedTypes
  <1>6. ReadTyped'
    BY <1>1, <1>2, <1>4, <1>5 DEF ReadTyped, Asked
  <1>7. BoundsTyped'
    BY DEF BoundsTyped, AppCopies
  <1>20. StateTyped'
    BY <1>1, <1>2, <1>3 DEF StateTyped, TypeInv, X11TypeOK, OwnersHave
  <1> QED
    BY <1>6, <1>7, <1>20, TypeParts

LEMMA TypeAnswers ==
    ASSUME TypeInv, NEW a \in App, AppAnswers(a)
    PROVE  TypeInv'
  <1>1. PICK i \in 1 .. Len(asked) :
            /\ asked[i].app = a
            /\ LET t == asked[i].target
                   ok == t = "targets" \/ t \in has[a].formats
               IN  /\ notes' = Append(notes, [target |-> t, ok |-> ok])
                   /\ prop' = IF ok THEN Answer(has[a].formats, has[a].lines, has[a].lines, t) ELSE prop
            /\ asked' = SubSeq(asked, 1, i - 1) \o SubSeq(asked, i + 1, Len(asked))
            /\ UNCHANGED <<owner, has, offer, inbox, claiming, reader, seenClip, raced, calm,
                           echoed, x11Bounds>>
    BY DEF AppAnswers
  <1> DEFINE t == asked[i].target
             ok == t = "targets" \/ t \in has[a].formats
             p == Answer(has[a].formats, has[a].lines, has[a].lines, t)
             s1 == SubSeq(asked, 1, i - 1)
             s2 == SubSeq(asked, i + 1, Len(asked))
             n == [target |-> t, ok |-> ok]
  <1>2. /\ asked \in Seq(Asked) /\ Len(asked) \in Nat /\ i \in Nat /\ asked[i] \in Asked
        /\ \A j \in 1 .. Len(asked) : asked[j] \in Asked /\ has[asked[j].app] # None
    BY AskedTypes
  <1>3. t \in Target /\ has[a] \in AppClip
    BY <1>1, <1>2 DEF Asked, TypeInv, X11TypeOK
  <1>4. p \in Property
    <2> HIDE DEF t
    <2>1. has[a].formats \in SUBSET Format /\ has[a].lines \in Seq(File \cup Junk)
      BY <1>3, ClipTypes
    <2> QED
      BY <1>3, <2>1, AnswerType
  <1>5. n \in Note
    <2> HIDE DEF t
    <2>1. ok \in BOOLEAN
      BY Zenon
    <2> HIDE DEF ok
    <2> QED
      BY <1>3, <2>1 DEF Note
  <1>6. notes' = Append(notes, n) /\ prop' = IF ok THEN p ELSE prop
    BY <1>1
  <1> HIDE DEF p, n, ok, t
  <1>7. /\ s1 \in Seq(Asked) /\ Len(s1) = i - 1 /\ \A j \in 1 .. i - 1 : s1[j] = asked[j]
    <2>1. \A j \in 1 .. i - 1 : asked[j] \in Asked
      BY <1>2
    <2> QED
      BY <1>2, <2>1, SubSeqProperties
  <1>8. /\ s2 \in Seq(Asked) /\ Len(s2) = Len(asked) - i
        /\ \A j \in 1 .. Len(asked) - i : s2[j] = asked[i + j]
    <2>1. \A j \in i + 1 .. Len(asked) : asked[j] \in Asked
      BY <1>2
    <2>0. i + 1 \in Int /\ Len(asked) \in Int
      BY <1>2
    <2>2. /\ s2 \in Seq(Asked)
          /\ Len(s2) = IF i + 1 <= Len(asked) THEN Len(asked) - (i + 1) + 1 ELSE 0
          /\ \A j \in 1 .. Len(asked) - (i + 1) + 1 : s2[j] = asked[i + 1 + j - 1]
      BY <1>2, <2>1, SubSeqProperties
    <2> HIDE DEF s2
    <2>3. Len(s2) = Len(asked) - i
      BY <1>2, <2>2
    <2>4. ASSUME NEW j \in 1 .. Len(asked) - i PROVE s2[j] = asked[i + j]
      <3>1. j \in 1 .. Len(asked) - (i + 1) + 1 /\ i + 1 + j - 1 = i + j
        BY <1>2
      <3> QED
        BY <2>2, <3>1
    <2> QED
      BY <2>2, <2>3, <2>4
  <1>9. asked' = s1 \o s2
    BY <1>1
  <1> HIDE DEF s1, s2
  <1>10. /\ asked' \in Seq(Asked) /\ Len(asked') = Len(asked) - 1
         /\ \A j \in 1 .. Len(s1) + Len(s2) : asked'[j] = IF j <= Len(s1) THEN s1[j] ELSE s2[j - Len(s1)]
    <2>1. /\ s1 \o s2 \in Seq(Asked) /\ Len(s1 \o s2) = Len(s1) + Len(s2)
          /\ \A j \in 1 .. Len(s1) + Len(s2) :
                 (s1 \o s2)[j] = IF j <= Len(s1) THEN s1[j] ELSE s2[j - Len(s1)]
      BY <1>7, <1>8, ConcatProperties
    <2>2. i - 1 + (Len(asked) - i) = Len(asked) - 1
      BY <1>2
    <2> QED
      BY <1>7, <1>8, <1>9, <2>1, <2>2
  <1>11. ASSUME NEW j \in 1 .. Len(asked') PROVE has'[asked'[j].app] # None
    <2>1. CASE j <= i - 1
      <3>1. j \in 1 .. i - 1 /\ j \in 1 .. Len(s1) + Len(s2) /\ j \in 1 .. Len(asked)
        BY <1>2, <1>7, <1>8, <1>10, <2>1
      <3>2. asked'[j] = asked[j]
        BY <1>7, <1>10, <2>1, <3>1
      <3> QED
        BY <1>1, <1>2, <3>1, <3>2
    <2>2. CASE j > i - 1
      <3> DEFINE k == j - (i - 1)
                 N == Len(asked)
      <3>0. N \in Nat /\ i \in 1 .. N /\ j \in 1 .. N - 1 /\ Len(s1) = i - 1 /\ Len(s2) = N - i
        BY <1>2, <1>7, <1>8, <1>10
      <3> HIDE DEF N
      <3>1. k \in 1 .. N - i /\ i + k = j + 1 /\ j + 1 \in 1 .. N
            /\ j \in 1 .. Len(s1) + Len(s2) /\ ~(j <= Len(s1)) /\ j - Len(s1) = k
        BY <2>2, <3>0
      <3> HIDE DEF k
      <3>2. asked'[j] = s2[k]
        BY <1>10, <3>1
      <3> USE DEF N
      <3>3. asked'[j] = asked[j + 1]
        BY <1>8, <3>1, <3>2
      <3> QED
        BY <1>1, <1>2, <3>1, <3>3
    <2> QED
      BY <1>2, <1>10, <2>1, <2>2
  <1>12. ReadTyped'
    BY <1>1, <1>10, <1>11, TypeRead DEF ReadTyped
  <1>13. notes' \in Seq(Note) /\ prop' \in Property \cup {None}
    <2>1. notes \in Seq(Note) /\ prop \in Property \cup {None}
      BY DEF TypeInv, X11TypeOK
    <2> QED
      BY <1>4, <1>5, <1>6, <2>1, AppendProperties
  <1>14. BoundsTyped'
    BY <1>1 DEF BoundsTyped, x11Bounds, TypeInv, X11TypeOK
  <1>20. StateTyped'
    BY <1>1, <1>13 DEF StateTyped, TypeInv, X11TypeOK, OwnersHave
  <1> QED
    BY <1>12, <1>14, <1>20, TypeParts

\* The writers: an offer, the claim and its check.
LEMMA TypeWriters ==
    ASSUME TypeInv, NEW w \in Writer,
           (\E p \in PathList : SetOffer(w, p)) \/ ClaimSelection(w) \/ CheckOwner(w)
    PROVE  TypeInv'
  <1> USE DEF TypeInv, X11TypeOK, OwnersHave
  <1>1. CASE \E p \in PathList : SetOffer(w, p)
    <2>1. PICK p \in PathList : SetOffer(w, p)
      BY <1>1
    <2>2. [paths |-> p, at |-> "offered"] \in Claim
      BY DEF Claim
    <2>3. claiming' \in [Writer -> Claim \cup {None}] /\ offer' \in PathList
      BY <2>1, <2>2 DEF SetOffer
    <2>4. calm' = FALSE /\ UNCHANGED <<owner, has, asked, inbox, notes, prop, reader, seenClip, raced, echoed>>
      BY <2>1 DEF SetOffer
    <2>5. ReadTyped'
      BY <2>4 DEF ReadTyped, Asked
    <2>6. BoundsTyped'
      BY <2>1 DEF BoundsTyped, SetOffer
    <2>20. StateTyped'
      BY <2>3, <2>4 DEF StateTyped, TypeInv, X11TypeOK, OwnersHave
    <2> QED
      BY <2>5, <2>6, <2>20, TypeParts
  <1>2. CASE ClaimSelection(w)
    <2>1. claiming' \in [Writer -> Claim \cup {None}]
      BY <1>2 DEF ClaimSelection, Claim
    <2>2. raced' = (offer = None \/ \E i \in 1 .. Len(inbox) : inbox[i].type = "clear")
      BY <1>2 DEF ClaimSelection
    <2>3. raced' \in BOOLEAN
      BY <2>2, Zenon
    <2>4. /\ owner' = Us /\ Us \notin App /\ Us # None
          /\ UNCHANGED <<has, asked, offer, inbox, notes, prop, reader, seenClip, calm, echoed, x11Bounds>>
      BY <1>2, X11Assumption DEF ClaimSelection
    <2>5. ReadTyped'
      BY <2>4 DEF ReadTyped, Asked
    <2>6. BoundsTyped'
      BY <2>4 DEF BoundsTyped, x11Bounds
    <2>20. StateTyped'
      BY <2>1, <2>3, <2>4 DEF StateTyped, TypeInv, X11TypeOK, OwnersHave
    <2> QED
      BY <2>5, <2>6, <2>20, TypeParts
  <1>3. CASE CheckOwner(w)
    <2>1. claiming' \in [Writer -> Claim \cup {None}]
      BY <1>3 DEF CheckOwner
    <2>2. /\ UNCHANGED <<owner, has, asked, offer, notes, prop, seenClip, raced, echoed, x11Bounds>>
          /\ calm' = (owner = Us /\ w = "session" /\ NothingLate)
      BY <1>3 DEF CheckOwner
    <2>3. calm' \in BOOLEAN
      BY <2>2, Zenon
    <2>4. (reader' = reader \/ owner = Us) /\ reader' \in Read \cup {None}
      <3>1. [at |-> "targets", offered |-> {}, why |-> "reread"] \in Read
        BY DEF Read, Target
      <3> QED
        BY <1>3, <3>1 DEF CheckOwner
    <2>5. inbox' \in Seq(OwnerEvent)
      <3> DEFINE e == [type |-> "request", target |-> "targets"]
      <3>1. e \in OwnerEvent
        BY DEF OwnerEvent, Target
      <3>2. inbox' \in {inbox, Append(inbox, e)} /\ inbox \in Seq(OwnerEvent)
        BY <1>3 DEF CheckOwner
      <3> HIDE DEF e
      <3>3. Append(inbox, e) \in Seq(OwnerEvent)
        BY <3>1, <3>2, AppendProperties
      <3> QED
        BY <3>2, <3>3
    <2>6. ReadTyped'
      BY <2>2, <2>4, <2>5 DEF ReadTyped, Asked
    <2>7. BoundsTyped'
      BY <2>2 DEF BoundsTyped, x11Bounds
    <2>8. reader' # None => owner' # None
      BY <2>2, <2>4, X11Assumption
    <2>20. StateTyped'
      BY <2>1, <2>2, <2>3, <2>8 DEF StateTyped, TypeInv, X11TypeOK, OwnersHave
    <2> QED
      BY <2>6, <2>7, <2>20, TypeParts
  <1> QED
    BY <1>1, <1>2, <1>3

LEMMA TypeServe ==
    ASSUME TypeInv, Serve
    PROVE  TypeInv'
  <1> USE DEF TypeInv, X11TypeOK, OwnersHave
  <1>1. /\ inbox # <<>> /\ inbox' = Tail(inbox)
        /\ UNCHANGED <<owner, has, asked, claiming, reader, seenClip, raced, calm, echoed, x11Bounds>>
    BY DEF Serve
  <1>2. Head(inbox) \in OwnerEvent /\ inbox' \in Seq(OwnerEvent)
    BY <1>1, HeadTailProperties
  <1>3. ReadTyped'
    BY <1>1, <1>2 DEF ReadTyped, Asked
  <1>4. BoundsTyped'
    BY <1>1 DEF BoundsTyped, x11Bounds
  <1>5. /\ offer' \in PathList \cup {None} /\ notes' \in Seq(Note)
        /\ prop' \in Property \cup {None}
    <2>1. CASE Head(inbox).type = "clear"
      BY <2>1 DEF Serve
    <2>2. CASE Head(inbox).type # "clear"
      <3> DEFINE t == Head(inbox).target
                 ok == offer # None
                 n == [target |-> t, ok |-> ok]
                 p == Answer(Format, ToUriList(offer), ToGnomeCopiedFiles(offer), t)
      <3>1. notes' = Append(notes, n) /\ prop' = (IF offer = None THEN prop ELSE p) /\ UNCHANGED offer
        BY <2>2 DEF Serve
      <3>2. t \in Target
        BY <1>2, <2>2 DEF OwnerEvent
      <3> HIDE DEF t
      <3>3. n \in Note
        <4>1. ok \in BOOLEAN
          BY Zenon
        <4> HIDE DEF ok
        <4> QED
          BY <3>2, <4>1 DEF Note
      <3>4. offer # None => p \in Property
        <4>1. ASSUME offer # None PROVE ToUriList(offer) \in Seq(File \cup Junk)
                                        /\ ToGnomeCopiedFiles(offer) \in Seq(File \cup Junk)
          BY <4>1, OfferTypes
        <4> QED
          BY <3>2, <4>1, AnswerType
      <3> HIDE DEF n, p, ok
      <3> QED
        BY <3>1, <3>3, <3>4, AppendProperties
    <2> QED
      BY <2>1, <2>2
  <1>20. StateTyped'
    BY <1>1, <1>5 DEF StateTyped, TypeInv, X11TypeOK, OwnersHave
  <1> QED
    BY <1>3, <1>4, <1>20, TypeParts

LEMMA TypeReader ==
    ASSUME TypeInv, BeginRead \/ HearNote \/ GiveUp
    PROVE  TypeInv'
  <1>1. UNCHANGED <<owner, has, offer, claiming, raced>>
    BY DEF BeginRead, HearNote, GiveUp
  <1>2. CASE BeginRead
    <2>1. /\ owner # None /\ Ask("targets") /\ UNCHANGED <<notes, prop, seenClip, calm, echoed>>
          /\ reader' = [at |-> "targets", offered |-> {}, why |-> "poll"]
      BY <1>2 DEF BeginRead
    <2>2. reader' \in Read /\ "targets" \in Target
      BY <2>1 DEF Read, Target
    <2>3. ReadTyped'
      BY <1>1, <2>1, <2>2, AskTypes, TypeRead DEF ReadTyped
    <2>4. BoundsTyped'
      BY <1>2 DEF BoundsTyped, BeginRead, TypeInv, X11TypeOK
    <2>20. StateTyped'
      BY <1>1, <2>1 DEF StateTyped, TypeInv, X11TypeOK, OwnersHave
    <2> QED
      BY <2>3, <2>4, <2>20, TypeParts
  <1>3. CASE HearNote
    <2>1. reader # None /\ notes # <<>> /\ notes' = Tail(notes) /\ UNCHANGED <<calm, x11Bounds>>
      BY <1>3 DEF HearNote
    <2>2. notes' \in Seq(Note)
      BY <2>1, HeadTailProperties DEF TypeInv, X11TypeOK
    <2>3. CASE UNCHANGED <<reader, asked, inbox, prop, seenClip, echoed>>
      <3>1. ReadTyped'
        BY <1>1, <2>3, TypeRead DEF ReadTyped
      <3>2. BoundsTyped'
        BY <2>1 DEF BoundsTyped, x11Bounds, TypeInv, X11TypeOK
      <3>20. StateTyped'
        BY <1>1, <2>1, <2>2, <2>3 DEF StateTyped, TypeInv, X11TypeOK, OwnersHave
      <3> QED
        BY <3>1, <3>2, <3>20, TypeParts
    <2>4. CASE (Failed \/ Got(prop)) /\ prop' \in {prop, None}
      <3>1. ReadTyped'
        BY <1>1, <2>1, <2>4, HeardTypes
      <3>2. BoundsTyped'
        BY <2>1 DEF BoundsTyped, x11Bounds, TypeInv, X11TypeOK
      <3>3. prop' \in Property \cup {None}
        BY <2>4 DEF TypeInv, X11TypeOK
      <3>4. owner' # None
        BY <1>1, <2>1 DEF TypeInv, OwnersHave
      <3>20. StateTyped'
        BY <1>1, <2>1, <2>2, <3>3, <3>4 DEF StateTyped, TypeInv, X11TypeOK, OwnersHave
      <3> QED
        BY <3>1, <3>2, <3>20, TypeParts
    <2>5. \/ UNCHANGED <<reader, asked, inbox, prop, seenClip, echoed>>
          \/ (Failed \/ Got(prop)) /\ prop' \in {prop, None}
      <3> DEFINE n == Head(notes)
      <3>1. n.target # reader.at => UNCHANGED <<reader, asked, inbox, prop, seenClip, echoed>>
        BY <1>3 DEF HearNote
      <3>2. n.target = reader.at /\ ~n.ok => Failed /\ UNCHANGED prop
        BY <1>3 DEF HearNote
      <3>3. n.target = reader.at /\ n.ok => Got(prop) /\ prop' = None
        BY <1>3 DEF HearNote
      <3> QED
        BY <3>1, <3>2, <3>3
    <2> QED
      BY <2>3, <2>4, <2>5
  <1>4. CASE GiveUp
    <2>1. reader # None /\ calm' = FALSE /\ Failed /\ UNCHANGED <<notes, prop>>
      BY <1>4 DEF GiveUp
    <2>2. ReadTyped'
      BY <1>1, <2>1, HeardTypes
    <2>3. BoundsTyped'
      BY <1>4 DEF BoundsTyped, GiveUp, TypeInv, X11TypeOK
    <2>4. owner' # None
      BY <1>1, <2>1 DEF TypeInv, OwnersHave
    <2>20. StateTyped'
      BY <1>1, <2>1, <2>4 DEF StateTyped, TypeInv, X11TypeOK, OwnersHave
    <2> QED
      BY <2>2, <2>3, <2>20, TypeParts
  <1> QED
    BY <1>2, <1>3, <1>4

LEMMA TypeStep == TypeInv /\ [X11Next]_x11Vars => TypeInv'
  <1> SUFFICES ASSUME TypeInv, [X11Next]_x11Vars
               PROVE  TypeInv'
    OBVIOUS
  <1>1. CASE \E a \in App : AppAnswers(a) \/ \E c \in AppClip : AppCopies(a, c)
    BY <1>1, TypeAnswers, TypeCopies
  <1>2. CASE \E w \in Writer :
                \/ \E p \in PathList : SetOffer(w, p)
                \/ ClaimSelection(w)
                \/ CheckOwner(w)
    BY <1>2, TypeWriters
  <1>3. CASE Serve
    BY <1>3, TypeServe
  <1>4. CASE BeginRead \/ HearNote \/ GiveUp
    BY <1>4, TypeReader
  <1>5. CASE UNCHANGED x11Vars
    BY <1>5 DEF x11Vars, x11Bounds, TypeInv, X11TypeOK, OwnersHave
  <1> QED
    BY <1>1, <1>2, <1>3, <1>4, <1>5 DEF X11Next

\* Every queue, offer and clip is what it should be in every reachable state: a
\* clip made of a list has only local files, whatever was on the list
\* (uri_list::parse, bundle_from_paths), and who is asked has copied something.
THEOREM X11TypeOKAlways == X11Spec => []X11TypeOK
  <1>1. TypeInv => X11TypeOK
    BY DEF TypeInv
  <1> QED
    BY <1>1, TypeInit, TypeStep, PTL DEF X11Spec
=============================================================================
