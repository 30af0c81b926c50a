--------------------------- MODULE HostingProofs ----------------------------
(***************************************************************************)
(* What TLAPS proves of Hosting, for all bounds.  Of the embedded relay and *)
(* what is on disk: the port of the relay is held exactly while the app    *)
(* says that it hosts; every variable keeps its type; a relay has the      *)
(* identity other devices have seen; its log is on its disk, and only grows. *)
(* Of the sessions of the worker: a workspace made here has been taken by a *)
(* relay or its claim is accounted for; a session that goes on is with the *)
(* relay the settings name, or its end is due; a device that only hosts has *)
(* the key of its workspace.                                               *)
(***************************************************************************)
EXTENDS Hosting, SequenceTheorems, TLAPS

CoreField == {"log", "key", "pending", "joining", "hosting", "connected"}

\* The types the argument needs: the shape of the core, of the jobs and of the
\* list of relays, whatever they hold.
JobsShape == jobs = [j \in Job |-> [step |-> jobs[j].step, id |-> jobs[j].id]]

HostShape ==
    /\ core = [x \in CoreField |-> core[x]]
    /\ JobsShape
    /\ \E S : relays \in Seq(S)

Bound == {j \in Job : jobs[j].step = "bound"}

\* The relay that holds the port is known to the core or to the one command that
\* has bound it.
PortHeld ==
    /\ listener # 0 <=> core.hosting \/ Bound # {}
    /\ core.hosting => Bound = {}
    /\ \A i, j \in Bound : i = j

HostInv == HostShape /\ PortHeld

-----------------------------------------------------------------------------
(* Steps that leave the port alone.                                        *)

Calm ==
    /\ HostShape'
    /\ UNCHANGED listener
    /\ core'.hosting = core.hosting
    /\ Bound' = Bound

LEMMA CalmKeeps ==
    ASSUME HostInv, Calm
    PROVE  HostInv'
  BY DEF Calm, HostInv, PortHeld

\* A job that has bound nothing goes to a step that binds nothing.
LEMMA GoesCalmly ==
    ASSUME HostShape, NEW j \in Job, NEW s, s # "bound", jobs[j].step # "bound",
           \/ jobs' = Goes(j, s)
           \/ \E n : jobs' = [jobs EXCEPT ![j] = [step |-> s, id |-> n]]
    PROVE  JobsShape' /\ Bound' = Bound
  <1>1. PICK n : jobs' = [jobs EXCEPT ![j] = [step |-> s, id |-> n]]
    BY DEF HostShape, JobsShape, Goes
  <1>2. JobsShape'
    BY <1>1 DEF HostShape, JobsShape
  <1>3. \A k \in Job : jobs'[k].step = "bound" <=> jobs[k].step = "bound"
    BY <1>1 DEF HostShape, JobsShape
  <1> QED
    BY <1>2, <1>3 DEF Bound

\* The list of relays keeps its shape when the log of one of them changes.
LEMMA LoggedShape ==
    ASSUME HostShape, NEW i, NEW log, relays' = [relays EXCEPT ![i].log = log]
    PROVE  \E S : relays' \in Seq(S)
  <1>1. PICK S : relays \in Seq(S)
    BY DEF HostShape
  <1>2. relays' = [relays EXCEPT ![i] = [relays[i] EXCEPT !.log = log]]
    OBVIOUS
  <1>3. CASE i \in 1 .. Len(relays)
    <2> DEFINE T == S \cup {[relays[i] EXCEPT !.log = log]}
    <2>1. relays \in Seq(T)
      BY <1>1
    <2>2. relays' \in Seq(T)
      BY <1>2, <1>3, <2>1, ExceptSeq
    <2> QED
      BY <2>2
  <1>4. CASE i \notin 1 .. Len(relays)
    <2>1. relays' = relays
      BY <1>1, <1>2, <1>4
    <2> QED
      BY <1>1, <2>1
  <1> QED
    BY <1>3, <1>4

\* What the core keeps while nothing is started or stopped.
CoreCalm ==
    /\ core' = [x \in CoreField |-> core'[x]]
    /\ core'.hosting = core.hosting

\* Steps of the window, the worker and the network that touch no shared state
\* of the relay.
LEMMA SettingsCalm ==
    ASSUME HostShape, SwitchSync \/ OpenPage \/ SavePage
    PROVE  Calm
  <1>1. UNCHANGED <<core, jobs, relays, listener>>
    BY DEF SwitchSync, OpenPage, SavePage, relayVars
  <1> QED
    BY <1>1 DEF Calm, HostShape, JobsShape, Bound

LEMMA WorkerCalm ==
    ASSUME HostShape, Worker
    PROVE  Calm
  <1>1. UNCHANGED <<jobs, relays, listener>>
    BY DEF Worker, Turn, Woken, Again, TakePending, ClaimFails, ClaimAcked, GuestGetsLog,
           GuestFails, GuestJoined, SayHello, Greet, Hear, EndSession, FailOnboarding, relayVars
  <1>2. CoreCalm
    <2>1. CASE UNCHANGED core
      BY <2>1 DEF CoreCalm, HostShape
    <2>2. CASE \E drop \in BOOLEAN : Fail(drop)
      BY <2>2 DEF CoreCalm, HostShape, Fail, CoreField
    <2>3. CASE ClaimAcked
      BY <2>3 DEF CoreCalm, HostShape, ClaimAcked, CoreField
    <2>4. CASE GuestJoined
      BY <2>4 DEF CoreCalm, HostShape, GuestJoined, CoreField
    <2>5. CASE Greet
      BY <2>5 DEF CoreCalm, HostShape, Greet, CoreField
    <2>6. CASE Hear
      BY <2>6 DEF CoreCalm, HostShape, Hear, CoreField
    <2>7. CASE EndSession
      BY <2>7 DEF CoreCalm, HostShape, EndSession, CoreField
    <2> QED
      BY <2>1, <2>2, <2>3, <2>4, <2>5, <2>6, <2>7
      DEF Worker, Turn, Woken, Again, TakePending, ClaimFails, GuestGetsLog, GuestFails,
          SayHello, FailOnboarding, appVars
  <1> QED
    BY <1>1, <1>2 DEF Calm, CoreCalm, HostShape, JobsShape, Bound

LEMMA OthersCalm ==
    ASSUME HostShape, Others, ~RestartApp
    PROVE  Calm
  <1>1. UNCHANGED <<core, jobs, listener>> \/ PeerConnects
    BY DEF Others, Connect, ConnectFails, RelayClaims, RelayAdds, PeerConnects, PeerLeaves,
           OthersAppend, OthersClaim, Break, RestartRelay, appVars, relayVars
  <1>2. UNCHANGED <<core, jobs, listener>>
    BY <1>1 DEF PeerConnects, appVars
  <1>3. \E S : relays' \in Seq(S)
    <2>1. CASE UNCHANGED relays
      BY <2>1 DEF HostShape
    <2>2. CASE \E i, log, ok : Logged(i, log, ok)
      <3>1. PICK i, log, ok : Logged(i, log, ok)
        BY <2>2
      <3> QED
        BY <3>1, LoggedShape DEF Logged
    <2>3. CASE RestartRelay
      BY <2>3, LoggedShape DEF RestartRelay
    <2> QED
      BY <2>1, <2>2, <2>3
      DEF Others, Connect, ConnectFails, RelayClaims, RelayAdds, PeerConnects, PeerLeaves,
          OthersAppend, OthersClaim, Break, relayVars
  <1> QED
    BY <1>2, <1>3 DEF Calm, HostShape, JobsShape, Bound

-----------------------------------------------------------------------------
(* Commands.                                                               *)

Starter == {"startup", "host", "restart"}

\* start_embedded_server before it binds the port, and when it fails.
LEMMA StartCalm ==
    ASSUME HostShape, NEW j \in Starter, StartReads(j) \/ StartKeeps(j) \/ StartFails(j)
    PROVE  Calm
  <1>1. UNCHANGED <<core, relays, listener>>
    BY DEF StartReads, StartKeeps, StartFails, appVars, relayVars
  <1>2. j \in Job
    BY DEF Starter, Job
  <1>3. JobsShape' /\ Bound' = Bound
    <2>1. CASE StartReads(j)
      BY <2>1, <1>2, GoesCalmly DEF StartReads, Done
    <2>2. CASE StartKeeps(j)
      BY <2>2, <1>2, GoesCalmly DEF StartKeeps
    <2>3. CASE StartFails(j)
      BY <2>3, <1>2, GoesCalmly DEF StartFails
    <2> QED
      BY <2>1, <2>2, <2>3
  <1> QED
    BY <1>1, <1>3 DEF Calm, HostShape

\* What the other commands do that neither bind, start nor stop.
LEMMA JobsCalm ==
    ASSUME HostShape, HostWorkspace \/ Restarted \/ Hosted \/ ConfigureServer
                        \/ JoinWorkspace \/ Reset \/ CreateWorkspace \/ JoinByLink
    PROVE  Calm
  <1>1. UNCHANGED <<relays, listener>>
    BY DEF HostWorkspace, Restarted, Hosted, ConfigureServer, JoinWorkspace, Reset,
           CreateWorkspace, JoinByLink, relayVars
  <1>2. CoreCalm
    <2>1. CASE UNCHANGED core
      BY <2>1 DEF CoreCalm, HostShape
    <2>2. CASE Hosted
      BY <2>2 DEF CoreCalm, HostShape, Hosted, CoreField
    <2>3. CASE JoinWorkspace \/ JoinByLink
      BY <2>3 DEF CoreCalm, HostShape, JoinWorkspace, JoinByLink, ToJoin, CoreField
    <2>4. CASE Reset
      BY <2>4 DEF CoreCalm, HostShape, Reset, CoreField
    <2>5. CASE CreateWorkspace
      BY <2>5 DEF CoreCalm, HostShape, CreateWorkspace, CoreField
    <2> QED
      BY <2>1, <2>2, <2>3, <2>4, <2>5 DEF HostWorkspace, Restarted, ConfigureServer, appVars
  <1>3. JobsShape' /\ Bound' = Bound
    <2> {"host", "restart", "join", "reset"} \subseteq Job
      BY DEF Job
    <2>1. CASE UNCHANGED jobs
      BY <2>1 DEF HostShape, JobsShape, Bound
    <2>2. CASE HostWorkspace
      BY <2>2, GoesCalmly DEF HostWorkspace, Busy
    <2>3. CASE Restarted
      BY <2>3, GoesCalmly DEF Restarted
    <2>4. CASE Hosted
      BY <2>4, GoesCalmly DEF Hosted
    <2>5. CASE ConfigureServer
      <3>1. UNCHANGED jobs \/ jobs' = Goes("join", "rest")
        BY <2>5 DEF ConfigureServer
      <3> QED
        BY <3>1, <2>1, <2>5, GoesCalmly DEF ConfigureServer, Busy
    <2>6. CASE JoinWorkspace
      BY <2>6, GoesCalmly DEF JoinWorkspace
    <2>7. CASE Reset
      BY <2>7, GoesCalmly DEF Reset
    <2> QED
      BY <2>1, <2>2, <2>3, <2>4, <2>5, <2>6, <2>7 DEF CreateWorkspace, JoinByLink
  <1> QED
    BY <1>1, <1>2, <1>3 DEF Calm, CoreCalm, HostShape

\* The port is bound by a command that finds it free: no other has it.
LEMMA PortBound ==
    ASSUME HostInv, NEW j \in Starter, StartBinds(j)
    PROVE  HostInv'
  <1>1. j \in Job /\ jobs' = Goes(j, "bound") /\ listener = 0 /\ UNCHANGED core
    BY DEF StartBinds, Starter, Job, appVars
  <1>2. PICK S : relays \in Seq(S)
    BY DEF HostInv, HostShape
  <1>3. PICK r : relays' = Append(relays, r)
    BY DEF StartBinds
  <1>4. relays' \in Seq(S \cup {r}) /\ Len(relays') # 0
    <2>1. relays \in Seq(S \cup {r})
      BY <1>2
    <2> QED
      BY <1>3, <2>1, AppendProperties, LenProperties
  <1>5. JobsShape'
    BY <1>1 DEF HostInv, HostShape, JobsShape, Goes
  <1>6. Bound = {} /\ ~core.hosting
    BY <1>1 DEF HostInv, PortHeld
  <1>7. Bound' = {j}
    <2>1. jobs'[j].step = "bound"
      BY <1>1 DEF HostInv, HostShape, JobsShape, Goes
    <2>2. ASSUME NEW k \in Job, k # j
          PROVE  jobs'[k].step # "bound"
      <3>1. jobs'[k] = jobs[k]
        BY <1>1, <2>2 DEF HostInv, HostShape, JobsShape, Goes
      <3> QED
        BY <1>6, <3>1 DEF Bound
    <2> QED
      BY <1>1, <2>1, <2>2 DEF Bound
  <1>8. listener' # 0
    BY <1>4 DEF StartBinds
  <1> QED
    BY <1>1, <1>4, <1>5, <1>6, <1>7, <1>8 DEF HostInv, HostShape, PortHeld

\* The core is told of the port by the one command that has bound it.
LEMMA PortTold ==
    ASSUME HostInv, NEW j \in Starter, Started(j)
    PROVE  HostInv'
  <1>1. /\ j \in Bound /\ jobs' = Goes(j, Done(j)) /\ Done(j) # "bound"
        /\ UNCHANGED <<relays, listener>>
    BY DEF Started, Starter, Job, Bound, Done, relayVars
  <1>2. core' = [x \in CoreField |-> core'[x]] /\ core'.hosting
    BY DEF Started, HostInv, HostShape, CoreField
  <1>3. JobsShape'
    BY <1>1 DEF HostInv, HostShape, JobsShape, Goes, Bound
  <1>4. Bound' = {}
    <2>1. \A k \in Job : jobs'[k].step # "bound"
      BY <1>1 DEF HostInv, HostShape, JobsShape, PortHeld, Goes, Bound
    <2> QED
      BY <2>1 DEF Bound
  <1>5. listener' # 0
    BY <1>1 DEF HostInv, PortHeld
  <1> QED
    BY <1>1, <1>2, <1>3, <1>4, <1>5 DEF HostInv, HostShape, PortHeld

\* A stop lets the port go if the core knows of it, and else leaves it to the
\* command that is about to tell the core.
LEMMA PortLetGo ==
    ASSUME HostInv, StopHosting \/ RestartHosting \/ ResetOnboarding
    PROVE  HostInv'
  <1>1. Stopped /\ UNCHANGED relays
    BY DEF StopHosting, RestartHosting, ResetOnboarding, Stop
  <1>2. JobsShape' /\ Bound' = Bound
    <2>1. CASE UNCHANGED jobs
      BY <2>1 DEF HostInv, HostShape, JobsShape, Bound
    <2>2. CASE RestartHosting
      BY <2>2, GoesCalmly DEF RestartHosting, Stop, Busy, HostInv, Job
    <2>3. CASE ResetOnboarding
      BY <2>3, GoesCalmly DEF ResetOnboarding, Stop, HostInv, Job
    <2> QED
      BY <2>1, <2>2, <2>3 DEF StopHosting, Stop
  <1>3. core' = [x \in CoreField |-> core'[x]] /\ ~core'.hosting
    BY <1>1 DEF Stopped, HostInv, HostShape, CoreField
  <1>4. listener' = IF core.hosting THEN 0 ELSE listener
    BY <1>1 DEF Stopped
  <1> QED
    BY <1>1, <1>2, <1>3, <1>4 DEF HostInv, HostShape, PortHeld

\* With the app its relay and all its commands end.
LEMMA PortRestart ==
    ASSUME HostInv, RestartApp
    PROVE  HostInv'
  <1>1. listener' = 0 /\ relays' = <<relays[Ext]>>
    BY DEF RestartApp
  <1>2. relays' \in Seq({relays[Ext]})
    BY <1>1
  <1>3. core' = [x \in CoreField |-> core'[x]] /\ ~core'.hosting
    BY DEF RestartApp, CoreField
  <1>4. JobsShape' /\ Bound' = {}
    BY DEF RestartApp, JobsShape, Bound
  <1> QED
    BY <1>1, <1>2, <1>3, <1>4 DEF HostInv, HostShape, PortHeld

-----------------------------------------------------------------------------
(* The invariant.                                                          *)

LEMMA PortInit == HostInit => HostInv
  <1> SUFFICES ASSUME HostInit
               PROVE  HostInv
    OBVIOUS
  <1>1. core = [x \in CoreField |-> core[x]] /\ ~core.hosting /\ listener = 0
    BY DEF HostInit, CoreField
  <1>2. JobsShape /\ Bound = {}
    BY DEF HostInit, JobsShape, Bound
  <1>3. PICK r : relays = <<r>>
    BY DEF HostInit
  <1>4. relays \in Seq({r})
    BY <1>3
  <1> QED
    BY <1>1, <1>2, <1>4 DEF HostInv, HostShape, PortHeld

LEMMA PortStep == HostInv /\ [HostNext]_hostVars => HostInv'
  <1> SUFFICES ASSUME HostInv, [HostNext]_hostVars
               PROVE  HostInv'
    OBVIOUS
  <1>1. CASE \E j \in Starter : Start(j)
    <2>1. PICK j \in Starter : Start(j)
      BY <1>1
    <2>2. CASE StartReads(j) \/ StartKeeps(j) \/ StartFails(j)
      BY <2>2, StartCalm, CalmKeeps DEF HostInv
    <2>3. CASE StartBinds(j)
      BY <2>3, PortBound
    <2>4. CASE Started(j)
      BY <2>4, PortTold
    <2> QED
      BY <2>1, <2>2, <2>3, <2>4 DEF Start
  <1>2. CASE StopHosting \/ RestartHosting \/ ResetOnboarding
    BY <1>2, PortLetGo
  <1>3. CASE HostWorkspace \/ Restarted \/ Hosted \/ ConfigureServer
               \/ JoinWorkspace \/ Reset \/ CreateWorkspace \/ JoinByLink
    BY <1>3, JobsCalm, CalmKeeps DEF HostInv
  <1>4. CASE SwitchSync \/ OpenPage \/ SavePage
    BY <1>4, SettingsCalm, CalmKeeps DEF HostInv
  <1>5. CASE Worker
    BY <1>5, WorkerCalm, CalmKeeps DEF HostInv
  <1>6. CASE Others /\ ~RestartApp
    BY <1>6, OthersCalm, CalmKeeps DEF HostInv
  <1>7. CASE RestartApp
    BY <1>7, PortRestart
  <1>8. CASE UNCHANGED hostVars
    <2>1. UNCHANGED <<core, jobs, relays, listener>>
      BY <1>8 DEF hostVars, appVars, relayVars
    <2> QED
      BY <2>1 DEF HostInv, HostShape, JobsShape, PortHeld, Bound
  <1> QED
    BY <1>1, <1>2, <1>3, <1>4, <1>5, <1>6, <1>7, <1>8 DEF HostNext, Commands, Starter

LEMMA PortInvariant == HostSpec => []HostInv
  BY PortInit, PortStep, PTL DEF HostSpec

\* The port is held exactly while the app says that it hosts, or by the command
\* about to say so: nothing holds it that cannot be stopped
\* (start_embedded_server, stop_embedded_server).
THEOREM PortFollowsHostingAlways == HostSpec => []PortFollowsHosting
  <1>1. HostInv => PortFollowsHosting
    BY DEF HostInv, PortHeld, PortFollowsHosting, Bound
  <1> QED
    BY <1>1, PortInvariant, PTL

-----------------------------------------------------------------------------
(* Types.                                                                  *)

Maybe(S) == S \cup {None}
Log == Seq(Entry)

\* What Hear takes from the connection.
Message == [type : {"welcome", "appended"}, entries : Log]

CoreType == [log : Log, key : Maybe(Entry), pending : Maybe(Pending), joining : BOOLEAN,
             hosting : BOOLEAN, connected : BOOLEAN]
SessionType == [phase : Phase, target : Maybe(Addr), pin : Maybe(Addr), relay : Nat,
                up : BOOLEAN, copy : Maybe(Pending), draft : Log, inbox : Seq(Message)]
DiskType == [settings : SetUp, key : Maybe(Entry), signing : Nat, kem : Nat, ext : Log, own : Log]

\* A session has a relay from the moment it is connected.
Linked == {"open", "hello", "greet", "online"} \cup Claiming \cup Joining

AppOK ==
    /\ settings \in SetUp
    /\ enabled \in BOOLEAN
    /\ page \in Maybe(SetUp)
    /\ core \in CoreType
    /\ permit \in BOOLEAN

SessionOK ==
    /\ session \in SessionType
    /\ session.relay \in 0 .. Len(relays)
    /\ session.phase \in Linked => session.relay # 0
    /\ session.phase \in Claiming => session.copy # None /\ session.copy.claims # None

JobsType == [Job -> [step : Step, id : Nat]]
JobsOK == jobs \in JobsType

RelaysOK ==
    /\ relays \in Seq(Relay) /\ relays # <<>>
    /\ listener \in Nat /\ listener <= Len(relays) /\ listener # Ext
    /\ peer \in Nat /\ peer <= Len(relays) /\ peer # Ext

DiskOK == disk \in DiskType

PastOK ==
    /\ used \in [Count -> Nat] /\ limit \in Limits
    /\ pinned \in Nat /\ claimed \subseteq Entry
    /\ stray \in BOOLEAN /\ twin \in BOOLEAN /\ blind \in BOOLEAN

HostTypes == AppOK /\ SessionOK /\ JobsOK /\ RelaysOK /\ DiskOK /\ PastOK

LEMMA TypesSuffice == HostTypes => HostTypeOK
  <1> SUFFICES ASSUME HostTypes
               PROVE  HostTypeOK
    OBVIOUS
  <1> USE DEF HostTypes, Maybe
  <1>1. /\ core.log \in Seq(Entry)
        /\ core.key = None \/ core.key \in Entry
        /\ core.pending = None \/ core.pending \in Pending
        /\ {core.joining, core.hosting, core.connected, permit, stray, twin, blind} \subseteq BOOLEAN
    <2>1. {core.joining, core.hosting, core.connected, permit} \subseteq BOOLEAN
      BY Zenon DEF AppOK, CoreType
    <2> QED
      BY <2>1 DEF AppOK, CoreType, PastOK, Log
  <1>2. /\ session.phase \in Phase /\ session.relay \in 0 .. Len(relays)
        /\ session.phase \in {"open", "hello", "greet", "online"} \cup Claiming \cup Joining
              => session.relay # 0
    BY DEF SessionOK, SessionType, Linked
  <1>3. \A j \in Job : jobs[j].step \in Step /\ jobs[j].id \in Nat
    BY DEF JobsOK, JobsType
  <1>4. {listener, peer} \subseteq 0 .. Len(relays) \ {Ext}
    BY LenProperties DEF RelaysOK
  <1> QED
    BY <1>1, <1>2, <1>3, <1>4 DEF HostTypeOK, AppOK, RelaysOK, DiskOK, DiskType, PastOK

\* A session that is over, or has not begun.
LEMMA IdleSession ==
    ASSUME NEW s \in {"loop", "wait", "dial", "down"}
    PROVE  /\ NoSession \in SessionType /\ NoSession.relay = 0 /\ NoSession.phase = "down"
           /\ [NoSession EXCEPT !.phase = s] \in SessionType
           /\ [NoSession EXCEPT !.phase = s].relay = 0
           /\ [NoSession EXCEPT !.phase = s].phase = s
  <1>1. <<>> \in Log /\ <<>> \in Seq(Message) /\ s \in Phase /\ "down" \in Phase
    BY DEF Log, Phase
  <1> QED
    BY <1>1 DEF NoSession, SessionType, Maybe

LEMMA TypesInit == HostInit => HostTypes
  <1> SUFFICES ASSUME HostInit
               PROVE  HostTypes
    OBVIOUS
  <1> USE DEF HostInit, Maybe
  <1>1. AppOK
    <2>1. settings \in SetUp
      BY DEF SetUp
    <2>2. core \in CoreType
      <3>1. <<>> \in Log
        BY DEF Log
      <3> QED
        BY <3>1 DEF CoreType
    <2> QED
      BY <2>1, <2>2 DEF AppOK
  <1>2. relays \in Seq(Relay) /\ Len(relays) = 1 /\ relays[Ext].log \in Log
    <2> DEFINE l == IF limit.taken THEN <<First>> ELSE <<>>
               r == [log |-> l, token |-> SetupToken, fp |-> 0]
    <2>1. l \in Log
      <3>1. First \in Entry
        BY DEF First, Entry
      <3> QED
        BY <3>1 DEF Log
    <2>2. r \in Relay
      BY <2>1 DEF Relay, Log, SetupToken
    <2>3. relays = <<r>>
      BY Zenon
    <2> HIDE DEF l
    <2> QED
      BY <2>1, <2>2, <2>3 DEF Ext
  <1>3. SessionOK
    <2>1. session = [NoSession EXCEPT !.phase = "loop"]
      OBVIOUS
    <2>2. session \in SessionType /\ session.relay = 0 /\ session.phase = "loop"
      BY <2>1, IdleSession
    <2> QED
      BY <1>2, <2>2 DEF SessionOK, Linked, Claiming, Joining
  <1>4. JobsOK
    BY DEF JobsOK, JobsType, Step
  <1>5. RelaysOK
    BY <1>2 DEF RelaysOK, Ext
  <1>6. DiskOK
    <2>1. settings \in SetUp /\ relays[Ext].log \in Log /\ <<>> \in Log
      BY <1>2 DEF SetUp, Log
    <2> QED
      BY <2>1 DEF DiskOK, DiskType
  <1>7. PastOK
    BY DEF PastOK
  <1> QED
    BY <1>1, <1>3, <1>4, <1>5, <1>6, <1>7 DEF HostTypes

\* What is used stays a count of each bound, and no failed write is forgotten.
LEMMA Spent ==
    ASSUME PastOK, NEW C, Spend(C)
    PROVE  used' \in [Count -> Nat] /\ \A c \in Count : used'[c] >= used[c]
  BY DEF PastOK, Spend

LEMMA SavedOK ==
    ASSUME DiskOK, NEW s \in SetUp, NEW ok \in BOOLEAN
    PROVE  Saved(s, ok) \in DiskType
  BY DEF DiskOK, DiskType, Saved

LEMMA LoggedOK ==
    ASSUME HostTypes, NEW i \in 1 .. Len(relays), NEW log \in Log, NEW ok \in BOOLEAN,
           Logged(i, log, ok)
    PROVE  /\ relays' \in Seq(Relay) /\ Len(relays') = Len(relays)
           /\ DiskOK'
  <1>1. relays' = [relays EXCEPT ![i] = [relays[i] EXCEPT !.log = log]]
    BY DEF Logged
  <1>2. relays[i] \in Relay
    BY DEF HostTypes, RelaysOK
  <1>3. [relays[i] EXCEPT !.log = log] \in Relay
    BY <1>2 DEF Relay, Log
  <1>4. relays' \in Seq(Relay) /\ Len(relays') = Len(relays)
    BY <1>1, <1>3, ExceptSeq DEF HostTypes, RelaysOK
  <1>5. PICK written \in IF ok THEN {log} ELSE {disk[At(i)], <<>>} :
             disk' = [disk EXCEPT ![At(i)] = written]
    BY DEF Logged
  <1>6. written \in Log
    <2>1. disk.ext \in Log /\ disk.own \in Log /\ <<>> \in Log
      BY DEF HostTypes, DiskOK, DiskType, Log
    <2> QED
      BY <1>5, <2>1 DEF At
  <1>7. DiskOK'
    BY <1>5, <1>6 DEF At, HostTypes, DiskOK, DiskType
  <1> QED
    BY <1>4, <1>7

LEMMA UsedOK ==
    ASSUME PastOK, NEW C, Spend(C) \/ UNCHANGED used
    PROVE  used' \in [Count -> Nat]
  BY Spent DEF PastOK

LEMMA GoesOK ==
    ASSUME JobsOK, NEW j \in Job, NEW s \in Step
    PROVE  /\ Goes(j, s) \in JobsType
           /\ \A n \in Nat : [jobs EXCEPT ![j] = [step |-> s, id |-> n]] \in JobsType
  BY DEF JobsOK, JobsType, Goes

\* The commands that start the embedded relay.
LEMMA TypesStart ==
    ASSUME HostTypes, NEW j \in Starter, Start(j)
    PROVE  HostTypes'
  <1> USE DEF HostTypes
  <1>1. j \in Job /\ Done(j) \in Step /\ {"idle", "bind", "bound", "signing"} \subseteq Step
    BY DEF Starter, Job, Done, Step
  <1>2. CASE StartReads(j)
    <2>1. UNCHANGED <<appVars, session, relayVars, used, limit, past>>
      BY <1>2 DEF StartReads
    <2>2. disk.signing \in Nat /\ disk.signing + 1 \in Nat
      BY DEF DiskOK, DiskType
    <2>3. JobsOK'
      <3>1. \/ jobs' = Goes(j, Done(j))
            \/ jobs' = [jobs EXCEPT ![j] = [step |-> "bind", id |-> disk.signing]]
            \/ jobs' = [jobs EXCEPT ![j] = [step |-> "signing", id |-> disk.signing + 1]]
        BY <1>2 DEF StartReads
      <3>2. jobs' \in JobsType
        BY <1>1, <2>2, <3>1, GoesOK
      <3> QED
        BY <3>2 DEF JobsOK
    <2>4. DiskOK'
      BY <1>2, <2>2 DEF StartReads, DiskOK, DiskType
    <2> QED
      BY <2>1, <2>3, <2>4 DEF AppOK, SessionOK, RelaysOK, PastOK, appVars, relayVars, past
  <1>3. CASE StartKeeps(j)
    <2>1. UNCHANGED <<appVars, session, relayVars, limit, past>>
      BY <1>3 DEF StartKeeps
    <2>2. PICK ok \in BOOLEAN : /\ Spend(File(ok))
                              /\ jobs' = Goes(j, IF ok THEN "bind" ELSE "idle")
                              /\ disk' = [disk EXCEPT !.kem = IF ok THEN jobs[j].id ELSE @]
      BY <1>3 DEF StartKeeps
    <2>3. JobsOK'
      BY <1>1, <2>2, GoesOK DEF JobsOK
    <2>4. DiskOK'
      <3>1. jobs[j].id \in Nat
        BY <1>1 DEF JobsOK, JobsType
      <3> QED
        BY <2>2, <3>1 DEF DiskOK, DiskType
    <2>5. used' \in [Count -> Nat]
      BY <2>2, UsedOK
    <2> QED
      BY <2>1, <2>3, <2>4, <2>5 DEF AppOK, SessionOK, RelaysOK, PastOK, appVars, relayVars, past
  <1>4. CASE StartBinds(j)
    <2>1. UNCHANGED <<appVars, session, peer, disk, used, limit, past>>
      BY <1>4 DEF StartBinds
    <2>2. JobsOK'
      BY <1>1, <1>4, GoesOK DEF StartBinds, JobsOK
    <2> DEFINE r == [log |-> disk.own, fp |-> jobs[j].id,
                     token |-> IF j = "host" THEN used.host + SetupToken ELSE 0]
    <2>3. r \in Relay
      <3>1. jobs[j].id \in Nat /\ disk.own \in Log
        BY <1>1 DEF JobsOK, JobsType, DiskOK, DiskType
      <3>2. used.host + SetupToken \in Nat
        BY DEF PastOK, Count, SetupToken
      <3> QED
        BY <3>1, <3>2 DEF Relay, Log
    <2>4. relays' = Append(relays, r)
      BY <1>4 DEF StartBinds
    <2>5. /\ relays' \in Seq(Relay) /\ relays' # <<>> /\ Len(relays') = Len(relays) + 1
          /\ Len(relays) \in Nat /\ Len(relays) # 0
      <3> HIDE DEF r
      <3> QED
        BY <2>3, <2>4, AppendProperties, EmptySeq, LenProperties DEF RelaysOK
    <2>6. RelaysOK'
      BY <1>4, <2>1, <2>5 DEF StartBinds, RelaysOK, Ext
    <2>7. SessionOK'
      BY <2>1, <2>5 DEF SessionOK
    <2> QED
      BY <2>1, <2>2, <2>6, <2>7 DEF AppOK, DiskOK, PastOK, appVars, past
  <1>5. CASE StartFails(j)
    <2>1. UNCHANGED <<appVars, session, relayVars, disk, limit, past>>
      BY <1>5 DEF StartFails
    <2>2. JobsOK'
      BY <1>1, <1>5, GoesOK DEF StartFails, JobsOK
    <2>3. used' \in [Count -> Nat]
      BY <1>5, UsedOK DEF StartFails
    <2> QED
      BY <2>1, <2>2, <2>3 DEF AppOK, SessionOK, RelaysOK, DiskOK, PastOK, appVars, relayVars, past
  <1>6. CASE Started(j)
    <2>1. UNCHANGED <<enabled, page, permit, session, relayVars, limit, past>>
      BY <1>6 DEF Started
    <2>2. settings' \in SetUp /\ core' \in CoreType
      BY <1>6 DEF Started, AppOK, SetUp, Addr, CoreType
    <2>3. PICK ok \in BOOLEAN : Spend(File(ok)) /\ disk' = Saved(settings', ok)
      BY <1>6 DEF Started
    <2>4. DiskOK' /\ used' \in [Count -> Nat]
      BY <2>2, <2>3, SavedOK, UsedOK DEF DiskOK
    <2>5. JobsOK'
      BY <1>1, <1>6, GoesOK DEF Started, JobsOK
    <2> QED
      BY <2>1, <2>2, <2>4, <2>5 DEF AppOK, SessionOK, RelaysOK, PastOK, relayVars, past
  <1> QED
    BY <1>2, <1>3, <1>4, <1>5, <1>6 DEF Start

\* Stopping it, by one of three commands.
LEMMA TypesStop ==
    ASSUME HostTypes, StopHosting \/ RestartHosting \/ ResetOnboarding
    PROVE  HostTypes'
  <1> USE DEF HostTypes
  <1>1. /\ Stopped /\ settings' = [settings EXCEPT !.host = FALSE]
        /\ \E ok \in BOOLEAN : \E C : Spend(C) /\ disk' = Saved(settings', ok)
        /\ UNCHANGED <<enabled, page, permit, session, relays, peer, limit, past>>
    BY DEF StopHosting, RestartHosting, ResetOnboarding, Stop
  <1>2. settings' \in SetUp /\ core' \in CoreType /\ listener' \in {0, listener}
    BY <1>1 DEF Stopped, AppOK, SetUp, CoreType
  <1>3. DiskOK' /\ used' \in [Count -> Nat]
    BY <1>1, <1>2, SavedOK, UsedOK DEF DiskOK
  <1>4. jobs' = jobs \/ jobs' = Goes("restart", "asked") \/ jobs' = Goes("reset", "rest")
    BY DEF StopHosting, RestartHosting, ResetOnboarding, Stop
  <1>5. JobsOK'
    <2>1. {"restart", "reset"} \subseteq Job /\ {"asked", "rest"} \subseteq Step
      BY DEF Job, Step
    <2>2. jobs' = jobs \/ jobs' \in JobsType
      BY <1>4, <2>1, GoesOK
    <2> QED
      BY <2>2 DEF JobsOK
  <1>6. RelaysOK'
    BY <1>1, <1>2, LenProperties DEF RelaysOK, Ext
  <1> QED
    BY <1>1, <1>2, <1>3, <1>5, <1>6 DEF AppOK, SessionOK, PastOK, past

\* The other commands.
LEMMA MineOK == ASSUME NEW k \in {"create", "add"}, NEW n \in Nat PROVE Mine(k, n) \in Entry
  BY DEF Mine, Entry

LEMMA AskedOK == PastOK => Asked \in Nat
  <1>1. ASSUME PastOK
        PROVE  {used.host, used.create, used.join, used.link} \subseteq Nat
    BY <1>1 DEF PastOK, Count
  <1> QED
    BY <1>1 DEF Asked

\* A workspace of its own, by a command that lets the worker claim it.
LEMMA MadeOK ==
    ASSUME AppOK, NEW ws \in Entry, NEW t \in Nat
    PROVE  /\ [core EXCEPT !.log = <<ws>>, !.key = ws,
                           !.pending = [claims |-> ws, token |-> t]] \in CoreType
           /\ [core EXCEPT !.log = <<ws>>, !.key = ws, !.joining = TRUE,
                           !.pending = [claims |-> ws, token |-> t]] \in CoreType
  <1>1. <<ws>> \in Log /\ [claims |-> ws, token |-> t] \in Maybe(Pending) /\ ws \in Maybe(Entry)
    BY DEF Log, Pending, Maybe
  <1> QED
    BY <1>1 DEF AppOK, CoreType

LEMMA ToJoinOK == AppOK => ToJoin \in CoreType
  <1>1. [claims |-> None, token |-> 0] \in Maybe(Pending)
    BY DEF Pending, Maybe
  <1> QED
    BY <1>1 DEF AppOK, CoreType, ToJoin

LEMMA TypesCommand ==
    ASSUME HostTypes, HostWorkspace \/ Restarted \/ Hosted \/ ConfigureServer
                         \/ JoinWorkspace \/ Reset \/ CreateWorkspace \/ JoinByLink
                         \/ SwitchSync \/ OpenPage \/ SavePage
    PROVE  HostTypes'
  <1> USE DEF HostTypes
  <1>1. UNCHANGED <<session, relayVars, limit>>
    BY DEF HostWorkspace, Restarted, Hosted, ConfigureServer, JoinWorkspace, Reset,
           CreateWorkspace, JoinByLink, SwitchSync, OpenPage, SavePage
  <1>2. used' \in [Count -> Nat]
    <2>1. \E C : Spend(C) \/ UNCHANGED used
      BY DEF HostWorkspace, Restarted, Hosted, ConfigureServer, JoinWorkspace, Reset,
             CreateWorkspace, JoinByLink, SwitchSync, OpenPage, SavePage
    <2> QED
      BY <2>1, UsedOK
  <1>3. /\ stray' \in BOOLEAN /\ twin' \in BOOLEAN /\ blind' \in BOOLEAN
        /\ UNCHANGED <<pinned, claimed>>
    BY Zenon DEF HostWorkspace, Restarted, Hosted, ConfigureServer, JoinWorkspace, Reset,
           CreateWorkspace, JoinByLink, SwitchSync, OpenPage, SavePage, past, PastOK
  <1>4. JobsOK'
    <2>1. \/ jobs' = jobs
          \/ \E j \in {"host", "restart", "join", "reset"}, s \in {"idle", "asked", "rest"} :
                jobs' = Goes(j, s)
      BY DEF HostWorkspace, Restarted, Hosted, ConfigureServer, JoinWorkspace, Reset,
             CreateWorkspace, JoinByLink, SwitchSync, OpenPage, SavePage
    <2>2. {"host", "restart", "join", "reset"} \subseteq Job /\ {"idle", "asked", "rest"} \subseteq Step
      BY DEF Job, Step
    <2>3. jobs' = jobs \/ jobs' \in JobsType
      BY <2>1, <2>2, GoesOK
    <2> QED
      BY <2>3 DEF JobsOK
  <1>5. settings' \in SetUp
    BY DEF HostWorkspace, Restarted, Hosted, ConfigureServer, JoinWorkspace, Reset,
           CreateWorkspace, JoinByLink, SwitchSync, OpenPage, SavePage, AppOK, SetUp, Addr, Merge,
           Maybe, appVars
  <1>6. AppOK'
    <2>1. enabled' \in BOOLEAN /\ page' \in Maybe(SetUp) /\ permit' \in BOOLEAN
      <3>1. SwitchSync => enabled' \in BOOLEAN
        BY <1>5 DEF SwitchSync, SetUp
      <3>2. SavePage => enabled' \in BOOLEAN
        BY <1>5 DEF SavePage, SetUp
      <3>3. permit' \in BOOLEAN
        BY Zenon DEF HostWorkspace, Restarted, Hosted, ConfigureServer, JoinWorkspace, Reset,
           CreateWorkspace, JoinByLink, SwitchSync, OpenPage, SavePage, appVars, AppOK
      <3>4. page' \in Maybe(SetUp) /\ (~SwitchSync /\ ~SavePage => enabled' \in BOOLEAN)
        BY DEF HostWorkspace, Restarted, Hosted, ConfigureServer, JoinWorkspace, Reset,
           CreateWorkspace, JoinByLink, SwitchSync, OpenPage, SavePage, appVars, AppOK, Maybe
      <3> QED
        BY <3>1, <3>2, <3>3, <3>4
    <2>2. core' \in CoreType
      <3>1. used.host + SetupToken \in Nat /\ {SetupToken, 0} \subseteq Nat
        BY DEF PastOK, Count, SetupToken
      <3>2. Mine("create", Asked) \in Entry /\ Mine("create", Asked + 1) \in Entry
        BY AskedOK, MineOK
      <3>3. CASE UNCHANGED core
        BY <3>3 DEF AppOK
      <3>4. CASE Hosted
        <4> DEFINE ws == Mine("create", Asked)
        <4>1. core' = [core EXCEPT !.log = <<ws>>, !.key = ws,
                                   !.pending = [claims |-> ws, token |-> used.host + SetupToken]]
                 \/ UNCHANGED core
          BY <3>4 DEF Hosted
        <4> HIDE DEF ws
        <4>2. ws \in Entry
          BY <3>2 DEF ws
        <4> QED
          BY <3>1, <3>3, <4>1, <4>2, MadeOK
      <3>5. CASE CreateWorkspace
        <4> DEFINE ws == Mine("create", Asked + 1)
        <4>1. PICK token \in {SetupToken, 0} :
                 core' = [core EXCEPT !.log = <<ws>>, !.key = ws, !.joining = TRUE,
                                      !.pending = [claims |-> ws, token |-> token]]
          BY <3>5 DEF CreateWorkspace
        <4> HIDE DEF ws
        <4>2. ws \in Entry
          BY <3>2 DEF ws
        <4> QED
          BY <3>1, <4>1, <4>2, MadeOK
      <3>6. CASE JoinWorkspace \/ JoinByLink
        BY <3>6, ToJoinOK DEF JoinWorkspace, JoinByLink
      <3>7. CASE Reset
        BY <3>7 DEF Reset, AppOK, CoreType, Maybe
      <3> QED
        BY <3>3, <3>4, <3>5, <3>6, <3>7
        DEF HostWorkspace, Restarted, ConfigureServer, SwitchSync, OpenPage, SavePage, appVars
    <2> QED
      BY <1>5, <2>1, <2>2 DEF AppOK
  <1>7. DiskOK'
    <2>1. CASE UNCHANGED disk
      BY <2>1 DEF DiskOK
    <2>2. CASE \E ok \in BOOLEAN, s \in {settings, settings'} : disk' = Saved(s, ok)
      BY <1>5, <2>2, SavedOK DEF AppOK, DiskOK
    <2>3. CASE \E ok \in BOOLEAN, s \in {settings, settings'}, n \in {Asked, Asked + 1} :
                  disk' = [Saved(s, ok) EXCEPT !.key = Mine("create", n)]
      <3>1. PICK ok \in BOOLEAN, s \in {settings, settings'}, n \in {Asked, Asked + 1} :
                  disk' = [Saved(s, ok) EXCEPT !.key = Mine("create", n)]
        BY <2>3
      <3>2. Saved(s, ok) \in DiskType
        BY <1>5, SavedOK DEF AppOK
      <3>3. Mine("create", n) \in Maybe(Entry)
        BY AskedOK, MineOK DEF Maybe
      <3> QED
        BY <3>1, <3>2, <3>3 DEF DiskOK, DiskType
    <2> QED
      BY <2>1, <2>2, <2>3
      DEF HostWorkspace, Restarted, Hosted, ConfigureServer, JoinWorkspace, Reset,
          CreateWorkspace, JoinByLink, SwitchSync, OpenPage, SavePage
  <1> QED
    BY <1>1, <1>2, <1>3, <1>4, <1>6, <1>7 DEF SessionOK, RelaysOK, PastOK, relayVars

\* The worker.
LEMMA TypesWorker ==
    ASSUME HostTypes, Worker
    PROVE  HostTypes'
  <1> USE DEF HostTypes
  <1>1. UNCHANGED <<enabled, page, jobs, relayVars, limit, pinned, claimed, twin, blind>>
    BY DEF Worker, Turn, Woken, Again, TakePending, ClaimFails, ClaimAcked, GuestGetsLog,
           GuestFails, GuestJoined, SayHello, Greet, Hear, EndSession, FailOnboarding, appVars, past
  <1>2. CASE Turn
    <2>1. UNCHANGED <<appVars, disk, used, past>>
      BY <1>2 DEF Turn
    <2>2. settings.addr \in Maybe(Addr) /\ settings.fp \in Maybe(Addr)
      BY DEF AppOK, SetUp, Maybe
    <2>3. SessionOK'
      <3>1. PICK s \in {"wait", "dial"} :
               session' = [NoSession EXCEPT !.phase = s, !.target = settings.addr,
                                            !.pin = settings.fp]
        BY <1>2 DEF Turn
      <3>2. [NoSession EXCEPT !.phase = s] \in SessionType
        BY IdleSession
      <3>3. session' = [[NoSession EXCEPT !.phase = s] EXCEPT !.target = settings.addr,
                                                              !.pin = settings.fp]
        BY <3>1 DEF NoSession
      <3>4. [NoSession EXCEPT !.phase = s].relay = 0 /\ [NoSession EXCEPT !.phase = s].phase = s
        BY IdleSession
      <3>5. session' \in SessionType /\ session'.relay = 0 /\ session'.phase = s
        BY <2>2, <3>2, <3>3, <3>4 DEF SessionType
      <3> QED
        BY <1>1, <3>5, LenProperties DEF SessionOK, RelaysOK, Linked, Claiming, Joining, relayVars
    <2> QED
      BY <1>1, <2>1, <2>3 DEF AppOK, JobsOK, RelaysOK, DiskOK, PastOK, appVars, relayVars, past
  <1>3. CASE Woken
    <2>1. UNCHANGED <<settings, core, disk, used, past>> /\ permit' \in BOOLEAN
      BY <1>3 DEF Woken
    <2>2. SessionOK'
      BY <1>1, <1>3
      DEF Woken, SessionOK, SessionType, Phase, Linked, Claiming, Joining, relayVars
    <2> QED
      BY <1>1, <2>1, <2>2 DEF AppOK, JobsOK, RelaysOK, DiskOK, PastOK, relayVars, past
  <1>4. CASE Again
    <2>1. UNCHANGED <<settings, core, disk, used, past>>
      BY <1>4 DEF Again
    <2>2. permit' \in BOOLEAN
      BY <1>4 DEF Again, AppOK
    <2>3. SessionOK'
      <3>1. session' = [NoSession EXCEPT !.phase = "loop"]
        BY <1>4 DEF Again
      <3>2. session' \in SessionType /\ session'.relay = 0 /\ session'.phase = "loop"
        BY <3>1, IdleSession
      <3> QED
        BY <1>1, <3>2, LenProperties DEF SessionOK, RelaysOK, Linked, Claiming, Joining, relayVars
    <2> QED
      BY <1>1, <2>1, <2>2, <2>3 DEF AppOK, JobsOK, RelaysOK, DiskOK, PastOK, relayVars, past
  <1>5. CASE TakePending
    <2>1. UNCHANGED <<appVars, disk, used, past>>
      BY <1>5 DEF TakePending
    <2>2. SessionOK'
      <3>1. core.pending \in Maybe(Pending)
        BY DEF AppOK, CoreType
      <3>2. /\ session' = [session EXCEPT !.copy = core.pending, !.phase = session'.phase]
            /\ session.phase = "open"
            /\ session'.phase = IF core.pending = None THEN "hello"
                                ELSE IF core.pending.claims = None THEN "fetch" ELSE "claim"
        BY <1>5 DEF TakePending, SessionOK, SessionType
      <3> QED
        BY <1>1, <3>1, <3>2
        DEF SessionOK, SessionType, Phase, Linked, Claiming, Joining, relayVars
    <2> QED
      BY <1>1, <2>1, <2>2 DEF AppOK, JobsOK, RelaysOK, DiskOK, PastOK, appVars, relayVars, past
  <1>6. CASE \E drop \in BOOLEAN : FailOnboarding(drop)
    <2>1. PICK drop \in BOOLEAN : FailOnboarding(drop)
      BY <1>6
    <2>2. UNCHANGED permit /\ stray' \in BOOLEAN
      BY Zenon, <2>1 DEF FailOnboarding, Fail, PastOK
    <2>3. settings' \in SetUp
      BY <2>1 DEF FailOnboarding, Fail, AppOK, SetUp
    <2>4. core' \in CoreType
      <3>1. PICK l \in {core.log, <<>>}, k \in {core.key, None} :
               core' = [core EXCEPT !.pending = None, !.joining = FALSE, !.connected = FALSE,
                                    !.log = l, !.key = k]
        BY <2>1 DEF FailOnboarding, Fail
      <3>2. <<>> \in Log /\ core.log \in Log /\ core.key \in Maybe(Entry)
        BY DEF Log, AppOK, CoreType
      <3>3. l \in Log /\ k \in Maybe(Entry)
        BY <3>2 DEF Maybe
      <3> QED
        BY <3>1, <3>3 DEF AppOK, CoreType, Maybe
    <2>5. PICK ok \in BOOLEAN : Spend(File(ok)) /\ disk' = Saved(settings', ok)
      BY <2>1 DEF FailOnboarding
    <2>6. DiskOK' /\ used' \in [Count -> Nat]
      BY <2>3, <2>5, SavedOK, UsedOK DEF DiskOK
    <2>7. SessionOK'
      <3>1. session' \in SessionType /\ session'.relay = 0 /\ session'.phase = "down"
        BY <2>1, IdleSession DEF FailOnboarding, Fail, Maybe
      <3> QED
        BY <1>1, <3>1, LenProperties DEF SessionOK, RelaysOK, Linked, Claiming, Joining, relayVars
    <2> QED
      BY <1>1, <2>2, <2>3, <2>4, <2>6, <2>7 DEF AppOK, JobsOK, RelaysOK, PastOK, relayVars
  <1>7. CASE ClaimAcked \/ Greet
    <2>1. UNCHANGED <<settings, permit, disk, used>>
      BY <1>7 DEF ClaimAcked, Greet
    <2>2. stray' \in BOOLEAN
      BY Zenon, <1>7 DEF ClaimAcked, Greet, PastOK
    <2>3. core' \in CoreType
      BY <1>7 DEF ClaimAcked, Greet, AppOK, CoreType, Maybe
    <2>4. SessionOK'
      BY <1>1, <1>7 DEF ClaimAcked, Greet, SessionOK, SessionType, Phase, Linked, Claiming, Joining, relayVars
    <2> QED
      BY <1>1, <2>1, <2>2, <2>3, <2>4 DEF AppOK, JobsOK, RelaysOK, DiskOK, PastOK, relayVars
  <1>8. CASE GuestGetsLog
    <2>1. UNCHANGED <<appVars, disk, used, past>>
      BY <1>8 DEF GuestGetsLog
    <2>2. relays[Ext].log \in Log
      <3>1. relays[Ext] \in Relay
        BY LenProperties, EmptySeq, ElementOfSeq DEF RelaysOK, Ext
      <3> QED
        BY <3>1 DEF Relay, Log
    <2>3. SessionOK'
      BY <1>1, <1>8, <2>2 DEF GuestGetsLog, SessionOK, SessionType, Phase, Linked, Claiming, Joining, relayVars
    <2> QED
      BY <1>1, <2>1, <2>3 DEF AppOK, JobsOK, RelaysOK, DiskOK, PastOK, appVars, relayVars, past
  <1>9. CASE GuestJoined
    <2>1. UNCHANGED <<permit, disk, used, past>> /\ settings' \in SetUp
      BY <1>9 DEF GuestJoined, AppOK, SetUp, Addr
    <2>2. core' \in CoreType
      <3>1. session.draft \in Seq(Entry) /\ Mine("add", Asked) \in Entry
        BY MineOK, AskedOK DEF SessionOK, SessionType, Log
      <3>2. Append(session.draft, Mine("add", Asked)) \in Log
        BY <3>1, AppendProperties DEF Log
      <3> QED
        BY <1>9, <3>2 DEF GuestJoined, AppOK, CoreType
    <2>3. SessionOK'
      BY <1>1, <1>9 DEF GuestJoined, SessionOK, SessionType, Phase, Linked, Claiming, Joining, relayVars
    <2> QED
      BY <1>1, <2>1, <2>2, <2>3 DEF AppOK, JobsOK, RelaysOK, DiskOK, PastOK, relayVars, past
  <1>10. CASE SayHello
    <2>1. UNCHANGED <<appVars, disk, used, past>>
      BY <1>10 DEF SayHello
    <2> DEFINE log == relays[session.relay].log
               tail == SubSeq(log, Len(core.log) + 1, Len(log))
    <2>2. log \in Seq(Entry) /\ Len(core.log) \in Nat
      <3>1. session.relay \in 1 .. Len(relays)
        BY <1>10, LenProperties DEF SayHello, SessionOK, RelaysOK, Linked
      <3>2. relays[session.relay] \in Relay
        BY <3>1, ElementOfSeq DEF RelaysOK
      <3> QED
        BY <3>2, LenProperties DEF Relay, AppOK, CoreType, Log
    <2>3. tail \in Log
      <3> HIDE DEF log
      <3>1. \A i \in Len(core.log) + 1 .. Len(log) : log[i] \in Entry
        BY <2>2
      <3> QED
        BY <2>2, <3>1, LenProperties, SubSeqProperties DEF Log
    <2>4. \/ session' = [session EXCEPT !.phase = "greet"]
          \/ session' = [session EXCEPT !.phase = "greet",
                            !.inbox = Append(@, [type |-> "welcome", entries |-> tail])]
      BY <1>10 DEF SayHello, SessionOK, SessionType
    <2>5. Append(session.inbox, [type |-> "welcome", entries |-> tail]) \in Seq(Message)
      <3> HIDE DEF tail
      <3> QED
        BY <2>3, AppendProperties DEF Message, SessionOK, SessionType
    <2>6. SessionOK'
      <3> HIDE DEF tail
      <3> QED
        BY <1>1, <1>10, <2>4, <2>5
        DEF SayHello, SessionOK, SessionType, Phase, Linked, Claiming, Joining, relayVars
    <2> QED
      BY <1>1, <2>1, <2>6 DEF AppOK, JobsOK, RelaysOK, DiskOK, PastOK, appVars, relayVars, past
  <1>11. CASE Hear
    <2>1. UNCHANGED <<settings, permit, disk, used, past>>
      BY <1>11 DEF Hear
    <2>2. Tail(session.inbox) \in Seq(Message) /\ Head(session.inbox) \in Message
      BY <1>11, HeadTailProperties DEF Hear, SessionOK, SessionType
    <2>3. core' \in CoreType
      <3>1. PICK l \in {core.log, Head(session.inbox).entries,
                        core.log \o Head(session.inbox).entries} :
               core' = [core EXCEPT !.log = l]
        BY <1>11 DEF Hear
      <3>2. core.log \in Seq(Entry) /\ Head(session.inbox).entries \in Seq(Entry)
        BY <2>2 DEF Message, AppOK, CoreType, Log
      <3>3. l \in Log
        BY <3>2, ConcatProperties DEF Log
      <3> QED
        BY <3>1, <3>3 DEF AppOK, CoreType
    <2>4. SessionOK'
      BY <1>1, <1>11, <2>2 DEF Hear, SessionOK, SessionType, Phase, Linked, Claiming, Joining, relayVars
    <2> QED
      BY <1>1, <2>1, <2>3, <2>4 DEF AppOK, JobsOK, RelaysOK, DiskOK, PastOK, relayVars, past
  <1>12. CASE EndSession
    <2>1. UNCHANGED <<settings, disk, used, past>>
      BY <1>12 DEF EndSession
    <2>2. permit' \in BOOLEAN
      BY <1>12 DEF EndSession, AppOK
    <2>3. core' \in CoreType
      BY <1>12 DEF EndSession, AppOK, CoreType
    <2>4. SessionOK'
      <3>1. session' \in SessionType /\ session'.relay = 0 /\ session'.phase = "down"
        BY <1>12, IdleSession DEF EndSession, Maybe
      <3> QED
        BY <1>1, <3>1, LenProperties DEF SessionOK, RelaysOK, Linked, Claiming, Joining, relayVars
    <2> QED
      BY <1>1, <2>1, <2>2, <2>3, <2>4 DEF AppOK, JobsOK, RelaysOK, DiskOK, PastOK, relayVars, past
  <1> QED
    BY <1>2, <1>3, <1>4, <1>5, <1>6, <1>7, <1>8, <1>9, <1>10, <1>11, <1>12
    DEF Worker, ClaimFails, GuestFails

\* An entry of another device at the end of a log.
LEMMA GrowsOK ==
    ASSUME HostTypes, NEW i \in 1 .. Len(relays), NEW e \in Entry
    PROVE  relays[i].log \in Log /\ Append(relays[i].log, e) \in Log
  <1>1. relays[i] \in Relay
    BY ElementOfSeq DEF HostTypes, RelaysOK
  <1>2. relays[i].log \in Seq(Entry)
    BY <1>1 DEF Relay
  <1> QED
    BY <1>2, AppendProperties DEF Log

\* The relays and the other devices.
LEMMA TypesOthers ==
    ASSUME HostTypes, Others, ~RestartApp
    PROVE  HostTypes'
  <1> USE DEF HostTypes
  <1>1. UNCHANGED <<settings, enabled, page, core, permit, jobs, limit, stray, blind>>
    BY DEF Others, Connect, ConnectFails, RelayClaims, RelayAdds, PeerConnects, PeerLeaves,
           OthersAppend, OthersClaim, Break, RestartRelay, appVars, past
  <1>2. 1 \in 1 .. Len(relays) /\ Len(relays) \in Nat
    BY EmptySeq, LenProperties DEF RelaysOK
  <1>3. CASE Connect \/ ConnectFails
    <2>1. UNCHANGED <<relayVars, disk, used, past>>
      BY <1>3 DEF Connect, ConnectFails
    <2>2. SessionOK'
      <3>1. CASE Connect
        <4>1. Answers(session.target) \in 1 .. Len(relays)
          BY <1>2, <3>1 DEF Connect, Answers, RelaysOK, Ext
        <4>2. session' \in SessionType /\ session'.relay = Answers(session.target)
              /\ session'.phase = "open"
          <5> DEFINE r == Answers(session.target)
          <5>1. r \in Nat /\ session \in SessionType /\ "open" \in Phase
            BY <1>2, <4>1 DEF SessionOK, Phase
          <5>2. session' = [session EXCEPT !.phase = "open", !.relay = r, !.up = TRUE]
            BY <3>1 DEF Connect
          <5> HIDE DEF r
          <5>3. session' \in SessionType /\ session'.relay = r /\ session'.phase = "open"
            BY <5>1, <5>2 DEF SessionType
          <5> QED
            BY <5>3 DEF r
        <4> QED
          BY <1>2, <2>1, <4>1, <4>2 DEF SessionOK, Claiming, relayVars
      <3>2. CASE ConnectFails
        <4>1. session' \in SessionType /\ session'.relay = 0 /\ session'.phase = "down"
          BY <3>2, IdleSession DEF ConnectFails
        <4> QED
          BY <1>2, <2>1, <4>1 DEF SessionOK, Linked, Claiming, Joining, relayVars
      <3> QED
        BY <1>3, <3>1, <3>2
    <2> QED
      BY <1>1, <2>1, <2>2 DEF AppOK, JobsOK, RelaysOK, DiskOK, PastOK, relayVars, past
  <1>4. ASSUME \E i \in 1 .. Len(relays), log \in Log, ok \in BOOLEAN : \E C :
                  Logged(i, log, ok) /\ Spend(C),
               UNCHANGED <<listener, peer>>, Len(relays') = Len(relays) => SessionOK',
               pinned' \in Nat, claimed' \subseteq Entry,
               twin' \in BOOLEAN
        PROVE  HostTypes'
    <2>1. PICK i \in 1 .. Len(relays), log \in Log, ok \in BOOLEAN : \E C :
                Logged(i, log, ok) /\ Spend(C)
      BY <1>4
    <2>2. /\ relays' \in Seq(Relay) /\ Len(relays') = Len(relays)
          /\ DiskOK' /\ used' \in [Count -> Nat]
      BY <2>1, LoggedOK, UsedOK
    <2>3. RelaysOK'
      BY <1>2, <1>4, <2>2, EmptySeq DEF RelaysOK
    <2> QED
      BY <1>1, <1>4, <2>2, <2>3 DEF AppOK, JobsOK, PastOK
  <1>5. CASE RelayClaims
    <2>1. UNCHANGED <<listener, peer, pinned>>
      BY <1>5 DEF RelayClaims, past
    <2>2. twin' \in BOOLEAN
      BY Zenon, <1>5 DEF RelayClaims, past, PastOK
    <2>3. session.copy.claims \in Entry
      BY <1>5 DEF RelayClaims, SessionOK, SessionType, Pending, Maybe, Claiming
    <2>4. /\ \E s \in {"claimed", "refused"} : session' = [session EXCEPT !.phase = s]
          /\ session.phase = "claim"
          /\ claimed' \subseteq claimed \cup {session.copy.claims}
      BY <1>5 DEF RelayClaims
    <2>5. claimed' \subseteq Entry
      BY <2>3, <2>4 DEF PastOK
    <2>6. Len(relays') = Len(relays) => SessionOK'
      BY <2>4 DEF SessionOK, SessionType, Phase, Linked, Claiming, Joining
    <2>7. CASE UNCHANGED <<relays, disk, used>>
      BY <1>1, <2>1, <2>2, <2>5, <2>6, <2>7 DEF AppOK, JobsOK, RelaysOK, DiskOK, PastOK
    <2>8. CASE \E ok \in BOOLEAN : /\ Spend(File(ok))
                                  /\ Logged(session.relay, <<session.copy.claims>>, ok)
      <3>1. session.relay \in 1 .. Len(relays)
        BY <1>2, <2>4 DEF SessionOK, Linked, Claiming
      <3>2. <<session.copy.claims>> \in Log
        BY <2>3 DEF Log
      <3>3. \E i \in 1 .. Len(relays), log \in Log, ok \in BOOLEAN : \E C :
                Logged(i, log, ok) /\ Spend(C)
        BY <2>8, <3>1, <3>2
      <3> QED
        BY <1>4, <2>1, <2>2, <2>5, <2>6, <3>3 DEF PastOK
    <2> QED
      BY <1>5, <2>7, <2>8 DEF RelayClaims
  <1>6. CASE RelayAdds
    <2>1. UNCHANGED <<listener, peer, past>>
      BY <1>6 DEF RelayAdds
    <2>2. Len(relays') = Len(relays) => SessionOK'
      BY <1>6 DEF RelayAdds, SessionOK, SessionType, Phase, Linked, Claiming, Joining
    <2>3. CASE UNCHANGED <<relays, disk, used>>
      BY <1>1, <2>1, <2>2, <2>3 DEF AppOK, JobsOK, RelaysOK, DiskOK, PastOK, past
    <2>4. CASE \E ok \in BOOLEAN : /\ Spend(File(ok))
                                  /\ Logged(Ext, Append(session.draft, Mine("add", Asked)), ok)
      <3>1. session.draft \in Seq(Entry) /\ Mine("add", Asked) \in Entry
        BY MineOK, AskedOK DEF SessionOK, SessionType, Log
      <3>2. Append(session.draft, Mine("add", Asked)) \in Log
        BY <3>1, AppendProperties DEF Log
      <3>3. Ext \in 1 .. Len(relays) /\ twin' \in BOOLEAN
            /\ pinned' \in Nat /\ claimed' \subseteq Entry
        BY <1>2, <2>1 DEF Ext, PastOK, past
      <3> QED
        BY <1>4, <2>1, <2>2, <2>4, <3>2, <3>3 DEF past
    <2> QED
      BY <1>6, <2>3, <2>4 DEF RelayAdds
  <1>7. CASE PeerConnects \/ PeerLeaves
    <2>1. UNCHANGED <<session, relays, listener, disk, used, claimed, twin>>
      BY <1>7 DEF PeerConnects, PeerLeaves, past
    <2>2. peer' \in {0, listener}
      BY <1>7 DEF PeerConnects, PeerLeaves
    <2>3. pinned' \in Nat
      <3>1. CASE PeerConnects
        <4>1. relays[listener] \in Relay
          BY <1>2, <3>1, ElementOfSeq DEF PeerConnects, RelaysOK
        <4> QED
          BY <3>1, <4>1 DEF PeerConnects, Relay
      <3>2. CASE PeerLeaves
        BY <3>2 DEF PeerLeaves, past, PastOK
      <3> QED
        BY <1>7, <3>1, <3>2
    <2> QED
      BY <1>1, <1>2, <2>1, <2>2, <2>3 DEF AppOK, SessionOK, JobsOK, RelaysOK, DiskOK, PastOK, Ext
  <1>8. CASE \E i \in {Ext, peer} : OthersAppend(i)
    <2>1. PICK i \in {Ext, peer} : OthersAppend(i)
      BY <1>8
    <2> DEFINE e == [kind |-> "other", by |-> "they", n |-> used.entry + 1]
    <2>2. i \in 1 .. Len(relays) /\ UNCHANGED <<listener, peer, pinned, claimed>>
      BY <1>2, <2>1 DEF OthersAppend, RelaysOK, Ext
    <2>3. twin' \in BOOLEAN
      BY Zenon, <2>1 DEF OthersAppend, PastOK
    <2>4. e \in Entry
      BY DEF Entry, PastOK, Count
    <2>5. /\ \E ok \in BOOLEAN : /\ Spend({"entry"} \cup File(ok))
                                /\ Logged(i, Append(relays[i].log, e), ok)
          /\ \/ session' = session
             \/ session' = [session EXCEPT !.inbox =
                               Append(@, [type |-> "appended", entries |-> <<e>>])]
      BY <2>1 DEF OthersAppend, SessionOK, SessionType
    <2> HIDE DEF e
    <2>6. Append(session.inbox, [type |-> "appended", entries |-> <<e>>]) \in Seq(Message)
      <3>1. [type |-> "appended", entries |-> <<e>>] \in Message
        BY <2>4 DEF Message, Log
      <3> QED
        BY <3>1, AppendProperties DEF SessionOK, SessionType
    <2>7. Len(relays') = Len(relays) => SessionOK'
      BY <2>5, <2>6 DEF SessionOK, SessionType
    <2>8. Append(relays[i].log, e) \in Log
      BY <2>2, <2>4, GrowsOK
    <2>9. \E k \in 1 .. Len(relays), log \in Log, ok \in BOOLEAN : \E C :
              Logged(k, log, ok) /\ Spend(C)
      BY <2>2, <2>5, <2>8
    <2>10. pinned' \in Nat /\ claimed' \subseteq Entry
      BY <2>2 DEF PastOK
    <2> QED
      BY <1>4, <2>2, <2>3, <2>7, <2>9, <2>10
  <1>9. CASE OthersClaim
    <2>1. UNCHANGED <<session, listener, peer, past>>
      BY <1>9 DEF OthersClaim
    <2>2. \E ok \in BOOLEAN : Spend({"entry"} \cup File(ok)) /\ Logged(Ext, <<First>>, ok)
      BY <1>9 DEF OthersClaim
    <2>3. First \in Entry /\ Ext \in 1 .. Len(relays)
      BY <1>2 DEF First, Entry, Ext
    <2>4. <<First>> \in Log
      BY <2>3 DEF Log
    <2>5. \E i \in 1 .. Len(relays), log \in Log, ok \in BOOLEAN : \E C :
              Logged(i, log, ok) /\ Spend(C)
      BY <2>2, <2>3, <2>4
    <2>6. pinned' \in Nat /\ claimed' \subseteq Entry /\ twin' \in BOOLEAN
      BY <2>1 DEF PastOK, past
    <2>7. Len(relays') = Len(relays) => SessionOK'
      BY <2>1 DEF SessionOK
    <2>8. UNCHANGED <<listener, peer>>
      BY <2>1
    <2> QED
      BY <1>4, <2>5, <2>6, <2>7, <2>8
  <1>10. CASE Break
    <2>1. UNCHANGED <<relayVars, disk, past>>
      BY <1>10 DEF Break
    <2>2. used' \in [Count -> Nat]
      BY <1>10, UsedOK DEF Break
    <2>3. SessionOK'
      BY <1>10, <2>1 DEF Break, SessionOK, SessionType, relayVars
    <2> QED
      BY <1>1, <2>1, <2>2, <2>3 DEF AppOK, JobsOK, RelaysOK, DiskOK, PastOK, relayVars, past
  <1>11. CASE RestartRelay
    <2>1. UNCHANGED <<listener, peer, disk, past>>
      BY <1>11 DEF RestartRelay
    <2>2. used' \in [Count -> Nat]
      BY <1>11, UsedOK DEF RestartRelay
    <2>3. relays' \in Seq(Relay) /\ Len(relays') = Len(relays)
      <3> DEFINE r == [relays[Ext] EXCEPT !.log = disk.ext]
      <3>1. relays[Ext] \in Relay /\ disk.ext \in Log
        BY <1>2, ElementOfSeq DEF RelaysOK, DiskOK, DiskType, Ext
      <3>2. r \in Relay
        BY <3>1 DEF Relay, Log
      <3>3. relays' = [relays EXCEPT ![Ext] = r]
        BY <1>11 DEF RestartRelay
      <3> HIDE DEF r
      <3> QED
        BY <1>2, <3>2, <3>3, ExceptSeq DEF RelaysOK, Ext
    <2>4. SessionOK'
      <3>1. (session.up /\ session.relay # Ext) \in BOOLEAN
        OBVIOUS
      <3>2. session' = [session EXCEPT !.up = session.up /\ session.relay # Ext]
        BY <1>11 DEF RestartRelay
      <3> QED
        BY <2>3, <3>1, <3>2 DEF SessionOK, SessionType
    <2>5. RelaysOK'
      BY <1>2, <2>1, <2>3, EmptySeq DEF RelaysOK
    <2> QED
      BY <1>1, <2>1, <2>2, <2>4, <2>5 DEF AppOK, JobsOK, DiskOK, PastOK, past
  <1> QED
    BY <1>3, <1>5, <1>6, <1>7, <1>8, <1>9, <1>10, <1>11 DEF Others

\* The app starts again with what is on disk.
LEMMA TypesRestart ==
    ASSUME HostTypes, RestartApp
    PROVE  HostTypes'
  <1> USE DEF HostTypes
  <1>1. /\ UNCHANGED <<disk, limit, pinned, claimed, blind>>
        /\ page' = None /\ permit' = FALSE /\ listener' = 0 /\ peer' = 0
        /\ stray' = FALSE /\ twin' = FALSE
    BY DEF RestartApp
  <1>2. settings' \in SetUp /\ enabled' \in BOOLEAN
    BY DEF RestartApp, DiskOK, DiskType, SetUp
  <1>3. core' \in CoreType
    <2>1. <<>> \in Log /\ disk.key \in Maybe(Entry)
      BY DEF Log, DiskOK, DiskType
    <2> QED
      BY <2>1 DEF RestartApp, CoreType, Maybe
  <1>4. relays' \in Seq(Relay) /\ relays' # <<>> /\ Len(relays') = 1
    <2>1. relays[Ext] \in Relay
      BY EmptySeq, ElementOfSeq DEF RelaysOK, Ext
    <2>2. relays' = <<relays[Ext]>>
      BY DEF RestartApp
    <2> QED
      BY <2>1, <2>2
  <1>5. SessionOK'
    <2>1. session' \in SessionType /\ session'.relay = 0 /\ session'.phase = "loop"
      BY IdleSession DEF RestartApp
    <2> QED
      BY <1>4, <2>1 DEF SessionOK, Linked, Claiming, Joining
  <1>6. JobsOK'
    BY DEF RestartApp, JobsOK, JobsType, Step
  <1>7. used' \in [Count -> Nat]
    BY UsedOK DEF RestartApp
  <1>8. AppOK'
    BY <1>1, <1>2, <1>3 DEF AppOK, Maybe
  <1>9. RelaysOK' /\ DiskOK'
    BY <1>1, <1>4 DEF RelaysOK, DiskOK, Ext
  <1>10. PastOK'
    BY <1>1, <1>7 DEF PastOK
  <1> QED
    BY <1>5, <1>6, <1>8, <1>9, <1>10

LEMMA TypesStep == HostTypes /\ [HostNext]_hostVars => HostTypes'
  <1> SUFFICES ASSUME HostTypes, [HostNext]_hostVars
               PROVE  HostTypes'
    OBVIOUS
  <1>1. CASE \E j \in Starter : Start(j)
    BY <1>1, TypesStart
  <1>2. CASE StopHosting \/ RestartHosting \/ ResetOnboarding
    BY <1>2, TypesStop
  <1>3. CASE HostWorkspace \/ Restarted \/ Hosted \/ ConfigureServer
               \/ JoinWorkspace \/ Reset \/ CreateWorkspace \/ JoinByLink
               \/ SwitchSync \/ OpenPage \/ SavePage
    BY <1>3, TypesCommand
  <1>4. CASE Worker
    BY <1>4, TypesWorker
  <1>5. CASE Others /\ ~RestartApp
    BY <1>5, TypesOthers
  <1>6. CASE RestartApp
    BY <1>6, TypesRestart
  <1>7. CASE UNCHANGED hostVars
    <2>1. /\ UNCHANGED <<settings, enabled, page, core, permit, session, jobs>>
          /\ UNCHANGED <<relays, listener, peer, disk, used, limit>>
          /\ UNCHANGED <<pinned, claimed, stray, twin, blind>>
      BY <1>7 DEF hostVars, appVars, relayVars, past
    <2>2. AppOK' /\ JobsOK' /\ DiskOK' /\ PastOK'
      BY <2>1 DEF HostTypes, AppOK, JobsOK, DiskOK, PastOK
    <2>3. SessionOK' /\ RelaysOK'
      BY <2>1 DEF HostTypes, SessionOK, RelaysOK
    <2> QED
      BY <2>2, <2>3 DEF HostTypes
  <1> QED
    BY <1>1, <1>2, <1>3, <1>4, <1>5, <1>6, <1>7 DEF HostNext, Commands, Starter

LEMMA TypesInvariant == HostSpec => []HostTypes
  BY TypesInit, TypesStep, PTL DEF HostSpec

\* Every field of the app, its session, the relays and the disk has its type,
\* and a session that is connected has a relay.
THEOREM HostTypeAlways == HostSpec => []HostTypeOK
  BY TypesInvariant, TypesSuffice, PTL

-----------------------------------------------------------------------------
(* What a file operation and a change of a log leave alone.                *)

LEMMA SavedEffect ==
    ASSUME DiskOK, NEW s \in SetUp, NEW ok \in BOOLEAN
    PROVE  /\ Saved(s, ok).settings = IF ok THEN s ELSE disk.settings
           /\ Saved(s, ok).key = disk.key
           /\ Saved(s, ok).signing = disk.signing /\ Saved(s, ok).kem = disk.kem
           /\ Saved(s, ok).ext = disk.ext /\ Saved(s, ok).own = disk.own
  BY DEF DiskOK, DiskType, Saved

\* One log is replaced, and its file unless that fails.
Writes(i, log) ==
    /\ Len(relays') = Len(relays)
    /\ \A k \in 1 .. Len(relays) : relays'[k].fp = relays[k].fp
    /\ \A k \in 1 .. Len(relays) : relays'[k].log = IF k = i THEN log ELSE relays[k].log
    /\ disk'.settings = disk.settings /\ disk'.key = disk.key
    /\ disk'.signing = disk.signing /\ disk'.kem = disk.kem
    /\ i = Ext => /\ disk'.own = disk.own
                  /\ disk'.ext \in {log, disk.ext, <<>>}
                  /\ disk'.ext = log \/ used'.file > 0
    /\ i # Ext => /\ disk'.ext = disk.ext
                  /\ disk'.own \in {log, disk.own, <<>>}
                  /\ disk'.own = log \/ used'.file > 0

LEMMA LoggedWrites ==
    ASSUME HostTypes, NEW i \in 1 .. Len(relays), NEW log \in Log, NEW ok \in BOOLEAN,
           Logged(i, log, ok), ok \/ used'.file > 0
    PROVE  Writes(i, log)
  <1> USE DEF Writes
  <1>1. relays' = [relays EXCEPT ![i] = [relays[i] EXCEPT !.log = log]]
    BY DEF Logged
  <1>2. relays[i] \in Relay
    BY ElementOfSeq DEF HostTypes, RelaysOK
  <1>3. DOMAIN relays = 1 .. Len(relays) /\ Len(relays') = Len(relays)
    BY LoggedOK, LenProperties DEF HostTypes, RelaysOK
  <1>4. \A k \in 1 .. Len(relays) : relays'[k] = IF k = i THEN [relays[i] EXCEPT !.log = log]
                                                 ELSE relays[k]
    BY <1>1, <1>3
  <1>5. PICK written \in IF ok THEN {log} ELSE {disk[At(i)], <<>>} :
             disk' = [disk EXCEPT ![At(i)] = written]
    BY DEF Logged
  <1>6. disk'.settings = disk.settings /\ disk'.key = disk.key
        /\ disk'.signing = disk.signing /\ disk'.kem = disk.kem
    BY <1>5 DEF At, HostTypes, DiskOK, DiskType
  <1>7. CASE i = Ext
    <2>1. At(i) = "ext"
      BY <1>7 DEF At
    <2>2. disk'.own = disk.own /\ disk'.ext = written
      BY <1>5, <2>1 DEF HostTypes, DiskOK, DiskType
    <2> QED
      BY <1>2, <1>3, <1>4, <1>5, <1>6, <1>7, <2>1, <2>2 DEF Relay
  <1>8. CASE i # Ext
    <2>1. At(i) = "own"
      BY <1>8 DEF At
    <2>2. disk'.ext = disk.ext /\ disk'.own = written
      BY <1>5, <2>1 DEF HostTypes, DiskOK, DiskType
    <2> QED
      BY <1>2, <1>3, <1>4, <1>5, <1>6, <1>8, <2>1, <2>2 DEF Relay
  <1> QED
    BY <1>7, <1>8

\* sb-server is the first relay.
LEMMA ExtThere == HostTypes => Ext \in 1 .. Len(relays) /\ Len(relays) \in Nat
                               /\ DOMAIN relays = 1 .. Len(relays)
  BY EmptySeq, LenProperties DEF HostTypes, RelaysOK, Ext

LEMMA RestartRelayEffect ==
    ASSUME HostTypes, RestartRelay
    PROVE  /\ Len(relays') = Len(relays)
           /\ \A k \in 1 .. Len(relays) : relays'[k].fp = relays[k].fp
           /\ \A k \in 1 .. Len(relays) :
                 relays'[k].log = IF k = Ext THEN disk.ext ELSE relays[k].log
  <1>1. Ext \in 1 .. Len(relays) /\ relays \in Seq(Relay)
    BY ExtThere DEF HostTypes, RelaysOK
  <1>2. relays[Ext] \in Relay /\ disk.ext \in Log
    BY <1>1, ElementOfSeq DEF HostTypes, DiskOK, DiskType
  <1> DEFINE r == [relays[Ext] EXCEPT !.log = disk.ext]
  <1>3. r \in Relay /\ r.fp = relays[Ext].fp /\ r.log = disk.ext
    BY <1>2 DEF Relay, Log
  <1>4. relays' = [relays EXCEPT ![Ext] = r]
    BY DEF RestartRelay
  <1> HIDE DEF r
  <1>5. Len(relays') = Len(relays)
        /\ \A k \in 1 .. Len(relays) : relays'[k] = IF k = Ext THEN r ELSE relays[k]
    BY <1>1, <1>3, <1>4, ExceptSeq
  <1> QED
    BY <1>3, <1>5

\* What a connection does to a log: one entry more, or a claim while it is empty.
NewLog(i, log) ==
    \/ \E e \in Entry : e.kind # "create" /\ log = Append(relays[i].log, e)
    \/ relays[i].log = <<>> /\ log = <<First>> /\ i = Ext
    \/ /\ relays[i].log = <<>> /\ log = <<session.copy.claims>> /\ i = session.relay
       /\ RelayClaims /\ session'.phase = "claimed" /\ session.copy.claims \in claimed'

LEMMA OthersLog ==
    ASSUME HostTypes, Others, ~RestartApp
    PROVE  \/ UNCHANGED <<relays, disk, twin>>
           \/ RestartRelay /\ UNCHANGED <<disk, twin>>
           \/ \E i \in 1 .. Len(relays), log \in Log :
                /\ Writes(i, log)
                /\ twin' = (twin \/ Replaced(i))
                /\ NewLog(i, log)
  <1> USE DEF HostTypes, NewLog
  <1>1. Ext \in 1 .. Len(relays)
    BY ExtThere
  <1>2. ASSUME NEW ok \in BOOLEAN, NEW C, Spend(C \cup File(ok)) \/ Spend(File(ok))
        PROVE  ok \/ used'.file > 0
    BY <1>2 DEF Spend, File, Count, PastOK
  <1>8. twin \in BOOLEAN
    BY DEF PastOK
  <1>3. CASE RelayClaims
    <2>1. session.relay \in 1 .. Len(relays)
      BY <1>1, <1>3 DEF RelayClaims, SessionOK, Linked, Claiming, Ext
    <2>2. session.copy.claims \in Entry
      BY <1>3 DEF RelayClaims, SessionOK, SessionType, Pending, Maybe, Claiming
    <2>3. <<session.copy.claims>> \in Log
      BY <2>2 DEF Log
    <2>4. CASE UNCHANGED <<relays, disk, twin>>
      BY <2>4
    <2>5. CASE \E ok \in BOOLEAN : /\ Spend(File(ok))
                                  /\ Logged(session.relay, <<session.copy.claims>>, ok)
                                  /\ relays[session.relay].log = <<>>
                                  /\ twin' = (twin \/ Replaced(session.relay))
                                  /\ session'.phase = "claimed"
                                  /\ session.copy.claims \in claimed'
      <3>1. PICK ok \in BOOLEAN : /\ Spend(File(ok))
                                 /\ Logged(session.relay, <<session.copy.claims>>, ok)
        BY <2>5
      <3>2. ok \/ used'.file > 0
        BY <1>2, <3>1
      <3>3. Writes(session.relay, <<session.copy.claims>>)
        BY <2>1, <2>3, <3>1, <3>2, LoggedWrites
      <3> QED
        BY <1>3, <2>1, <2>3, <2>5, <3>3
    <2> QED
      BY <1>3, <2>4, <2>5 DEF RelayClaims, TakesClaim, SessionOK, SessionType
  <1>4. CASE RelayAdds
    <2> UNCHANGED twin /\ ~Replaced(Ext)
      BY <1>4 DEF RelayAdds, past, Replaced
    <2>1. CASE UNCHANGED <<relays, disk>>
      BY <2>1
    <2>2. CASE \E ok \in BOOLEAN :
                  /\ Spend(File(ok)) /\ session.draft = relays[Ext].log
                  /\ Logged(Ext, Append(session.draft, Mine("add", Asked)), ok)
      <3>1. Mine("add", Asked) \in Entry /\ Mine("add", Asked).kind # "create"
        BY MineOK, AskedOK DEF Mine
      <3>2. Append(relays[Ext].log, Mine("add", Asked)) \in Log
        BY <1>1, <3>1, GrowsOK
      <3>3. PICK ok \in BOOLEAN :
                  /\ Spend(File(ok)) /\ session.draft = relays[Ext].log
                  /\ Logged(Ext, Append(session.draft, Mine("add", Asked)), ok)
        BY <2>2
      <3>4. ok \/ used'.file > 0
        BY <1>2, <3>3
      <3>5. Writes(Ext, Append(relays[Ext].log, Mine("add", Asked)))
        BY <1>1, <3>2, <3>3, <3>4, LoggedWrites
      <3> QED
        BY <1>1, <1>8, <3>1, <3>2, <3>5
    <2> QED
      BY <1>4, <2>1, <2>2 DEF RelayAdds
  <1>5. CASE \E i \in {Ext, peer} : OthersAppend(i)
    <2>1. PICK i \in {Ext, peer} : OthersAppend(i)
      BY <1>5
    <2> DEFINE e == [kind |-> "other", by |-> "they", n |-> used.entry + 1]
    <2>2. i \in 1 .. Len(relays)
      BY <1>1, <2>1 DEF OthersAppend, RelaysOK, Ext
    <2>3. e \in Entry /\ e.kind # "create"
      BY DEF Entry, PastOK, Count
    <2>4. PICK ok \in BOOLEAN : /\ Spend({"entry"} \cup File(ok))
                               /\ Logged(i, Append(relays[i].log, e), ok)
      BY <2>1 DEF OthersAppend
    <2>6. twin' = (twin \/ Replaced(i))
      BY <2>1 DEF OthersAppend
    <2> HIDE DEF e
    <2>5. Append(relays[i].log, e) \in Log
      BY <2>2, <2>3, GrowsOK
    <2> QED
      <3>1. ok \/ used'.file > 0
        BY <1>2, <2>4
      <3>2. Writes(i, Append(relays[i].log, e))
        BY <2>2, <2>4, <2>5, <3>1, LoggedWrites
      <3> QED
        BY <2>2, <2>3, <2>5, <2>6, <3>2
  <1>6. CASE OthersClaim
    <2>1. First \in Entry
      BY DEF First, Entry
    <2>2. <<First>> \in Log
      BY <2>1 DEF Log
    <2>3. twin' = (twin \/ Replaced(Ext))
      BY <1>6, <1>8 DEF OthersClaim, past, Replaced
    <2> QED
      <3>1. PICK ok \in BOOLEAN : /\ Spend({"entry"} \cup File(ok)) /\ Logged(Ext, <<First>>, ok)
        BY <1>6 DEF OthersClaim
      <3>2. ok \/ used'.file > 0
        BY <1>2, <3>1
      <3>3. Writes(Ext, <<First>>)
        BY <1>1, <2>2, <3>1, <3>2, LoggedWrites
      <3>4. relays[Ext].log = <<>>
        BY <1>6 DEF OthersClaim
      <3> QED
        BY <1>1, <2>2, <2>3, <3>3, <3>4
  <1>7. CASE RestartRelay
    BY <1>7 DEF RestartRelay, past
  <1> QED
    BY <1>3, <1>4, <1>5, <1>6, <1>7
    DEF Others, Connect, ConnectFails, PeerConnects, PeerLeaves, Break, relayVars, past

\* The types give the shape that the lemmas about the port ask for.
LEMMA TypesShape == HostTypes => HostShape
  <1>1. ASSUME HostTypes
        PROVE  core = [x \in CoreField |-> core[x]]
    BY <1>1 DEF HostTypes, AppOK, CoreType, CoreField
  <1>2. ASSUME HostTypes
        PROVE  JobsShape
    BY <1>2 DEF HostTypes, JobsOK, JobsType, JobsShape
  <1> QED
    BY <1>1, <1>2 DEF HostShape, HostTypes, RelaysOK

\* What the commands and the worker do to the disk, and that they tell nobody
\* to host.
Offline ==
    /\ UNCHANGED <<relays, pinned, claimed, limit, twin>>
    /\ disk'.settings \in {settings, settings', disk.settings}
    /\ disk'.signing = disk.signing /\ disk'.kem = disk.kem
    /\ disk'.ext = disk.ext /\ disk'.own = disk.own
    /\ settings'.host => settings.host
    /\ core'.hosting => core.hosting

AnyStop == StopHosting \/ RestartHosting \/ ResetOnboarding
AnyCommand == \/ HostWorkspace \/ Restarted \/ Hosted \/ ConfigureServer
              \/ JoinWorkspace \/ Reset \/ CreateWorkspace \/ JoinByLink
              \/ SwitchSync \/ OpenPage \/ SavePage

LEMMA StopEffect ==
    ASSUME HostTypes, HostTypes', AnyStop
    PROVE  Offline /\ settings' = [settings EXCEPT !.host = FALSE] /\ disk'.key = disk.key
  <1>1. /\ Stopped /\ settings' = [settings EXCEPT !.host = FALSE]
        /\ \E ok \in BOOLEAN : disk' = Saved(settings', ok)
        /\ UNCHANGED <<relays, limit, past>>
    BY DEF AnyStop, StopHosting, RestartHosting, ResetOnboarding, Stop
  <1>2. ~core'.hosting /\ ~settings'.host
    BY <1>1 DEF Stopped, HostTypes, AppOK, CoreType, SetUp
  <1>3. settings' \in SetUp
    BY DEF HostTypes, AppOK
  <1> QED
    BY <1>1, <1>2, <1>3, SavedEffect DEF Offline, past, HostTypes

LEMMA CommandEffect ==
    ASSUME HostTypes, HostTypes', AnyCommand
    PROVE  Offline
  <1> USE DEF AnyCommand
  <1>1. UNCHANGED <<relays, pinned, claimed, limit, twin>>
    BY DEF HostWorkspace, Restarted, Hosted, ConfigureServer, JoinWorkspace, Reset,
           CreateWorkspace, JoinByLink, SwitchSync, OpenPage, SavePage, relayVars, past
  <1>2. settings \in SetUp /\ settings' \in SetUp /\ core \in CoreType /\ disk \in DiskType
    BY DEF HostTypes, AppOK, DiskOK
  <1>3. settings'.host => settings.host
    BY <1>2 DEF HostWorkspace, Restarted, Hosted, ConfigureServer, JoinWorkspace, Reset,
           CreateWorkspace, JoinByLink, SwitchSync, OpenPage, SavePage, appVars, SetUp, Merge
  <1>4. core'.hosting = core.hosting
    BY JobsCalm, SettingsCalm, TypesShape DEF Calm
  <1>5. \/ UNCHANGED disk
        \/ \E ok \in BOOLEAN, s \in {settings, settings'} : disk' = Saved(s, ok)
        \/ \E ok \in BOOLEAN, s \in {settings, settings'}, n \in {Asked, Asked + 1} :
                  disk' = [Saved(s, ok) EXCEPT !.key = Mine("create", n)]
    BY DEF HostWorkspace, Restarted, Hosted, ConfigureServer, JoinWorkspace, Reset,
           CreateWorkspace, JoinByLink, SwitchSync, OpenPage, SavePage
  <1>6. ASSUME NEW ok \in BOOLEAN, NEW s \in {settings, settings'}, NEW k,
               disk' = Saved(s, ok) \/ disk' = [Saved(s, ok) EXCEPT !.key = k]
        PROVE  /\ disk'.settings \in {settings, settings', disk.settings}
               /\ disk'.signing = disk.signing /\ disk'.kem = disk.kem
               /\ disk'.ext = disk.ext /\ disk'.own = disk.own
    <2>1. Saved(s, ok) \in DiskType
      BY <1>2, SavedOK DEF DiskOK
    <2>2. /\ disk'.settings = Saved(s, ok).settings
          /\ disk'.signing = Saved(s, ok).signing /\ disk'.kem = Saved(s, ok).kem
          /\ disk'.ext = Saved(s, ok).ext /\ disk'.own = Saved(s, ok).own
      BY <1>6, <2>1 DEF DiskType
    <2> QED
      BY <1>2, <2>2, SavedEffect DEF DiskOK
  <1>7. /\ disk'.settings \in {settings, settings', disk.settings}
        /\ disk'.signing = disk.signing /\ disk'.kem = disk.kem
        /\ disk'.ext = disk.ext /\ disk'.own = disk.own
    BY <1>5, <1>6
  <1> QED
    BY <1>1, <1>3, <1>4, <1>7 DEF Offline

LEMMA WorkerEffect ==
    ASSUME HostTypes, HostTypes', Worker
    PROVE  Offline /\ UNCHANGED jobs
  <1>1. UNCHANGED <<relays, pinned, claimed, limit, twin, jobs>>
    BY DEF Worker, Turn, Woken, Again, TakePending, ClaimFails, ClaimAcked, GuestGetsLog,
           GuestFails, GuestJoined, SayHello, Greet, Hear, EndSession, FailOnboarding, relayVars, past
  <1>2. settings' \in SetUp /\ settings \in SetUp /\ disk \in DiskType
    BY DEF HostTypes, AppOK, DiskOK
  <1>3. core'.hosting = core.hosting
    BY WorkerCalm, TypesShape DEF Calm
  <1>4. CASE UNCHANGED <<settings, disk>>
    BY <1>1, <1>3, <1>4 DEF Offline
  <1>5. CASE \E drop \in BOOLEAN : FailOnboarding(drop)
    <2>1. settings' = [settings EXCEPT !.addr = None, !.fp = None]
          /\ \E ok \in BOOLEAN : disk' = Saved(settings', ok)
      BY <1>5 DEF FailOnboarding, Fail
    <2>2. settings'.host = settings.host
      BY <1>2, <2>1 DEF SetUp
    <2> QED
      BY <1>1, <1>2, <1>3, <2>1, <2>2, SavedEffect DEF Offline, HostTypes
  <1>6. CASE GuestJoined
    <2>1. UNCHANGED disk /\ settings'.host = settings.host
      BY <1>2, <1>6 DEF GuestJoined, SetUp
    <2> QED
      BY <1>1, <1>3, <2>1 DEF Offline
  <1> QED
    BY <1>4, <1>5, <1>6 DEF Worker, Turn, Woken, Again, TakePending, ClaimFails, ClaimAcked,
           GuestGetsLog, GuestFails, SayHello, Greet, Hear, EndSession, appVars

-----------------------------------------------------------------------------
(* The identity of the embedded relay.                                     *)

\* Both files of the identity are on disk.
Complete == disk.signing # 0 /\ disk.kem # 0

\* Whatever hosts, or is told to when the app starts, has a complete identity,
\* and a relay, a command about to start one, and the other device have the one
\* that is on disk.  Only host_workspace makes one.
JobId(j) ==
    /\ jobs[j].step \in {"bind", "bound"} => Complete /\ jobs[j].id = disk.signing
    /\ j \in {"startup", "restart"} => /\ jobs[j].step # "signing"
                                       /\ jobs[j].step = "asked" => Complete
    /\ j = "host" /\ jobs[j].step = "signing" => jobs[j].id = disk.signing /\ disk.signing # 0
    /\ j \in {"join", "reset"} => jobs[j].step \in {"idle", "rest"}

IdInv ==
    /\ settings.host \/ disk.settings.host \/ core.hosting => Complete
    /\ \A j \in Job : JobId(j)
    /\ \A i \in 1 .. Len(relays) : i # Ext => Complete /\ relays[i].fp = disk.signing
    /\ pinned # 0 => Complete /\ pinned = disk.signing

\* Steps that make no identity and no relay.
SameId ==
    /\ disk'.signing = disk.signing /\ disk'.kem = disk.kem
    /\ settings'.host \/ disk'.settings.host \/ core'.hosting => Complete
    /\ \A j \in Job : \/ jobs'[j] = jobs[j]
                       \/ jobs'[j].step \in {"idle", "rest"}
                       \/ /\ jobs'[j].step = "asked"
                          /\ (j = "host" \/ (Complete /\ j \in Starter))
    /\ Len(relays') <= Len(relays)
    /\ \A i \in 1 .. Len(relays) : i # Ext /\ i <= Len(relays') => relays'[i].fp = relays[i].fp
    /\ pinned' = pinned \/ \E i \in 1 .. Len(relays) : i # Ext /\ pinned' = relays[i].fp

LEMMA IdKept ==
    ASSUME HostTypes, HostTypes', IdInv, SameId
    PROVE  IdInv'
  <1>1. Complete' = Complete /\ disk'.signing = disk.signing
    BY DEF SameId, Complete
  <1>2. ASSUME NEW j \in Job
        PROVE  JobId(j)'
    <2>1. CASE jobs'[j] = jobs[j]
      BY <1>1, <2>1 DEF IdInv, JobId
    <2>2. CASE jobs'[j].step \in {"idle", "rest"}
      BY <1>1, <2>2 DEF JobId
    <2>3. CASE jobs'[j].step = "asked" /\ (j = "host" \/ (Complete /\ j \in Starter))
      BY <1>1, <2>3 DEF JobId, Starter
    <2> QED
      BY <2>1, <2>2, <2>3 DEF SameId
  <1>3. \A i \in 1 .. Len(relays') : i # Ext => Complete' /\ relays'[i].fp = disk'.signing
    <2>1. Len(relays) \in Nat /\ Len(relays') \in Nat
      BY ExtThere, LenProperties DEF HostTypes, RelaysOK
    <2> QED
      BY <1>1, <2>1 DEF IdInv, SameId
  <1>4. pinned' # 0 => Complete' /\ pinned' = disk'.signing
    BY <1>1 DEF IdInv, SameId
  <1>5. settings'.host \/ disk'.settings.host \/ core'.hosting => Complete'
    BY <1>1 DEF SameId
  <1> QED
    BY <1>2, <1>3, <1>4, <1>5 DEF IdInv

LEMMA IdInit == HostInit => IdInv
  <1> SUFFICES ASSUME HostInit
               PROVE  IdInv
    OBVIOUS
  <1>1. Len(relays) = 1 /\ pinned = 0
    BY DEF HostInit
  <1>2. ~settings.host /\ ~disk.settings.host /\ ~core.hosting
    BY DEF HostInit
  <1>3. \A j \in Job : jobs[j].step = "idle"
    BY DEF HostInit
  <1> QED
    BY <1>1, <1>2, <1>3 DEF IdInv, JobId, Ext

LEMMA IdStart ==
    ASSUME HostTypes, HostTypes', IdInv, NEW j \in Starter, Start(j)
    PROVE  IdInv'
  <1>1. j \in Job /\ jobs \in JobsType /\ disk \in DiskType /\ JobId(j)
    BY DEF Starter, Job, HostTypes, JobsOK, DiskOK, IdInv
  <1>2. ASSUME NEW s, jobs' = Goes(j, s)
        PROVE  /\ jobs'[j].step = s /\ jobs'[j].id = jobs[j].id
               /\ \A k \in Job : k # j => jobs'[k] = jobs[k]
    BY <1>1, <1>2 DEF Goes, JobsType
  <1>3. CASE StartReads(j)
    <2>1. /\ jobs[j].step = "asked"
          /\ UNCHANGED <<settings, core, relays, pinned>>
      BY <1>3 DEF StartReads, appVars, relayVars, past
    <2>2. CASE UNCHANGED disk /\ jobs' = Goes(j, Done(j))
      <3>1. Done(j) \in {"idle", "rest"}
        BY DEF Done
      <3>2. SameId
        BY <1>2, <2>1, <2>2, <3>1, ExtThere DEF SameId, IdInv
      <3> QED
        BY <3>2, IdKept
    <2>3. CASE /\ UNCHANGED disk /\ Complete
               /\ jobs' = [jobs EXCEPT ![j] = [step |-> "bind", id |-> disk.signing]]
      <3>1. /\ jobs'[j].step = "bind" /\ jobs'[j].id = disk.signing
            /\ \A k \in Job : k # j => jobs'[k] = jobs[k]
        BY <1>1, <2>3 DEF JobsType
      <3>2. Complete' = Complete
        BY <2>3 DEF Complete
      <3>3. \A k \in Job : JobId(k)'
        BY <2>3, <3>1, <3>2 DEF JobId, IdInv, Starter
      <3> QED
        BY <2>1, <2>3, <3>2, <3>3 DEF IdInv
    <2>4. CASE /\ ~Complete
               /\ jobs' = [jobs EXCEPT ![j] = [step |-> "signing", id |-> disk.signing + 1]]
               /\ disk' = [disk EXCEPT !.signing = @ + 1]
      <3>1. /\ jobs'[j].step = "signing" /\ jobs'[j].id = disk.signing + 1
            /\ \A k \in Job : k # j => jobs'[k] = jobs[k]
        BY <1>1, <2>4 DEF JobsType
      <3>2. disk'.signing = disk.signing + 1 /\ disk'.settings = disk.settings
            /\ disk.signing \in Nat
        BY <1>1, <2>4 DEF DiskType
      <3>3. j = "host"
        BY <1>1, <2>1, <2>4 DEF JobId, Starter
      <3>4. \A k \in Job : JobId(k)'
        BY <2>4, <3>1, <3>2, <3>3 DEF JobId, IdInv
      <3> QED
        BY <2>1, <2>4, <3>2, <3>4 DEF IdInv
    <2> QED
      BY <1>3, <2>2, <2>3, <2>4 DEF StartReads, Complete
  <1>4. CASE StartKeeps(j)
    <2>1. jobs[j].step = "signing" /\ UNCHANGED <<settings, core, relays, pinned>>
      BY <1>4 DEF StartKeeps, appVars, relayVars, past
    <2>2. j = "host" /\ jobs[j].id = disk.signing /\ disk.signing # 0
      BY <1>1, <2>1 DEF JobId, Starter
    <2>3. PICK ok \in BOOLEAN : /\ jobs' = Goes(j, IF ok THEN "bind" ELSE "idle")
                              /\ disk' = [disk EXCEPT !.kem = IF ok THEN jobs[j].id ELSE @]
      BY <1>4 DEF StartKeeps
    <2>4. /\ disk'.signing = disk.signing /\ disk'.settings = disk.settings
          /\ disk'.kem = IF ok THEN disk.signing ELSE disk.kem
      BY <1>1, <2>2, <2>3 DEF DiskType
    <2>5. Complete => Complete'
      BY <2>2, <2>4 DEF Complete
    <2>6. ok => Complete'
      BY <2>2, <2>4 DEF Complete
    <2>7. JobId(j)'
      BY <1>2, <2>2, <2>3, <2>4, <2>6 DEF JobId
    <2>8. \A k \in Job : JobId(k)'
      BY <1>2, <2>2, <2>3, <2>4, <2>5, <2>7 DEF JobId, IdInv
    <2> QED
      BY <2>1, <2>4, <2>5, <2>8 DEF IdInv
  <1>5. CASE StartBinds(j)
    <2>1. /\ jobs[j].step = "bind" /\ jobs' = Goes(j, "bound")
          /\ UNCHANGED <<settings, core, disk, pinned>>
      BY <1>5 DEF StartBinds, appVars, past
    <2>2. Complete /\ jobs[j].id = disk.signing
      BY <1>1, <2>1 DEF JobId
    <2>3. Complete' = Complete
      BY <2>1 DEF Complete
    <2>4. \A k \in Job : JobId(k)'
      BY <1>2, <2>1, <2>2, <2>3 DEF JobId, IdInv, Starter
    <2>5. \A i \in 1 .. Len(relays') : i # Ext => relays'[i].fp = disk.signing
      <3>1. PICK r : relays' = Append(relays, r) /\ r.fp = jobs[j].id
        BY <1>5 DEF StartBinds
      <3>2. /\ Len(relays') = Len(relays) + 1 /\ relays'[Len(relays) + 1] = r
            /\ Len(relays) \in Nat
            /\ \A i \in 1 .. Len(relays) : relays'[i] = relays[i]
        BY <3>1, LenProperties DEF HostTypes, RelaysOK
      <3> QED
        BY <2>2, <3>1, <3>2 DEF IdInv
    <2> QED
      BY <2>1, <2>2, <2>3, <2>4, <2>5 DEF IdInv
  <1>6. CASE StartFails(j)
    <2>1. /\ jobs' = Goes(j, "idle")
          /\ UNCHANGED <<settings, core, relays, disk, pinned>>
      BY <1>6 DEF StartFails, appVars, relayVars, past
    <2>2. SameId
      BY <1>2, <2>1, ExtThere DEF SameId, IdInv
    <2> QED
      BY <2>2, IdKept
  <1>7. CASE Started(j)
    <2>1. jobs[j].step = "bound" /\ jobs' = Goes(j, Done(j)) /\ UNCHANGED <<relays, pinned>>
      BY <1>7 DEF Started, relayVars, past
    <2>2. Complete /\ Done(j) \in {"idle", "rest"}
      BY <1>1, <2>1 DEF JobId, Done
    <2>3. disk'.signing = disk.signing /\ disk'.kem = disk.kem
      BY <1>7, SavedEffect DEF Started, HostTypes, AppOK
    <2>4. SameId
      BY <1>2, <2>1, <2>2, <2>3, ExtThere DEF SameId
    <2> QED
      BY <2>4, IdKept
  <1> QED
    BY <1>3, <1>4, <1>5, <1>6, <1>7 DEF Start

LEMMA IdCommands ==
    ASSUME HostTypes, HostTypes', IdInv, AnyStop \/ AnyCommand \/ Worker
    PROVE  IdInv'
  <1>1. Offline
    BY StopEffect, CommandEffect, WorkerEffect
  <1>2. jobs \in JobsType
    BY DEF HostTypes, JobsOK
  <1>3. ASSUME NEW j \in Job, NEW s, jobs' = Goes(j, s)
        PROVE  jobs'[j].step = s /\ \A k \in Job : k # j => jobs'[k] = jobs[k]
    BY <1>2, <1>3 DEF Goes, JobsType
  <1>4. \/ jobs' = jobs
        \/ \E j \in Job : jobs' = Goes(j, "idle") \/ jobs' = Goes(j, "rest")
        \/ jobs' = Goes("host", "asked")
        \/ jobs' = Goes("restart", "asked") /\ core.hosting
    BY WorkerEffect
    DEF AnyStop, AnyCommand, StopHosting, RestartHosting, ResetOnboarding, Stop, HostWorkspace,
        Restarted, Hosted, ConfigureServer, JoinWorkspace, Reset, CreateWorkspace, JoinByLink,
        SwitchSync, OpenPage, SavePage, Job
  <1>5. core.hosting => Complete
    BY DEF IdInv
  <1>6. \A j \in Job : \/ jobs'[j] = jobs[j]
                       \/ jobs'[j].step \in {"idle", "rest"}
                       \/ /\ jobs'[j].step = "asked"
                          /\ (j = "host" \/ (Complete /\ j \in Starter))
    BY <1>3, <1>4, <1>5 DEF Job, Starter
  <1>7. SameId
    BY <1>1, <1>6, ExtThere DEF SameId, Offline, IdInv
  <1> QED
    BY <1>7, IdKept

LEMMA IdOthers ==
    ASSUME HostTypes, HostTypes', IdInv, Others, ~RestartApp
    PROVE  IdInv'
  <1>1. UNCHANGED <<settings, core, jobs>>
    BY DEF Others, Connect, ConnectFails, RelayClaims, RelayAdds, PeerConnects, PeerLeaves,
           OthersAppend, OthersClaim, Break, RestartRelay, appVars
  <1>2. /\ Len(relays') = Len(relays)
        /\ \A i \in 1 .. Len(relays) : relays'[i].fp = relays[i].fp
        /\ disk'.signing = disk.signing /\ disk'.kem = disk.kem
        /\ disk'.settings = disk.settings
    BY OthersLog, RestartRelayEffect DEF Writes
  <1>3. pinned' = pinned \/ \E i \in 1 .. Len(relays) : i # Ext /\ pinned' = relays[i].fp
    <2>1. pinned' = pinned \/ PeerConnects
      BY DEF Others, Connect, ConnectFails, RelayClaims, RelayAdds, PeerLeaves,
           OthersAppend, OthersClaim, Break, RestartRelay, past
    <2>2. PeerConnects => listener \in 1 .. Len(relays) /\ listener # Ext
                          /\ pinned' = relays[listener].fp
      BY ExtThere DEF PeerConnects, HostTypes, RelaysOK
    <2> QED
      BY <2>1, <2>2
  <1>4. SameId
    BY <1>1, <1>2, <1>3, ExtThere DEF SameId, IdInv
  <1> QED
    BY <1>4, IdKept

\* The app hosts again if it did, with the identity on disk.
LEMMA IdRestart ==
    ASSUME HostTypes, HostTypes', IdInv, RestartApp
    PROVE  IdInv'
  <1>1. settings' = disk.settings /\ ~core'.hosting /\ UNCHANGED <<disk, pinned>>
    BY DEF RestartApp
  <1>2. Len(relays') = 1
    BY DEF RestartApp
  <1>3. \A j \in Job : jobs'[j].step = IF j = "startup" /\ settings'.host THEN "asked" ELSE "idle"
    BY DEF RestartApp
  <1>4. SameId
    BY <1>1, <1>2, <1>3, ExtThere DEF SameId, IdInv, Starter, Ext
  <1> QED
    BY <1>4, IdKept

LEMMA StepKinds ==
    [HostNext]_hostVars =>
        \/ \E j \in Starter : Start(j)
        \/ AnyStop \/ AnyCommand \/ Worker
        \/ Others /\ ~RestartApp
        \/ RestartApp
        \/ UNCHANGED hostVars
  BY DEF HostNext, Commands, Starter, AnyStop, AnyCommand

LEMMA IdStep == HostTypes /\ HostTypes' /\ IdInv /\ [HostNext]_hostVars => IdInv'
  <1> SUFFICES ASSUME HostTypes, HostTypes', IdInv, [HostNext]_hostVars
               PROVE  IdInv'
    OBVIOUS
  <1>1. CASE UNCHANGED hostVars
    <2>1. UNCHANGED <<settings, core, jobs, relays, disk, pinned>>
      BY <1>1 DEF hostVars, appVars, relayVars, past
    <2> QED
      BY <2>1 DEF IdInv, JobId, Complete
  <1> QED
    BY <1>1, StepKinds, IdStart, IdCommands, IdOthers, IdRestart

LEMMA IdInvariant == HostSpec => []IdInv
  BY TypesInvariant, IdInit, IdStep, PTL DEF HostSpec

\* Every embedded relay that is started has the fingerprint the other device has
\* seen, however often it is started and wherever the app ended in between: the
\* identity is on disk as a whole before a relay runs with it, and one that is
\* there is never made anew (load_or_create_identity, start_embedded_server).
THEOREM IdentityStaysAlways == HostSpec => []IdentityStays
  <1>1. HostTypes /\ IdInv => IdentityStays
    BY ExtThere DEF IdInv, IdentityStays
  <1> QED
    BY <1>1, TypesInvariant, IdInvariant, PTL

-----------------------------------------------------------------------------
(* The logs of the relays and their files.                                 *)

\* Nothing that has happened is forgotten, a failed write least of all.
LEMMA CountsGrow ==
    ASSUME HostTypes, [HostNext]_hostVars
    PROVE  \A c \in Count : used'[c] >= used[c]
  <1>1. \A C : Spend(C) => \A c \in Count : used'[c] >= used[c]
    BY Spent DEF HostTypes
  <1>2. CASE UNCHANGED used
    BY <1>2 DEF HostTypes, PastOK, Count
  <1>3. CASE \E C : Spend(C)
    BY <1>1, <1>3
  <1>4. CASE UNCHANGED hostVars
    BY <1>2, <1>4 DEF hostVars
  <1>5. CASE \E j \in Starter : Start(j)
    <2>1. PICK j \in Starter : Start(j)
      BY <1>5
    <2>2. UNCHANGED used \/ \E C : Spend(C)
      BY <2>1 DEF Start, StartReads, StartKeeps, StartBinds, StartFails, Started
    <2> QED
      BY <1>2, <1>3, <2>2
  <1>6. CASE AnyStop
    BY <1>3, <1>6 DEF AnyStop, StopHosting, RestartHosting, ResetOnboarding, Stop
  <1>7. CASE AnyCommand
    BY <1>2, <1>3, <1>7
    DEF AnyCommand, HostWorkspace, Restarted, Hosted, ConfigureServer, JoinWorkspace, Reset,
        CreateWorkspace, JoinByLink, SwitchSync, OpenPage, SavePage
  <1>8. CASE Worker
    BY <1>2, <1>3, <1>8
    DEF Worker, Turn, Woken, Again, TakePending, ClaimFails, ClaimAcked, GuestGetsLog,
        GuestFails, GuestJoined, SayHello, Greet, Hear, EndSession, FailOnboarding
  <1>9. CASE Others
    BY <1>2, <1>3, <1>9
    DEF Others, Connect, ConnectFails, RelayClaims, RelayAdds, PeerConnects, PeerLeaves,
        OthersAppend, OthersClaim, Break, RestartRelay, RestartApp
  <1>10. CASE RestartApp
    BY <1>3, <1>10 DEF RestartApp
  <1> QED
    BY <1>4, <1>5, <1>6, <1>7, <1>8, <1>9, <1>10, StepKinds

LEMMA FilesCounted ==
    ASSUME HostTypes, HostTypes', [HostNext]_hostVars
    PROVE  used'.file = 0 => used.file = 0
  <1>1. used'.file \in Nat /\ used.file \in Nat /\ used'.file >= used.file
    BY CountsGrow DEF HostTypes, PastOK, Count
  <1> QED
    BY <1>1

\* sb-server has one process at a time; an embedded relay that was stopped may go
\* on writing the file of its successor.
DiskInv ==
    used.file = 0 =>
        /\ disk.ext = relays[Ext].log
        /\ ~twin /\ Len(relays) > 1 => disk.own = relays[Len(relays)].log

LEMMA DiskInit == HostInit => DiskInv
  <1> SUFFICES ASSUME HostInit
               PROVE  DiskInv
    OBVIOUS
  <1>1. disk.ext = relays[Ext].log /\ Len(relays) = 1
    BY DEF HostInit
  <1> QED
    BY <1>1 DEF DiskInv

LEMMA DiskStart ==
    ASSUME HostTypes, HostTypes', NEW j \in Starter, Start(j)
    PROVE  /\ UNCHANGED twin /\ disk'.ext = disk.ext /\ disk'.own = disk.own
           /\ \/ UNCHANGED relays
              \/ /\ Len(relays') = Len(relays) + 1
                 /\ \A i \in 1 .. Len(relays) : relays'[i] = relays[i]
                 /\ relays'[Len(relays')].log = disk.own
  <1>1. disk \in DiskType /\ settings' \in SetUp
    BY DEF HostTypes, DiskOK, AppOK
  <1>2. UNCHANGED twin
    BY DEF Start, StartReads, StartKeeps, StartBinds, StartFails, Started, past
  <1>3. disk'.ext = disk.ext /\ disk'.own = disk.own
    <2>1. CASE Started(j)
      BY <1>1, <2>1, SavedEffect DEF Started, DiskOK
    <2>2. CASE StartReads(j) \/ StartKeeps(j)
      BY <1>1, <2>2 DEF StartReads, StartKeeps, DiskType
    <2> QED
      BY <2>1, <2>2 DEF Start, StartBinds, StartFails
  <1>4. CASE StartBinds(j)
    <2>1. PICK r : relays' = Append(relays, r) /\ r.log = disk.own
      BY <1>4 DEF StartBinds
    <2>2. /\ Len(relays') = Len(relays) + 1 /\ relays'[Len(relays) + 1] = r
          /\ \A i \in 1 .. Len(relays) : relays'[i] = relays[i]
      BY <2>1 DEF HostTypes, RelaysOK
    <2> QED
      BY <1>2, <1>3, <2>1, <2>2
  <1>5. CASE ~StartBinds(j)
    <2>1. UNCHANGED relays
      BY <1>5 DEF Start, StartReads, StartKeeps, StartFails, Started, relayVars
    <2> QED
      BY <1>2, <1>3, <2>1
  <1> QED
    BY <1>4, <1>5

LEMMA DiskStep == HostTypes /\ HostTypes' /\ DiskInv /\ [HostNext]_hostVars => DiskInv'
  <1> SUFFICES ASSUME HostTypes, HostTypes', DiskInv, [HostNext]_hostVars,
                      used'.file = 0
               PROVE  /\ disk'.ext = relays'[Ext].log
                      /\ ~twin' /\ Len(relays') > 1 => disk'.own = relays'[Len(relays')].log
    BY DEF DiskInv
  <1>1. /\ disk.ext = relays[Ext].log
        /\ ~twin /\ Len(relays) > 1 => disk.own = relays[Len(relays)].log
    <2>1. used.file \in Nat /\ used'.file >= used.file
      BY FilesCounted DEF HostTypes, PastOK, Count
    <2>2. used.file = 0
      BY <2>1
    <2> QED
      BY <2>2 DEF DiskInv
  <1>2. Ext \in 1 .. Len(relays) /\ Len(relays) \in Nat
    BY ExtThere
  <1>3. CASE UNCHANGED hostVars
    BY <1>1, <1>3 DEF hostVars, relayVars, past
  <1>4. CASE \E j \in Starter : Start(j)
    BY <1>1, <1>2, <1>4, DiskStart DEF Ext
  <1>5. CASE AnyStop \/ AnyCommand \/ Worker
    BY <1>1, <1>5, StopEffect, CommandEffect, WorkerEffect DEF Offline
  <1>6. CASE Others /\ ~RestartApp
    <2>1. CASE UNCHANGED <<relays, disk, twin>>
      BY <1>1, <2>1
    <2>2. CASE RestartRelay /\ UNCHANGED <<disk, twin>>
      BY <1>1, <1>2, <2>2, RestartRelayEffect DEF Ext
    <2>3. CASE \E i \in 1 .. Len(relays), log \in Log :
                 Writes(i, log) /\ twin' = (twin \/ Replaced(i))
      <3>1. PICK i \in 1 .. Len(relays), log \in Log :
                 Writes(i, log) /\ twin' = (twin \/ Replaced(i))
        BY <2>3
      <3>2. disk'.ext = relays'[Ext].log
        BY <1>1, <1>2, <3>1 DEF Writes
      <3>3. ASSUME ~twin', Len(relays') > 1
            PROVE  disk'.own = relays'[Len(relays')].log
        <4>1. ~twin /\ (i = Ext \/ i = Len(relays))
          BY <3>1, <3>3 DEF Replaced
        <4> QED
          BY <1>1, <1>2, <3>1, <3>3, <4>1 DEF Ext, Writes
      <3> QED
        BY <3>2, <3>3
    <2> QED
      BY <1>6, <2>1, <2>2, <2>3, OthersLog
  <1>7. CASE RestartApp
    BY <1>1, <1>7 DEF RestartApp, Ext
  <1> QED
    BY <1>3, <1>4, <1>5, <1>6, <1>7, StepKinds

LEMMA DiskInvariant == HostSpec => []DiskInv
  BY TypesInvariant, DiskInit, DiskStep, PTL DEF HostSpec

\* Whatever a relay has taken is on its disk while every write succeeds and no
\* stopped relay goes on writing the file of its successor (save_log after each
\* append, load_log when the relay starts).
THEOREM KeptOnDiskAlways == HostSpec => []KeptOnDisk
  <1>1. DiskInv => KeptOnDisk
    BY DEF DiskInv, KeptOnDisk, Last
  <1> QED
    BY <1>1, DiskInvariant, PTL

-----------------------------------------------------------------------------
(* No relay takes back an entry.                                           *)

LEMMA PrefixKept ==
    ASSUME NEW s \in Log
    PROVE  /\ IsPrefix(s, s)
           /\ \A e \in Entry : IsPrefix(s, Append(s, e))
           /\ \A t \in Log : IsPrefix(<<>>, t)
  <1>1. Len(s) \in Nat /\ s \in Seq(Entry)
    BY LenProperties DEF Log
  <1>2. IsPrefix(s, s)
    BY <1>1 DEF IsPrefix
  <1>3. ASSUME NEW e \in Entry
        PROVE  IsPrefix(s, Append(s, e))
    <2>1. Append(s, e) = s \o <<e>> /\ <<e>> \in Seq(Entry)
      BY <1>1, AppendIsConcat
    <2>2. Len(Append(s, e)) = Len(s) + 1
      BY <1>1, AppendProperties
    <2>3. CASE Len(s) = 0
      <3>1. SubSeq(s, 1, 0) = <<>> /\ SubSeq(Append(s, e), 1, 0) = <<>>
        BY SubSeqEmpty
      <3> QED
        BY <1>1, <2>2, <2>3, <3>1 DEF IsPrefix
    <2>4. CASE Len(s) > 0
      <3>1. 1 \in 1 .. Len(s) /\ Len(s) \in 1 .. Len(s)
        BY <1>1, <2>4
      <3>2. SubSeq(Append(s, e), 1, Len(s)) = SubSeq(s, 1, Len(s))
        BY <1>1, <2>1, <3>1, SubSeqOfConcat1
      <3> QED
        BY <1>1, <2>2, <3>2 DEF IsPrefix
    <2> QED
      BY <1>1, <2>3, <2>4
  <1>4. ASSUME NEW t \in Log
        PROVE  IsPrefix(<<>>, t)
    <2>1. Len(t) \in Nat /\ Len(<<>>) = 0
      BY <1>4, LenProperties DEF Log
    <2>2. SubSeq(<<>>, 1, 0) = <<>> /\ SubSeq(t, 1, 0) = <<>>
      BY SubSeqEmpty
    <2> QED
      BY <2>1, <2>2 DEF IsPrefix
  <1> QED
    BY <1>2, <1>3, <1>4

RelaysKeep ==
    \A i \in DOMAIN relays \cap DOMAIN relays' :
       \/ IsPrefix(relays[i].log, relays'[i].log)
       \/ used.file > 0 /\ RestartRelay

LEMMA RelaysKeepStep == HostTypes /\ HostTypes' /\ DiskInv /\ [HostNext]_hostVars => [RelaysKeep]_hostVars
  <1> SUFFICES ASSUME HostTypes, HostTypes', DiskInv, [HostNext]_hostVars,
                      NEW i \in DOMAIN relays, i \in DOMAIN relays',
                      ~UNCHANGED hostVars
               PROVE  \/ IsPrefix(relays[i].log, relays'[i].log)
                      \/ used.file > 0 /\ RestartRelay
    BY DEF RelaysKeep
  <1>1. i \in 1 .. Len(relays) /\ Ext \in 1 .. Len(relays)
    BY ExtThere
  <1>2. relays[i].log \in Log /\ IsPrefix(relays[i].log, relays[i].log)
    <2>1. relays[i] \in Relay
      BY <1>1, ElementOfSeq DEF HostTypes, RelaysOK
    <2>2. relays[i].log \in Log
      BY <2>1 DEF Relay, Log
    <2> QED
      BY <2>2, PrefixKept
  <1>3. CASE relays'[i].log = relays[i].log
    BY <1>2, <1>3
  <1>4. CASE \E j \in Starter : Start(j)
    BY <1>1, <1>3, <1>4, DiskStart
  <1>5. CASE AnyStop \/ AnyCommand \/ Worker
    BY <1>3, <1>5, StopEffect, CommandEffect, WorkerEffect DEF Offline
  <1>6. CASE Others /\ ~RestartApp
    <2>1. CASE UNCHANGED relays
      BY <1>3, <2>1
    <2>2. CASE RestartRelay
      <3>1. used.file \in Nat
        BY DEF HostTypes, PastOK, Count
      <3>2. CASE used.file = 0
        <4>1. disk.ext = relays[Ext].log
          BY <3>2 DEF DiskInv
        <4>2. relays'[i].log = relays[i].log
          BY <1>1, <2>2, <4>1, RestartRelayEffect
        <4> QED
          BY <1>3, <4>2
      <3>3. CASE used.file > 0
        BY <2>2, <3>3
      <3> QED
        BY <3>1, <3>2, <3>3
    <2>3. CASE \E k \in 1 .. Len(relays), log \in Log : Writes(k, log) /\ NewLog(k, log)
      <3>1. PICK k \in 1 .. Len(relays), log \in Log : Writes(k, log) /\ NewLog(k, log)
        BY <2>3
      <3>2. relays'[i].log = IF i = k THEN log ELSE relays[i].log
        BY <1>1, <3>1 DEF Writes
      <3>3. relays[k].log = <<>> \/ \E e \in Entry : log = Append(relays[k].log, e)
        BY <3>1 DEF NewLog
      <3> QED
        BY <1>2, <1>3, <3>1, <3>2, <3>3, PrefixKept
    <2> QED
      BY <1>6, <2>1, <2>2, <2>3, OthersLog
  <1>7. CASE RestartApp
    <2>1. relays' = <<relays[Ext]>>
      BY <1>7 DEF RestartApp
    <2>2. i = Ext
      BY <2>1 DEF Ext
    <2> QED
      BY <1>3, <2>1, <2>2 DEF Ext
  <1> QED
    BY <1>4, <1>5, <1>6, <1>7, StepKinds

\* A relay adds to its log and never takes back or replaces what is in it: a
\* claim is only taken into an empty log, an append goes to the end, and a
\* restart reads what was written, unless a write had failed (AppendEntry and
\* ClaimWorkspace in sb-server).
THEOREM RelayKeepsWorkspaceAlways == HostSpec => RelayKeepsWorkspace
  BY TypesInvariant, DiskInvariant, RelaysKeepStep, PTL DEF HostSpec, RelayKeepsWorkspace, RelaysKeep

-----------------------------------------------------------------------------
(* Workspaces that no relay has.                                           *)

\* Every workspace of this device in a log has been taken by a relay.
Claimed(log, C) ==
    \A i \in 1 .. Len(log) : log[i].kind = "create" /\ log[i].by = "me" => log[i] \in C

LEMMA ClaimedLogs ==
    ASSUME NEW l \in Log, NEW C, Claimed(l, C)
    PROVE  /\ \A e \in Entry : e.kind # "create" \/ e.by # "me" \/ e \in C => Claimed(Append(l, e), C)
           /\ \A m \in Int, n \in Int : m >= 1 /\ n <= Len(l) => Claimed(SubSeq(l, m, n), C)
           /\ \A D : C \subseteq D => Claimed(l, D)
           /\ WorkspaceOf(l) # None /\ WorkspaceOf(l).by = "me" => WorkspaceOf(l) \in C
  <1>1. Len(l) \in Nat /\ l \in Seq(Entry)
    BY LenProperties DEF Log
  <1>2. ASSUME NEW e \in Entry, e.kind # "create" \/ e.by # "me" \/ e \in C
        PROVE  Claimed(Append(l, e), C)
    <2>1. /\ Len(Append(l, e)) = Len(l) + 1 /\ Append(l, e)[Len(l) + 1] = e
          /\ \A i \in 1 .. Len(l) : Append(l, e)[i] = l[i]
      BY <1>1, AppendProperties
    <2> QED
      BY <1>1, <1>2, <2>1 DEF Claimed
  <1>3. ASSUME NEW m \in Int, NEW n \in Int, m >= 1, n <= Len(l)
        PROVE  Claimed(SubSeq(l, m, n), C)
    <2>1. \A i \in m .. n : l[i] \in Entry
      BY <1>1, <1>3
    <2>2. /\ Len(SubSeq(l, m, n)) = IF m <= n THEN n - m + 1 ELSE 0
          /\ \A i \in 1 .. n - m + 1 : SubSeq(l, m, n)[i] = l[m + i - 1]
      BY <2>1, SubSeqProperties
    <2>3. \A i \in 1 .. Len(SubSeq(l, m, n)) : SubSeq(l, m, n)[i] = l[m + i - 1]
                                              /\ m + i - 1 \in 1 .. Len(l)
      BY <1>1, <1>3, <2>2
    <2> QED
      BY <2>3 DEF Claimed
  <1>4. \A D : C \subseteq D => Claimed(l, D)
    BY DEF Claimed
  <1>5. WorkspaceOf(l) # None /\ WorkspaceOf(l).by = "me" => WorkspaceOf(l) \in C
    <2>1. l # <<>> => 1 \in 1 .. Len(l)
      BY <1>1, EmptySeq
    <2> QED
      BY <2>1 DEF WorkspaceOf, Claimed
  <1> QED
    BY <1>2, <1>3, <1>4, <1>5

LEMMA ClaimedEmpty == ASSUME NEW C PROVE Claimed(<<>>, C) /\ WorkspaceOf(<<>>) = None
  BY DEF Claimed, WorkspaceOf

\* What Append makes, whatever is appended.
LEMMA AppendAny ==
    ASSUME NEW S, NEW q \in Seq(S), NEW m
    PROVE  /\ Len(Append(q, m)) = Len(q) + 1
           /\ Append(q, m)[Len(q) + 1] = m
           /\ \A p \in 1 .. Len(q) : Append(q, m)[p] = q[p]
           /\ Len(q) \in Nat
  <1>1. q \in Seq(S \cup {m})
    <2>1. q \in [1 .. Len(q) -> S \cup {m}] /\ Len(q) \in Nat
      BY LenProperties
    <2> QED
      BY <2>1, IsASeq
  <1>2. m \in S \cup {m}
    OBVIOUS
  <1> QED
    BY <1>1, <1>2, AppendProperties, LenProperties

LEMMA ClaimedOne ==
    ASSUME NEW e, NEW C, e.kind # "create" \/ e.by # "me" \/ e \in C
    PROVE  Claimed(<<e>>, C)
  BY DEF Claimed

\* A log that grows at the end keeps its workspace, or takes it from what comes.
LEMMA ClaimedConcat ==
    ASSUME NEW l \in Log, NEW m \in Log, NEW C, Claimed(m, C)
    PROVE  WorkspaceOf(l \o m) \in {WorkspaceOf(l), WorkspaceOf(m)}
  <1>1. l \in Seq(Entry) /\ m \in Seq(Entry)
    BY DEF Log
  <1>2. CASE l = <<>>
    BY <1>1, <1>2, ConcatEmptySeq
  <1>3. CASE l # <<>>
    <2>1. Len(l) \in Nat \ {0} /\ Len(m) \in Nat
      BY <1>1, <1>3, EmptySeq, LenProperties
    <2>2. Len(l \o m) = Len(l) + Len(m) /\ l \o m \in Seq(Entry) /\ (l \o m)[1] = l[1]
      BY <1>1, <2>1, ConcatProperties
    <2>3. l \o m # <<>>
      BY <2>1, <2>2
    <2> QED
      BY <1>3, <2>2, <2>3 DEF WorkspaceOf
  <1> QED
    BY <1>2, <1>3

\* Where a workspace of this device that no relay has is accounted for.
Pends(ws) == core.pending # None /\ core.pending.claims = ws
Makes(ws) == session.phase \in Claiming /\ session.copy.claims = ws
Accounted ==
    LET ws == WorkspaceOf(core.log)
    IN  ws # None /\ ws.by = "me" /\ ws \notin claimed => Pends(ws) \/ Makes(ws) \/ stray

\* A claim that was pending and is so no more is one that a session is making,
\* or it has gone astray.
LEMMA Unpending ==
    ASSUME NEW ws, ws # None, Pends(ws)
    PROVE  Makes(ws) \/ Unsent
  BY DEF Pends, Makes, Unsent

LogsClaimed(C) ==
    /\ \A i \in 1 .. Len(relays) : Claimed(relays[i].log, C)
    /\ Claimed(disk.ext, C) /\ Claimed(disk.own, C)
SessionClaimed(C) ==
    /\ Claimed(session.draft, C)
    /\ \A p \in 1 .. Len(session.inbox) : Claimed(session.inbox[p].entries, C)
    /\ session.phase = "claimed" => session.copy.claims \in C

GhostInv == Accounted /\ LogsClaimed(claimed) /\ SessionClaimed(claimed)

LEMMA GhostInit == HostInit => GhostInv
  <1> SUFFICES ASSUME HostInit
               PROVE  GhostInv
    OBVIOUS
  <1>1. core.log = <<>> /\ session.draft = <<>> /\ session.inbox = <<>> /\ session.phase = "loop"
    BY DEF HostInit, NoSession
  <1>2. Accounted
    BY <1>1, ClaimedEmpty DEF Accounted
  <1>3. SessionClaimed(claimed)
    BY <1>1, ClaimedEmpty DEF SessionClaimed
  <1>4. Len(relays) = 1 /\ relays[1].log \in {<<>>, <<First>>}
        /\ disk.ext = relays[1].log /\ disk.own = <<>>
    BY DEF HostInit, Ext
  <1>5. Claimed(<<>>, claimed) /\ Claimed(<<First>>, claimed)
    BY ClaimedEmpty, ClaimedOne DEF First
  <1>6. LogsClaimed(claimed)
    BY <1>4, <1>5 DEF LogsClaimed
  <1> QED
    BY <1>2, <1>3, <1>6 DEF GhostInv

\* A step that leaves the log alone and records what it drops keeps the account.
LEMMA Recorded ==
    ASSUME core'.log = core.log, UNCHANGED <<claimed, session>>, Accounted,
           stray \in BOOLEAN,
           \/ core'.pending = core.pending /\ stray' = stray
           \/ stray' = (stray \/ Unsent)
    PROVE  Accounted'
  <1> DEFINE ws == WorkspaceOf(core.log)
  <1>1. WorkspaceOf(core'.log) = ws
    OBVIOUS
  <1>2. ASSUME ws # None, ws.by = "me", ws \notin claimed
        PROVE  (Pends(ws) \/ Makes(ws) \/ stray)'
    <2>1. Pends(ws) \/ Makes(ws) \/ stray
      BY <1>2 DEF Accounted
    <2>2. CASE Makes(ws)
      BY <2>2 DEF Makes
    <2>3. CASE stray
      BY <2>3
    <2>4. CASE Pends(ws) /\ ~Makes(ws) /\ core'.pending = core.pending
      BY <2>4 DEF Pends
    <2>5. CASE Pends(ws) /\ ~Makes(ws) /\ stray' = (stray \/ Unsent)
      BY <1>2, <2>5, Unpending
    <2> QED
      BY <2>1, <2>2, <2>3, <2>4, <2>5
  <1> QED
    BY <1>1, <1>2 DEF Accounted

\* Commands keep the session, and the relays but for a new one that has the log
\* on disk.
LEMMA CommandSession ==
    ASSUME AnyStop \/ AnyCommand \/ \E j \in Starter : Start(j)
    PROVE  UNCHANGED session
  <1>1. CASE AnyStop
    BY <1>1 DEF AnyStop, StopHosting, RestartHosting, ResetOnboarding, Stop
  <1>2. CASE AnyCommand
    BY <1>2
    DEF AnyCommand, HostWorkspace, Restarted, Hosted, ConfigureServer, JoinWorkspace, Reset,
        CreateWorkspace, JoinByLink, SwitchSync, OpenPage, SavePage
  <1>3. CASE \E j \in Starter : Start(j)
    BY <1>3 DEF Start, StartReads, StartKeeps, StartBinds, StartFails, Started
  <1> QED
    BY <1>1, <1>2, <1>3

LEMMA GhostStart ==
    ASSUME HostTypes, HostTypes', GhostInv, NEW j \in Starter, Start(j)
    PROVE  GhostInv'
  <1>1. UNCHANGED <<session, claimed, stray>>
    BY DEF Start, StartReads, StartKeeps, StartBinds, StartFails, Started, past
  <1>2. core'.log = core.log /\ core'.pending = core.pending
    BY DEF Start, StartReads, StartKeeps, StartBinds, StartFails, Started, appVars, HostTypes,
           AppOK, CoreType
  <1>3. Accounted'
    BY <1>1, <1>2, Recorded DEF GhostInv, HostTypes, PastOK
  <1>4. LogsClaimed(claimed)'
    <2>1. LogsClaimed(claimed) /\ Len(relays) \in Nat
      BY ExtThere DEF GhostInv
    <2>2. disk'.ext = disk.ext /\ disk'.own = disk.own
      BY DiskStart
    <2>3. \A i \in 1 .. Len(relays') : Claimed(relays'[i].log, claimed)
      <3>1. CASE UNCHANGED relays
        BY <2>1, <3>1 DEF LogsClaimed
      <3>2. CASE /\ Len(relays') = Len(relays) + 1
                 /\ \A i \in 1 .. Len(relays) : relays'[i] = relays[i]
                 /\ relays'[Len(relays')].log = disk.own
        BY <2>1, <3>2 DEF LogsClaimed
      <3> QED
        BY <3>1, <3>2, DiskStart
    <2> QED
      BY <1>1, <2>1, <2>2, <2>3 DEF LogsClaimed
  <1>5. SessionClaimed(claimed)'
    BY <1>1 DEF GhostInv, SessionClaimed
  <1> QED
    BY <1>3, <1>4, <1>5 DEF GhostInv

LEMMA GhostCommand ==
    ASSUME HostTypes, HostTypes', GhostInv, AnyStop \/ AnyCommand
    PROVE  GhostInv'
  <1>1. UNCHANGED session /\ Offline
    BY CommandSession, StopEffect, CommandEffect
  <1>2. LogsClaimed(claimed)' /\ SessionClaimed(claimed)'
    BY <1>1 DEF GhostInv, Offline, LogsClaimed, SessionClaimed
  <1>3. core \in CoreType /\ core' \in CoreType /\ stray \in BOOLEAN /\ Accounted
    BY DEF GhostInv, HostTypes, AppOK, PastOK
  <1>4. ASSUME NEW n \in Nat, NEW t \in Nat, core'.log = <<Mine("create", n)>>,
               core'.pending = [claims |-> Mine("create", n), token |-> t]
        PROVE  Accounted'
    <2> DEFINE ws == Mine("create", n)
    <2>1. WorkspaceOf(core'.log) = ws
      BY <1>4 DEF WorkspaceOf, Mine
    <2>2. ws \in Entry
      BY <1>4, MineOK
    <2> HIDE DEF ws
    <2>3. [claims |-> ws, token |-> t] \in Pending
      BY <1>4, <2>2 DEF Pending
    <2>4. core'.pending # None /\ core'.pending.claims = ws
      BY <1>4, <2>3, NoneAssumption DEF ws
    <2> QED
      BY <2>1, <2>4 DEF Accounted, Pends
  <1>5. Asked \in Nat /\ Asked + 1 \in Nat /\ used.host + SetupToken \in Nat
        /\ {SetupToken, 0} \subseteq Nat
    BY AskedOK DEF HostTypes, PastOK, Count, SetupToken
  <1>6. Accounted'
    <2>1. CASE core'.log = core.log /\ core'.pending = core.pending /\ UNCHANGED stray
      BY <1>1, <1>3, <2>1, Recorded DEF Offline
    <2>2. CASE Hosted
      <3>1. CASE core' = core
        BY <2>1, <2>2, <3>1 DEF Hosted
      <3> DEFINE ws == Mine("create", Asked)
                 p == [claims |-> ws, token |-> used.host + SetupToken]
      <3>2. CASE core' = [core EXCEPT !.log = <<ws>>, !.key = ws, !.pending = p]
        <4>1. core'.log = <<ws>> /\ core'.pending = p
          BY <1>3, <3>2 DEF CoreType
        <4> QED
          BY <1>4, <1>5, <4>1
      <3> QED
        BY <2>2, <3>1, <3>2 DEF Hosted
    <2>3. CASE CreateWorkspace
      <3> DEFINE ws == Mine("create", Asked + 1)
      <3>1. PICK t \in {SetupToken, 0} :
               core' = [core EXCEPT !.log = <<ws>>, !.key = ws, !.joining = TRUE,
                                    !.pending = [claims |-> ws, token |-> t]]
        BY <2>3 DEF CreateWorkspace
      <3>2. core'.log = <<ws>> /\ core'.pending = [claims |-> ws, token |-> t]
        BY <1>3, <3>1 DEF CoreType
      <3> QED
        BY <1>4, <1>5, <3>2
    <2>4. CASE JoinWorkspace \/ JoinByLink \/ Reset
      <3>1. core'.log = core.log /\ stray' = (stray \/ Unsent)
        BY <1>3, <2>4 DEF JoinWorkspace, JoinByLink, Reset, ToJoin, CoreType
      <3> QED
        BY <1>1, <1>3, <3>1, Recorded DEF Offline
    <2>5. CASE AnyStop
      <3>1. core' = [core EXCEPT !.hosting = FALSE] /\ UNCHANGED past
        BY <2>5 DEF AnyStop, StopHosting, RestartHosting, ResetOnboarding, Stop, Stopped
      <3> QED
        BY <1>3, <2>1, <3>1 DEF CoreType, past
    <2>6. CASE HostWorkspace \/ Restarted \/ ConfigureServer \/ SwitchSync \/ OpenPage \/ SavePage
      <3>1. UNCHANGED <<core, stray>>
        BY <2>6 DEF HostWorkspace, Restarted, ConfigureServer, SwitchSync, OpenPage, SavePage,
                    appVars, past
      <3> QED
        BY <2>1, <3>1
    <2> QED
      BY <2>2, <2>3, <2>4, <2>5, <2>6 DEF AnyCommand
  <1> QED
    BY <1>2, <1>6 DEF GhostInv

\* The worker drops what is pending when it is greeted or when a claim or join
\* has failed, and records what it drops.
LEMMA GhostWorker ==
    ASSUME HostTypes, HostTypes', GhostInv, Worker
    PROVE  GhostInv'
  <1>1. Offline /\ core \in CoreType /\ session \in SessionType /\ stray \in BOOLEAN
    BY WorkerEffect DEF HostTypes, AppOK, SessionOK, PastOK
  <1>2. Accounted /\ LogsClaimed(claimed) /\ SessionClaimed(claimed)
    BY DEF GhostInv
  <1>3. LogsClaimed(claimed)'
    BY <1>1, <1>2 DEF Offline, LogsClaimed
  <1>4. UNCHANGED claimed
    BY <1>1 DEF Offline
  <1>5. ASSUME session.phase \notin Claiming, core'.log = core.log,
               \/ core'.pending = core.pending /\ stray' = stray
               \/ stray' = (stray \/ Unsent)
        PROVE  Accounted'
    <2> DEFINE ws == WorkspaceOf(core.log)
    <2>1. ASSUME ws # None, ws.by = "me", ws \notin claimed
          PROVE  (core'.pending # None /\ core'.pending.claims = ws) \/ stray'
      <3>1. Pends(ws) \/ stray
        BY <1>2, <1>5, <2>1 DEF Accounted, Makes
      <3>2. Pends(ws) => Unsent
        BY <1>5, <2>1, Unpending DEF Makes
      <3>3. stray => stray'
        BY <1>5
      <3>4. CASE core'.pending = core.pending /\ stray' = stray
        BY <3>1, <3>4 DEF Pends
      <3>5. CASE stray' = (stray \/ Unsent)
        <4>1. stray \/ Unsent
          BY <3>1, <3>2
        <4>2. stray'
          BY <3>5, <4>1
        <4> QED
          BY <4>2
      <3> QED
        BY <1>5, <3>4, <3>5
    <2> QED
      BY <1>4, <1>5, <2>1 DEF Accounted, Pends
  <1>6. CASE Turn \/ Woken \/ Again
    <2>1. /\ session.phase \notin Claiming /\ UNCHANGED <<core, stray>>
          /\ session'.phase # "claimed"
          /\ session'.draft \in {session.draft, <<>>} /\ session'.inbox \in {session.inbox, <<>>}
      BY <1>1, <1>6 DEF Turn, Woken, Again, Claiming, appVars, past, NoSession, SessionType
    <2>2. SessionClaimed(claimed)'
      BY <1>2, <1>4, <2>1, ClaimedEmpty DEF SessionClaimed
    <2> QED
      BY <1>3, <1>5, <2>1, <2>2 DEF GhostInv
  <1>7. CASE TakePending
    <2>1. /\ session.phase = "open" /\ UNCHANGED <<core, stray>>
          /\ session'.copy = core.pending
          /\ session'.phase = IF core.pending = None THEN "hello"
                              ELSE IF core.pending.claims = None THEN "fetch" ELSE "claim"
          /\ session'.draft = session.draft /\ session'.inbox = session.inbox
      BY <1>1, <1>7 DEF TakePending, appVars, past, SessionType
    <2>2. SessionClaimed(claimed)'
      BY <1>2, <1>4, <2>1 DEF SessionClaimed
    <2>3. Accounted'
      BY <1>5, <2>1 DEF Claiming
    <2> QED
      BY <1>3, <2>2, <2>3 DEF GhostInv
  <1>8. CASE ClaimFails
    <2>1. core'.log = <<>> /\ session' = NoSession
      BY <1>1, <1>8 DEF ClaimFails, FailOnboarding, Fail, CoreType
    <2>2. Accounted'
      BY <2>1, ClaimedEmpty DEF Accounted
    <2>3. SessionClaimed(claimed)'
      BY <2>1, ClaimedEmpty DEF SessionClaimed, NoSession
    <2> QED
      BY <1>3, <2>2, <2>3 DEF GhostInv
  <1>9. CASE GuestFails
    <2>1. /\ core'.log = core.log /\ session' = NoSession /\ session.phase \notin Claiming
          /\ stray' = (stray \/ Unsent)
      BY <1>1, <1>9 DEF GuestFails, FailOnboarding, Fail, CoreType, Claiming
    <2>2. SessionClaimed(claimed)'
      BY <2>1, ClaimedEmpty DEF SessionClaimed, NoSession
    <2> QED
      BY <1>3, <1>5, <2>1, <2>2 DEF GhostInv
  <1>10. CASE ClaimAcked
    <2>1. /\ core'.log = core.log /\ stray' = (stray \/ Unsent) /\ session.phase = "claimed"
          /\ session'.phase = "hello"
          /\ session'.draft = session.draft /\ session'.inbox = session.inbox
      BY <1>1, <1>10 DEF ClaimAcked, CoreType, SessionType
    <2>2. SessionClaimed(claimed)'
      BY <1>2, <1>4, <2>1 DEF SessionClaimed
    <2>3. ASSUME NEW ws, ws = WorkspaceOf(core.log), ws # None, ws.by = "me", ws \notin claimed
          PROVE  stray'
      <3>1. ~Makes(ws)
        BY <1>2, <2>1, <2>3 DEF Makes, SessionClaimed
      <3>2. Pends(ws) \/ stray
        BY <1>2, <2>3, <3>1 DEF Accounted
      <3> QED
        BY <2>1, <2>3, <3>1, <3>2, Unpending
    <2>4. Accounted'
      BY <1>4, <2>1, <2>3 DEF Accounted
    <2> QED
      BY <1>3, <2>2, <2>4 DEF GhostInv
  <1>11. CASE GuestGetsLog
    <2>1. /\ session.phase = "fetch" /\ UNCHANGED <<core, stray>>
          /\ session'.phase = "add" /\ session'.draft = relays[Ext].log
          /\ session'.inbox = session.inbox
      BY <1>1, <1>11 DEF GuestGetsLog, appVars, past, SessionType
    <2>2. SessionClaimed(claimed)'
      BY <1>2, <1>4, <2>1, ExtThere DEF SessionClaimed, LogsClaimed
    <2> QED
      BY <1>3, <1>5, <2>1, <2>2 DEF GhostInv, Claiming
  <1>12. CASE GuestJoined
    <2>1. /\ core'.log = Append(session.draft, Mine("add", Asked)) /\ UNCHANGED stray
          /\ session'.phase = "hello"
          /\ session'.draft = session.draft /\ session'.inbox = session.inbox
      BY <1>1, <1>12 DEF GuestJoined, past, CoreType, SessionType
    <2>2. SessionClaimed(claimed)'
      BY <1>2, <1>4, <2>1 DEF SessionClaimed
    <2>3. Mine("add", Asked) \in Entry /\ Mine("add", Asked).kind # "create"
      BY MineOK, AskedOK DEF HostTypes, Mine
    <2>4. Claimed(core'.log, claimed)
      BY <1>1, <1>2, <2>1, <2>3, ClaimedLogs DEF SessionType, SessionClaimed
    <2>5. Accounted'
      <3>1. core'.log \in Log
        BY DEF HostTypes, AppOK, CoreType
      <3> QED
        BY <1>4, <2>4, <3>1, ClaimedLogs DEF Accounted
    <2> QED
      BY <1>3, <2>2, <2>5 DEF GhostInv
  <1>13. CASE SayHello
    <2> DEFINE log == relays[session.relay].log
               tail == SubSeq(log, Len(core.log) + 1, Len(log))
               m == [type |-> "welcome", entries |-> tail]
    <2>1. /\ session.phase = "hello" /\ UNCHANGED <<core, stray>>
          /\ session'.phase = "greet" /\ session'.draft = session.draft
          /\ session'.inbox \in {session.inbox, Append(session.inbox, m)}
      BY <1>1, <1>13 DEF SayHello, appVars, past, SessionType
    <2>2. Claimed(tail, claimed)
      <3>1. session.relay \in 1 .. Len(relays)
        BY <1>13, ExtThere DEF SayHello, HostTypes, SessionOK, Linked
      <3>2. relays[session.relay] \in Relay
        BY <3>1, ElementOfSeq DEF HostTypes, RelaysOK
      <3>3. log \in Log /\ Claimed(log, claimed)
        BY <1>2, <3>1, <3>2 DEF Relay, Log, LogsClaimed
      <3>4. Len(log) \in Int /\ Len(core.log) + 1 \in Int /\ Len(core.log) + 1 >= 1
        BY <1>1, <3>3, LenProperties DEF CoreType, Log
      <3> HIDE DEF log
      <3> QED
        BY <3>3, <3>4, ClaimedLogs
    <2>3. \A p \in 1 .. Len(session'.inbox) : Claimed(session'.inbox[p].entries, claimed)
      <3>1. session.inbox \in Seq(Message) /\ session'.inbox \in Seq(Message)
        BY <1>1 DEF SessionType, HostTypes, SessionOK
      <3>2. m.entries = tail
        OBVIOUS
      <3> HIDE DEF m, tail
      <3>3. /\ Len(Append(session.inbox, m)) = Len(session.inbox) + 1
            /\ Append(session.inbox, m)[Len(session.inbox) + 1] = m
            /\ \A p \in 1 .. Len(session.inbox) : Append(session.inbox, m)[p] = session.inbox[p]
            /\ Len(session.inbox) \in Nat
        BY <3>1, LenProperties
      <3>4. \A p \in 1 .. Len(session.inbox) : Claimed(session.inbox[p].entries, claimed)
        BY <1>2 DEF SessionClaimed
      <3>5. CASE session'.inbox = session.inbox
        BY <3>4, <3>5
      <3>6. CASE session'.inbox = Append(session.inbox, m)
        <4>1. ASSUME NEW p \in 1 .. Len(session.inbox) + 1
              PROVE  Claimed(Append(session.inbox, m)[p].entries, claimed)
          <5>1. CASE p = Len(session.inbox) + 1
            BY <2>2, <3>2, <3>3, <5>1
          <5>2. CASE p # Len(session.inbox) + 1
            <6>1. p \in 1 .. Len(session.inbox)
              BY <3>3, <5>2
            <6> QED
              BY <3>3, <3>4, <6>1
          <5> QED
            BY <5>1, <5>2
        <4> QED
          BY <3>3, <3>6, <4>1
      <3> QED
        BY <2>1, <3>5, <3>6
    <2>4. SessionClaimed(claimed)'
      BY <1>2, <1>4, <2>1, <2>3 DEF SessionClaimed
    <2> QED
      BY <1>3, <1>5, <2>1, <2>4 DEF GhostInv, Claiming
  <1>14. CASE Greet
    <2>1. /\ core'.log = core.log /\ stray' = (stray \/ Unsent) /\ session.phase = "greet"
          /\ session'.phase = "online"
          /\ session'.draft = session.draft /\ session'.inbox = session.inbox
      BY <1>1, <1>14 DEF Greet, CoreType, SessionType
    <2>2. SessionClaimed(claimed)'
      BY <1>2, <1>4, <2>1 DEF SessionClaimed
    <2> QED
      BY <1>3, <1>5, <2>1, <2>2 DEF GhostInv, Claiming
  <1>15. CASE Hear
    <2> DEFINE m == Head(session.inbox)
    <2>1. /\ core'.log \in {core.log, m.entries, core.log \o m.entries}
          /\ session.inbox # <<>> /\ session'.inbox = Tail(session.inbox)
          /\ session.phase = "online" /\ session'.phase = "online"
          /\ session'.draft = session.draft /\ core'.pending = core.pending /\ UNCHANGED stray
      BY <1>1, <1>15 DEF Hear, CoreType, SessionType, past
    <2>2. session.inbox \in Seq(Message)
      BY <1>1 DEF SessionType
    <2>3. /\ m = session.inbox[1] /\ 1 \in 1 .. Len(session.inbox) /\ m \in Message
          /\ Len(Tail(session.inbox)) = Len(session.inbox) - 1 /\ Len(session.inbox) \in Nat
          /\ \A p \in 1 .. Len(Tail(session.inbox)) : Tail(session.inbox)[p] = session.inbox[p + 1]
      BY <2>1, <2>2, HeadTailProperties, EmptySeq, LenProperties
    <2>4. Claimed(m.entries, claimed) /\ m.entries \in Log
      BY <1>2, <2>3 DEF SessionClaimed, Message
    <2>5. SessionClaimed(claimed)'
      <3>1. \A p \in 1 .. Len(Tail(session.inbox)) : p + 1 \in 1 .. Len(session.inbox)
        BY <2>3
      <3> QED
        BY <1>2, <1>4, <2>1, <2>3, <3>1 DEF SessionClaimed
    <2> HIDE DEF m
    <2>6. WorkspaceOf(core'.log) \in {WorkspaceOf(core.log), WorkspaceOf(m.entries)}
      BY <1>1, <2>1, <2>4, ClaimedConcat DEF CoreType
    <2>7. WorkspaceOf(m.entries) # None /\ WorkspaceOf(m.entries).by = "me"
             => WorkspaceOf(m.entries) \in claimed
      BY <2>4, ClaimedLogs
    <2>8. Accounted'
      BY <1>2, <1>4, <2>1, <2>6, <2>7 DEF Accounted, Pends, Makes, Claiming
    <2> QED
      BY <1>3, <2>5, <2>8 DEF GhostInv
  <1>16. CASE EndSession
    <2>1. /\ core'.log = core.log /\ core'.pending = core.pending /\ UNCHANGED stray
          /\ session.phase = "online" /\ session' = NoSession
      BY <1>1, <1>16 DEF EndSession, CoreType, past
    <2>2. SessionClaimed(claimed)'
      BY <2>1, ClaimedEmpty DEF SessionClaimed, NoSession
    <2> QED
      BY <1>3, <1>5, <2>1, <2>2 DEF GhostInv, Claiming
  <1> QED
    BY <1>6, <1>7, <1>8, <1>9, <1>10, <1>11, <1>12, <1>13, <1>14, <1>15, <1>16 DEF Worker

\* The relays: what they take into their logs is claimed, or made by others.
LEMMA GhostOthers ==
    ASSUME HostTypes, HostTypes', GhostInv, Others, ~RestartApp
    PROVE  GhostInv'
  <1>1. UNCHANGED <<core, stray>>
    BY DEF Others, Connect, ConnectFails, RelayClaims, RelayAdds, PeerConnects, PeerLeaves,
           OthersAppend, OthersClaim, Break, RestartRelay, appVars, past
  <1>2. Accounted /\ LogsClaimed(claimed) /\ SessionClaimed(claimed) /\ session \in SessionType
    BY DEF GhostInv, HostTypes, SessionOK
  <1>3. claimed \subseteq claimed'
    BY DEF Others, Connect, ConnectFails, RelayClaims, RelayAdds, PeerConnects, PeerLeaves,
           OthersAppend, OthersClaim, Break, RestartRelay, past
  <1>4. \A i \in 1 .. Len(relays) : relays[i].log \in Log
    <2>1. \A i \in 1 .. Len(relays) : relays[i] \in Relay
      BY ElementOfSeq DEF HostTypes, RelaysOK
    <2> QED
      BY <2>1 DEF Relay, Log
  <1>5. disk.ext \in Log /\ disk.own \in Log
    BY DEF HostTypes, DiskOK, DiskType
  <1>6. LogsClaimed(claimed')
    BY <1>2, <1>3, <1>4, <1>5, ClaimedLogs DEF LogsClaimed
  <1>7. LogsClaimed(claimed)'
    <2>1. CASE UNCHANGED <<relays, disk>>
      BY <1>6, <2>1 DEF LogsClaimed
    <2>2. CASE RestartRelay /\ UNCHANGED disk
      BY <1>6, <2>2, RestartRelayEffect DEF LogsClaimed
    <2>3. CASE \E i \in 1 .. Len(relays), log \in Log : Writes(i, log) /\ NewLog(i, log)
      <3>1. PICK i \in 1 .. Len(relays), log \in Log : Writes(i, log) /\ NewLog(i, log)
        BY <2>3
      <3>2. Claimed(log, claimed')
        <4>1. CASE \E e \in Entry : e.kind # "create" /\ log = Append(relays[i].log, e)
          BY <1>4, <1>6, <4>1, ClaimedLogs DEF LogsClaimed
        <4>2. CASE log = <<First>>
          BY <4>2, ClaimedOne DEF First
        <4>3. CASE log = <<session.copy.claims>> /\ session.copy.claims \in claimed'
          BY <4>3, ClaimedOne
        <4> QED
          BY <3>1, <4>1, <4>2, <4>3 DEF NewLog
      <3>3. \A k \in 1 .. Len(relays') : Claimed(relays'[k].log, claimed')
        BY <1>6, <3>1, <3>2 DEF Writes, LogsClaimed
      <3>4. disk'.ext \in {log, disk.ext, <<>>} /\ disk'.own \in {log, disk.own, <<>>}
        BY <3>1 DEF Writes
      <3>5. Claimed(disk'.ext, claimed') /\ Claimed(disk'.own, claimed')
        BY <1>6, <3>2, <3>4, ClaimedEmpty DEF LogsClaimed
      <3> QED
        BY <3>3, <3>5 DEF LogsClaimed
    <2> QED
      BY <2>1, <2>2, <2>3, OthersLog
  <1>8. SessionClaimed(claimed')
    <2>1. \A p \in 1 .. Len(session.inbox) : session.inbox[p].entries \in Log
      <3>1. \A p \in 1 .. Len(session.inbox) : session.inbox[p] \in Message
        BY <1>2 DEF SessionType
      <3> QED
        BY <3>1 DEF Message
    <2> QED
      BY <1>2, <1>3, <2>1, ClaimedLogs DEF SessionClaimed, SessionType
  <1>9. ASSUME session'.draft = session.draft \/ session'.draft = <<>>,
               session'.inbox = session.inbox \/ session'.inbox = <<>>,
               session'.phase = "claimed" => session'.copy.claims \in claimed'
        PROVE  SessionClaimed(claimed)'
    BY <1>8, <1>9, ClaimedEmpty DEF SessionClaimed
  <1>10. ASSUME session'.phase = session.phase, session'.copy = session.copy
         PROVE  Accounted'
    BY <1>1, <1>2, <1>3, <1>10 DEF Accounted, Pends, Makes
  <1>11. CASE RelayClaims
    <2>1. /\ session'.draft = session.draft /\ session'.inbox = session.inbox
          /\ session'.copy = session.copy
          /\ session.phase = "claim" /\ session'.phase \in {"claimed", "refused"}
          /\ session'.phase = "claimed" => session.copy.claims \in claimed'
      BY <1>2, <1>11 DEF RelayClaims, SessionType
    <2>2. SessionClaimed(claimed)'
      BY <1>9, <2>1
    <2>3. Accounted'
      BY <1>1, <1>2, <1>3, <2>1 DEF Accounted, Pends, Makes, Claiming
    <2> QED
      BY <1>7, <2>2, <2>3 DEF GhostInv
  <1>12. CASE ~RelayClaims /\ UNCHANGED session
    BY <1>7, <1>8, <1>9, <1>10, <1>12 DEF GhostInv, SessionClaimed
  <1>13. CASE Break \/ RestartRelay
    <2>1. /\ session'.draft = session.draft /\ session'.inbox = session.inbox
          /\ session'.copy = session.copy /\ session'.phase = session.phase
      BY <1>2, <1>13 DEF Break, RestartRelay, SessionType
    <2>2. SessionClaimed(claimed)'
      BY <1>8, <1>9, <2>1 DEF SessionClaimed
    <2> QED
      BY <1>7, <1>10, <2>1, <2>2 DEF GhostInv
  <1>14. CASE Connect \/ ConnectFails \/ RelayAdds
    <2>1. /\ session.phase \in {"dial", "add"} /\ session'.phase \in {"open", "down", "added"}
          /\ session'.draft \in {session.draft, <<>>} /\ session'.inbox \in {session.inbox, <<>>}
      <3>1. CASE Connect
        BY <1>2, <3>1 DEF Connect, SessionType
      <3>2. CASE ConnectFails
        BY <3>2 DEF ConnectFails, NoSession
      <3>3. CASE RelayAdds
        BY <1>2, <3>3 DEF RelayAdds, SessionType
      <3> QED
        BY <1>14, <3>1, <3>2, <3>3
    <2>2. SessionClaimed(claimed)'
      BY <1>9, <2>1
    <2>3. Accounted'
      BY <1>1, <1>2, <1>3, <2>1 DEF Accounted, Pends, Makes, Claiming
    <2> QED
      BY <1>7, <2>2, <2>3 DEF GhostInv
  <1>15. CASE \E i \in {Ext, peer} : OthersAppend(i)
    <2>1. PICK i \in {Ext, peer} : OthersAppend(i)
      BY <1>15
    <2> DEFINE e == [kind |-> "other", by |-> "they", n |-> used.entry + 1]
               m == [type |-> "appended", entries |-> <<e>>]
    <2>2. /\ session'.draft = session.draft /\ session'.copy = session.copy
          /\ session'.phase = session.phase
          /\ session'.inbox \in {session.inbox, Append(session.inbox, m)}
      BY <1>2, <2>1 DEF OthersAppend, SessionType
    <2>3. Claimed(m.entries, claimed')
      BY ClaimedOne
    <2> HIDE DEF m
    <2>4. \A p \in 1 .. Len(session'.inbox) : Claimed(session'.inbox[p].entries, claimed')
      <3>1. session.inbox \in Seq(Message)
        BY <1>2 DEF SessionType
      <3>2. /\ Len(Append(session.inbox, m)) = Len(session.inbox) + 1
            /\ Append(session.inbox, m)[Len(session.inbox) + 1] = m
            /\ \A p \in 1 .. Len(session.inbox) : Append(session.inbox, m)[p] = session.inbox[p]
            /\ Len(session.inbox) \in Nat
        BY <3>1, AppendAny
      <3>3. session'.inbox = session.inbox \/ session'.inbox = Append(session.inbox, m)
        BY <2>2
      <3>4. \A p \in 1 .. Len(session.inbox) : Claimed(session.inbox[p].entries, claimed')
        BY <1>8 DEF SessionClaimed
      <3>5. CASE session'.inbox = session.inbox
        BY <3>4, <3>5
      <3>6. CASE session'.inbox = Append(session.inbox, m)
        <4> TAKE p \in 1 .. Len(session'.inbox)
        <4>1. p \in 1 .. Len(session.inbox) \/ p = Len(session.inbox) + 1
          BY <3>2, <3>6
        <4>2. CASE p \in 1 .. Len(session.inbox)
          BY <3>2, <3>4, <3>6, <4>2
        <4>3. CASE p = Len(session.inbox) + 1
          BY <2>3, <3>2, <3>6, <4>3
        <4> QED
          BY <4>1, <4>2, <4>3
      <3> QED
        BY <3>3, <3>5, <3>6
    <2>5. SessionClaimed(claimed)'
      BY <1>8, <2>2, <2>4 DEF SessionClaimed
    <2> QED
      BY <1>7, <1>10, <2>2, <2>5 DEF GhostInv
  <1> QED
    BY <1>11, <1>12, <1>13, <1>14, <1>15 DEF Others, PeerConnects, PeerLeaves, OthersClaim

LEMMA GhostRestart ==
    ASSUME HostTypes, HostTypes', GhostInv, RestartApp
    PROVE  GhostInv'
  <1>1. /\ core'.log = <<>> /\ UNCHANGED <<disk, claimed>> /\ relays' = <<relays[Ext]>>
        /\ session' = [NoSession EXCEPT !.phase = "loop"]
    BY DEF RestartApp
  <1>2. session'.draft = <<>> /\ session'.inbox = <<>> /\ session'.phase = "loop"
    BY <1>1 DEF NoSession
  <1>3. Accounted' /\ SessionClaimed(claimed)'
    BY <1>1, <1>2, ClaimedEmpty DEF Accounted, SessionClaimed
  <1>4. LogsClaimed(claimed)'
    BY <1>1, ExtThere DEF GhostInv, LogsClaimed
  <1> QED
    BY <1>3, <1>4 DEF GhostInv

LEMMA GhostStep == HostTypes /\ HostTypes' /\ GhostInv /\ [HostNext]_hostVars => GhostInv'
  <1> SUFFICES ASSUME HostTypes, HostTypes', GhostInv, [HostNext]_hostVars
               PROVE  GhostInv'
    OBVIOUS
  <1>1. CASE UNCHANGED hostVars
    <2>1. UNCHANGED <<core, session, relays, disk, claimed, stray>>
      BY <1>1 DEF hostVars, appVars, relayVars, past
    <2> QED
      BY <2>1 DEF GhostInv, Accounted, Pends, Makes, LogsClaimed, SessionClaimed
  <1> QED
    BY <1>1, StepKinds, GhostStart, GhostCommand, GhostWorker, GhostOthers, GhostRestart

LEMMA GhostInvariant == HostSpec => []GhostInv
  BY TypesInvariant, GhostInit, GhostStep, PTL DEF HostSpec

\* A workspace that this device made and that it shows is one that a relay has
\* taken, or its claim is pending or being made, unless a join, a reset or the
\* greeting of an older session dropped it: no failure in between leaves the app
\* with a workspace that exists nowhere (claim_workspace, fail_onboarding).
THEOREM NoGhostWorkspaceAlways == HostSpec => []NoGhostWorkspace
  <1>1. GhostInv => NoGhostWorkspace
    BY DEF GhostInv, Accounted, Pends, Makes, NoGhostWorkspace
  <1> QED
    BY <1>1, GhostInvariant, PTL

-----------------------------------------------------------------------------
(* Sessions and the relay the settings name.                               *)

\* Somebody has woken the worker or will yet, or the settings were reset.
Due ==
    \/ permit
    \/ \E j \in {"host", "restart"} : jobs[j].step \in {"bound", "rest"}
    \/ settings.addr = None /\ used.reset > 0

\* The relay of a session is the one its address stands for, or was until the
\* relay here was stopped.
AtHome ==
    \/ settings.addr = "own" /\ listener = 0
    \/ settings.addr # None /\ session.relay = Answers(settings.addr)

Guided ==
    used.file = 0 =>
        /\ session.phase = "dial" => Due \/ session.target = settings.addr
        /\ session.phase \in Linked /\ session.up => Due \/ AtHome

Ready ==
    /\ jobs["startup"].step # "idle" => session.phase = "loop"
    /\ jobs["reset"].step = "rest" => used.reset > 0
    /\ session.phase = "dial" => session.target # None

OnlineInv == Ready /\ Guided

LEMMA OnlineInit == HostInit => OnlineInv
  <1> SUFFICES ASSUME HostInit
               PROVE  OnlineInv
    OBVIOUS
  <1>1. session.phase = "loop" /\ jobs = [j \in Job |-> [step |-> "idle", id |-> 0]]
    BY DEF HostInit, NoSession
  <1> QED
    BY <1>1 DEF OnlineInv, Ready, Guided, Linked, Claiming, Joining, Job

\* A worker that has been asked to turn, or has no relay to turn to, may be where
\* it is.
LEMMA GuidedByDue ==
    ASSUME Due'
    PROVE  Guided'
  BY DEF Guided

\* A step that leaves the session and the address alone, and takes no reason to
\* turn away.
LEMMA GuidedKept ==
    ASSUME HostTypes, HostTypes', Guided, [HostNext]_hostVars,
           settings'.addr = settings.addr, listener' \in {listener, 0},
           session'.phase = session.phase, session'.target = session.target,
           session'.relay = session.relay, session'.up => session.up,
           Due => Due'
    PROVE  Guided'
  <1>1. AtHome => AtHome'
    BY DEF AtHome, Answers
  <1> QED
    BY <1>1, FilesCounted DEF Guided

LEMMA ResetCounted ==
    ASSUME HostTypes, HostTypes', [HostNext]_hostVars
    PROVE  used.reset > 0 => used'.reset > 0
  <1>1. used'.reset \in Nat /\ used.reset \in Nat /\ used'.reset >= used.reset
    BY CountsGrow DEF HostTypes, PastOK, Count
  <1> QED
    BY <1>1

LEMMA OnlineStart ==
    ASSUME HostTypes, HostTypes', [HostNext]_hostVars, OnlineInv, NEW j \in Starter, Start(j)
    PROVE  OnlineInv'
  <1>1. UNCHANGED <<session, permit>> /\ jobs \in JobsType /\ j \in Job
    BY DEF Start, StartReads, StartKeeps, StartBinds, StartFails, Started, appVars, HostTypes,
           JobsOK, Starter, Job
  <1>2. jobs[j].step \in {"asked", "signing", "bind", "bound"}
    BY DEF Start, StartReads, StartKeeps, StartBinds, StartFails, Started
  <1>3. \A k \in Job : k # j => jobs'[k] = jobs[k]
    BY <1>1 DEF Start, StartReads, StartKeeps, StartBinds, StartFails, Started, Goes, JobsType
  <1>4. Ready'
    <2>1. jobs'["startup"].step # "idle" => jobs["startup"].step # "idle"
      BY <1>2, <1>3 DEF Job
    <2>2. jobs'["reset"] = jobs["reset"]
      BY <1>3 DEF Job, Starter
    <2> QED
      BY <1>1, <2>1, <2>2, ResetCounted DEF OnlineInv, Ready
  <1>5. CASE j = "startup"
    <2>1. session'.phase = "loop"
      BY <1>1, <1>2, <1>5 DEF OnlineInv, Ready
    <2> QED
      BY <1>4, <2>1 DEF OnlineInv, Guided, Linked, Claiming, Joining
  <1>6. CASE j # "startup" /\ (StartBinds(j) \/ Started(j))
    <2>1. jobs'[j].step \in {"bound", "rest"}
      BY <1>1, <1>6 DEF StartBinds, Started, Goes, Done, JobsType
    <2>2. Due'
      BY <1>6, <2>1 DEF Due, Starter
    <2> QED
      BY <1>4, <2>2, GuidedByDue DEF OnlineInv
  <1>7. CASE StartReads(j) \/ StartKeeps(j) \/ StartFails(j)
    <2>1. UNCHANGED <<settings, listener>>
      BY <1>7 DEF StartReads, StartKeeps, StartFails, appVars, relayVars
    <2>2. jobs[j].step \notin {"bound", "rest"}
      BY <1>7 DEF StartReads, StartKeeps, StartFails
    <2>3. Due => Due'
      BY <1>1, <1>3, <2>1, <2>2, ResetCounted DEF Due, Job
    <2>4. Guided'
      BY <1>1, <2>1, <2>3, GuidedKept DEF OnlineInv
    <2> QED
      BY <1>4, <2>4 DEF OnlineInv
  <1> QED
    BY <1>5, <1>6, <1>7 DEF Start

LEMMA OnlineCommand ==
    ASSUME HostTypes, HostTypes', [HostNext]_hostVars, OnlineInv, AnyStop \/ AnyCommand
    PROVE  OnlineInv'
  <1>1. UNCHANGED session /\ jobs \in JobsType /\ settings \in SetUp
    BY CommandSession DEF HostTypes, JobsOK, AppOK
  <1>2. used \in [Count -> Nat] /\ used' \in [Count -> Nat]
    BY DEF HostTypes, PastOK
  <1>3. used.reset > 0 => used'.reset > 0
    BY ResetCounted
  <1>4. Ready'
    <2> USE DEF AnyStop, AnyCommand
    <2>1. \/ UNCHANGED jobs
          \/ \E j \in {"host", "restart", "join"}, s \in Step : jobs' = Goes(j, s)
          \/ jobs' = Goes("reset", "idle")
          \/ ResetOnboarding /\ jobs' = Goes("reset", "rest")
      <3>1. CASE AnyStop
        BY <3>1 DEF StopHosting, RestartHosting, ResetOnboarding, Stop, Step
      <3>2. CASE HostWorkspace \/ Restarted \/ Hosted \/ ConfigureServer \/ JoinWorkspace \/ Reset
        BY <3>2 DEF HostWorkspace, Restarted, Hosted, ConfigureServer, JoinWorkspace, Reset, Step
      <3>3. CASE CreateWorkspace \/ JoinByLink \/ SwitchSync \/ OpenPage \/ SavePage
        BY <3>3 DEF CreateWorkspace, JoinByLink, SwitchSync, OpenPage, SavePage
      <3> QED
        BY <3>1, <3>2, <3>3
    <2>2. /\ jobs'["startup"] = jobs["startup"]
          /\ ~ResetOnboarding => (jobs'["reset"].step = "rest" => jobs["reset"].step = "rest")
      BY <1>1, <2>1 DEF Goes, JobsType, Job
    <2>3. CASE ResetOnboarding
      <3>1. PICK ok \in BOOLEAN : Spend({"reset"} \cup File(ok))
        BY <2>3 DEF ResetOnboarding, Stop
      <3>2. used'.reset = used.reset + 1
        BY <1>2, <3>1 DEF Spend, Count
      <3>3. used'.reset > 0
        BY <1>2, <3>2 DEF Count
      <3> QED
        BY <1>1, <2>2, <3>3 DEF OnlineInv, Ready
    <2>4. CASE ~ResetOnboarding
      BY <1>1, <1>3, <2>4, <2>2 DEF OnlineInv, Ready
    <2> QED
      BY <2>3, <2>4
  <1>5. CASE permit'
    BY <1>4, <1>5, GuidedByDue DEF OnlineInv, Due
  <1>6. CASE used'.file # 0
    BY <1>4, <1>6 DEF OnlineInv, Guided
  <1>7. \A C : Spend({"file"} \cup C) => used'.file # 0
    BY <1>2 DEF Spend, Count
  <1>8. CASE Reset
    <2>1. settings'.addr = None
      BY <1>1, <1>8 DEF Reset, SetUp
    <2>2. used'.reset > 0
      BY <1>3, <1>8 DEF Reset, OnlineInv, Ready
    <2> QED
      BY <1>4, <2>1, <2>2, GuidedByDue DEF OnlineInv, Due
  <1>9. ASSUME UNCHANGED permit, settings'.addr = settings.addr, listener' \in {listener, 0},
               \A j \in {"host", "restart"} :
                  jobs[j].step \in {"bound", "rest"} => jobs'[j].step \in {"bound", "rest"}
        PROVE  OnlineInv'
    <2>1. Due => Due'
      BY <1>3, <1>9 DEF Due
    <2> QED
      BY <1>1, <1>4, <1>9, <2>1, GuidedKept DEF OnlineInv
  <1>10. CASE AnyStop
    <2>1. /\ UNCHANGED permit /\ settings'.addr = settings.addr /\ listener' \in {listener, 0}
      BY <1>1, <1>10 DEF AnyStop, StopHosting, RestartHosting, ResetOnboarding, Stop, Stopped,
                         SetUp
    <2>2. \A j \in {"host", "restart"} :
             jobs[j].step \in {"bound", "rest"} => jobs'[j].step \in {"bound", "rest"}
      BY <1>1, <1>10 DEF AnyStop, StopHosting, RestartHosting, ResetOnboarding, Stop, Busy,
                         Goes, JobsType, Job
    <2> QED
      BY <1>9, <2>1, <2>2
  <1>11. CASE HostWorkspace
    <2>1. UNCHANGED <<permit, settings, listener>>
      BY <1>11 DEF HostWorkspace, appVars, relayVars
    <2>2. \A j \in {"host", "restart"} :
             jobs[j].step \in {"bound", "rest"} => jobs'[j].step \in {"bound", "rest"}
      BY <1>1, <1>11 DEF HostWorkspace, Busy, Goes, JobsType, Job
    <2> QED
      BY <1>9, <2>1, <2>2
  <1>12. CASE ConfigureServer
    <2>1. PICK ok \in BOOLEAN : Spend({"join"} \cup File(ok)) /\ permit' = (permit \/ ok)
      BY <1>12 DEF ConfigureServer
    <2>2. CASE ok
      BY <1>5, <2>1, <2>2
    <2>3. CASE ~ok
      <3>1. {"join"} \cup File(ok) = {"file"} \cup {"join"}
        BY <2>3 DEF File
      <3> QED
        BY <1>6, <1>7, <2>1, <3>1
    <2> QED
      BY <2>2, <2>3
  <1>13. CASE Hosted
    <2>1. PICK ok \in BOOLEAN : Spend(File(ok)) /\ (permit' = TRUE \/ ~ok)
      BY <1>13 DEF Hosted
    <2>2. ok = FALSE => File(ok) = {"file"} \cup {}
      BY DEF File
    <2> QED
      BY <1>5, <1>6, <1>7, <2>1, <2>2
  <1>14. CASE SwitchSync \/ OpenPage
    <2>1. UNCHANGED <<permit, jobs, listener>> /\ settings'.addr = settings.addr
      BY <1>1, <1>14 DEF SwitchSync, OpenPage, relayVars, SetUp
    <2> QED
      BY <1>9, <2>1
  <1>15. CASE SavePage
    <2>1. settings'.addr = settings.addr /\ UNCHANGED <<jobs, listener>>
      <3>1. page \in SetUp
        BY <1>15, NoneAssumption DEF HostTypes, AppOK, Maybe, SavePage
      <3> QED
        BY <1>15, <3>1 DEF SavePage, Merge, SetUp, relayVars
    <2>2. permit => permit'
      BY <1>15 DEF SavePage
    <2>3. Due => Due'
      BY <1>3, <2>1, <2>2 DEF Due
    <2> QED
      BY <1>1, <1>4, <2>1, <2>3, GuidedKept DEF OnlineInv
  <1>16. CASE CreateWorkspace \/ JoinWorkspace \/ JoinByLink \/ Restarted
    BY <1>5, <1>16 DEF CreateWorkspace, JoinWorkspace, JoinByLink, Restarted
  <1> QED
    BY <1>8, <1>10, <1>11, <1>12, <1>13, <1>14, <1>15, <1>16 DEF AnyCommand

LEMMA OnlineWorker ==
    ASSUME HostTypes, HostTypes', [HostNext]_hostVars, OnlineInv, Worker
    PROVE  OnlineInv'
  <1>1. UNCHANGED <<jobs, listener>> /\ session \in SessionType
    <2>1. UNCHANGED listener
      BY DEF Worker, Turn, Woken, Again, TakePending, ClaimFails, ClaimAcked, GuestGetsLog,
             GuestFails, GuestJoined, SayHello, Greet, Hear, EndSession, FailOnboarding, relayVars
    <2> QED
      BY <2>1, WorkerEffect DEF HostTypes, SessionOK
  <1>2. used.reset > 0 => used'.reset > 0
    BY ResetCounted
  <1>3. ASSUME session'.phase \in {"loop", "wait", "down"}, jobs["startup"].step = "idle"
        PROVE  OnlineInv'
    BY <1>1, <1>2, <1>3 DEF OnlineInv, Ready, Guided, Linked, Claiming, Joining
  <1>4. CASE Turn
    <2>1. /\ session'.phase \in {"wait", "dial"} /\ session'.target = settings.addr
          /\ session'.phase = "dial" => settings.addr # None
          /\ jobs["startup"].step = "idle" /\ UNCHANGED settings
      BY <1>4 DEF Turn, NoSession, appVars
    <2> QED
      BY <1>1, <1>2, <2>1 DEF OnlineInv, Ready, Guided, Linked, Claiming, Joining
  <1>5. CASE Woken
    <2>1. session'.phase = "loop" /\ session.phase = "wait"
      BY <1>1, <1>5 DEF Woken, SessionType
    <2> QED
      BY <1>3, <2>1 DEF OnlineInv, Ready
  <1>6. CASE Again
    <2>1. session'.phase = "loop" /\ session.phase = "down"
      BY <1>6 DEF Again, NoSession
    <2> QED
      BY <1>3, <2>1 DEF OnlineInv, Ready
  <1>7. CASE ClaimFails \/ GuestFails \/ EndSession
    <2>1. session'.phase = "down" /\ session.phase # "loop"
      BY <1>7 DEF ClaimFails, GuestFails, EndSession, FailOnboarding, Fail, NoSession, Claiming
    <2> QED
      BY <1>3, <2>1 DEF OnlineInv, Ready
  <1>8. CASE TakePending \/ ClaimAcked \/ GuestGetsLog \/ GuestJoined \/ SayHello \/ Greet \/ Hear
    <2>1. UNCHANGED permit /\ settings'.addr = settings.addr
      <3>1. CASE GuestJoined
        BY <3>1 DEF GuestJoined, HostTypes, AppOK, SetUp
      <3>2. CASE ~GuestJoined
        BY <1>8, <3>2 DEF TakePending, ClaimAcked, GuestGetsLog, SayHello, Greet, Hear, appVars
      <3> QED
        BY <3>1, <3>2
    <2>2. /\ session.phase \in Linked /\ session'.phase \in Linked
          /\ session.phase # "loop" /\ session'.phase # "dial"
          /\ session'.relay = session.relay /\ session'.up = session.up
      <3> USE DEF Linked, Claiming, Joining, SessionType
      <3>1. CASE TakePending
        BY <1>1, <3>1 DEF TakePending
      <3>2. CASE ClaimAcked \/ GuestGetsLog
        BY <1>1, <3>2 DEF ClaimAcked, GuestGetsLog
      <3>3. CASE GuestJoined \/ SayHello
        BY <1>1, <3>3 DEF GuestJoined, SayHello
      <3>4. CASE Greet \/ Hear
        BY <1>1, <3>4 DEF Greet, Hear
      <3> QED
        BY <1>8, <3>1, <3>2, <3>3, <3>4
    <2>3. Due => Due'
      BY <1>1, <1>2, <2>1 DEF Due
    <2>4. AtHome => AtHome'
      BY <1>1, <2>1, <2>2 DEF AtHome, Answers
    <2> QED
      BY <1>1, <1>2, <2>2, <2>3, <2>4, FilesCounted DEF OnlineInv, Ready, Guided
  <1> QED
    BY <1>4, <1>5, <1>6, <1>7, <1>8 DEF Worker

LEMMA OnlineOthers ==
    ASSUME HostTypes, HostTypes', [HostNext]_hostVars, OnlineInv, Others, ~RestartApp
    PROVE  OnlineInv'
  <1>1. UNCHANGED <<settings, permit, jobs, listener>> /\ session \in SessionType
    BY DEF Others, Connect, ConnectFails, RelayClaims, RelayAdds, PeerConnects, PeerLeaves,
           OthersAppend, OthersClaim, Break, RestartRelay, appVars, relayVars, HostTypes, SessionOK
  <1>2. used.reset > 0 => used'.reset > 0
    BY ResetCounted
  <1>3. Due => Due'
    BY <1>1, <1>2 DEF Due
  <1>4. CASE Connect
    <2>1. /\ session.phase = "dial" /\ session'.phase = "open" /\ Answers(session.target) # 0
          /\ session'.relay = Answers(session.target)
      BY <1>1, <1>4 DEF Connect, SessionType
    <2>2. session.target = settings.addr => AtHome'
      BY <1>1, <2>1 DEF AtHome, Answers, OnlineInv, Ready
    <2> QED
      BY <1>1, <1>2, <1>3, <2>1, <2>2, FilesCounted DEF OnlineInv, Ready, Guided
  <1>5. CASE ConnectFails
    BY <1>1, <1>2, <1>5
    DEF ConnectFails, NoSession, OnlineInv, Ready, Guided, Linked, Claiming, Joining
  <1>6. CASE RelayClaims \/ RelayAdds
    <2>1. /\ session.phase \in Linked /\ session'.phase \in Linked
          /\ session.phase # "loop" /\ session'.phase # "dial"
          /\ session'.relay = session.relay /\ session'.up = session.up
      BY <1>1, <1>6 DEF RelayClaims, RelayAdds, SessionType, Linked, Claiming, Joining
    <2>2. AtHome => AtHome'
      BY <1>1, <2>1 DEF AtHome, Answers
    <2> QED
      BY <1>1, <1>2, <1>3, <2>1, <2>2, FilesCounted DEF OnlineInv, Ready, Guided
  <1>7. ASSUME session'.phase = session.phase, session'.target = session.target,
               session'.relay = session.relay, session'.up \in {session.up, FALSE}
        PROVE  OnlineInv'
    <2>1. Guided'
      BY <1>1, <1>3, <1>7, GuidedKept DEF OnlineInv
    <2> QED
      BY <1>1, <1>2, <1>7, <2>1 DEF OnlineInv, Ready
  <1>8. CASE Break \/ RestartRelay \/ \E i \in {Ext, peer} : OthersAppend(i)
    <2>1. /\ session'.phase = session.phase /\ session'.target = session.target
          /\ session'.relay = session.relay /\ session'.up \in {session.up, FALSE}
      BY <1>1, <1>8 DEF Break, RestartRelay, OthersAppend, SessionType
    <2> QED
      BY <1>7, <2>1
  <1>9. CASE UNCHANGED session
    BY <1>7, <1>9
  <1> QED
    BY <1>4, <1>5, <1>6, <1>8, <1>9 DEF Others, PeerConnects, PeerLeaves, OthersClaim

LEMMA OnlineStep == HostTypes /\ HostTypes' /\ OnlineInv /\ [HostNext]_hostVars => OnlineInv'
  <1> SUFFICES ASSUME HostTypes, HostTypes', OnlineInv, [HostNext]_hostVars
               PROVE  OnlineInv'
    OBVIOUS
  <1>1. CASE UNCHANGED hostVars
    <2>1. UNCHANGED <<settings, permit, session, jobs, listener, used>>
      BY <1>1 DEF hostVars, appVars, relayVars
    <2> QED
      BY <2>1 DEF OnlineInv, Ready, Guided, Due, AtHome, Answers
  <1>2. CASE RestartApp
    <2>1. session'.phase = "loop" /\ jobs'["reset"].step = "idle"
      BY <1>2 DEF RestartApp, NoSession, Job
    <2> QED
      BY <2>1 DEF OnlineInv, Ready, Guided, Linked, Claiming, Joining
  <1> QED
    BY <1>1, <1>2, StepKinds, OnlineStart, OnlineCommand, OnlineWorker, OnlineOthers

LEMMA OnlineInvariant == HostSpec => []OnlineInv
  BY TypesInvariant, OnlineInit, OnlineStep, PTL DEF HostSpec

\* A session that goes on is with the relay the settings name, or its end is
\* due: every command that changes the relay wakes the worker once it is done,
\* and a wake-up that comes while the worker dials is kept until it listens
\* (run, session, host_workspace, apply_join_link, update_settings).  This is so
\* while the settings could be saved, and not for a session left over from an
\* address that reset_onboarding removed or from the app's own relay that stopped.
THEOREM OnlineWhereSettingsSayAlways == HostSpec => []OnlineWhereSettingsSay
  <1>1. OnlineInv => OnlineWhereSettingsSay
    <2> SUFFICES ASSUME OnlineInv
                 PROVE  OnlineWhereSettingsSay
      OBVIOUS
    <2>1. \A j \in {"host", "restart"} : jobs[j].step \in {"bound", "rest"} => jobs[j].step # "idle"
      OBVIOUS
    <2> QED
      BY <2>1 DEF OnlineInv, Guided, Due, AtHome, Linked, OnlineWhereSettingsSay
  <1> QED
    BY <1>1, OnlineInvariant, PTL

-----------------------------------------------------------------------------
(* The key of a device that only hosts.                                    *)

\* This device makes no workspace elsewhere and joins none, every file can be
\* written, and no workspace was made without having seen the log.
Lone ==
    /\ limit.count.create = 0 /\ limit.count.join = 0 /\ limit.count.link = 0
    /\ used.file = 0 /\ ~blind

LEMMA LoneMeans ==
    ASSUME HostTypes
    PROVE  /\ limit.count.create + limit.count.join + limit.count.link + used.file = 0 /\ ~blind
                => Lone
           /\ Lone => \A c \in {"create", "join", "link"} : \A C : Spend({c} \cup C) => FALSE
  <1>1. limit \in Limit /\ used \in [Count -> Nat]
    BY HostingAssumption DEF HostTypes, PastOK
  <1>2. limit.count.create \in Nat /\ limit.count.join \in Nat /\ limit.count.link \in Nat
        /\ used.file \in Nat /\ used.create \in Nat /\ used.join \in Nat /\ used.link \in Nat
    BY <1>1 DEF Limit, Count
  <1>3. limit.count.create + limit.count.join + limit.count.link + used.file = 0 /\ ~blind => Lone
    <2> DEFINE a == limit.count.create
               b == limit.count.join
               c == limit.count.link
               d == used.file
    <2>1. a \in Nat /\ b \in Nat /\ c \in Nat /\ d \in Nat
      BY <1>2
    <2> HIDE DEF a, b, c, d
    <2>2. a + b + c + d = 0 => a = 0 /\ b = 0 /\ c = 0 /\ d = 0
      BY <2>1
    <2> QED
      BY <2>2, Zenon DEF Lone, a, b, c, d
  <1>4. ASSUME Lone, NEW c \in {"create", "join", "link"}, NEW C, Spend({c} \cup C)
        PROVE  FALSE
    <2>1. used[c] < limit.count[c] /\ used[c] \in Nat
      BY <1>1, <1>4 DEF Spend, Count
    <2>2. limit.count[c] = 0
      BY <1>4 DEF Lone
    <2> QED
      BY <2>1, <2>2
  <1> QED
    BY <1>3, <1>4

LEMMA LoneStays ==
    ASSUME HostTypes, HostTypes', [HostNext]_hostVars, Lone'
    PROVE  Lone
  <1>1. UNCHANGED limit /\ (UNCHANGED blind \/ Hosted)
    <2>1. CASE \E j \in Starter : Start(j)
      BY <2>1 DEF Start, StartReads, StartKeeps, StartBinds, StartFails, Started, past
    <2>2. CASE AnyStop
      BY <2>2 DEF AnyStop, StopHosting, RestartHosting, ResetOnboarding, Stop, past
    <2>3. CASE AnyCommand
      <3>1. CASE CreateWorkspace \/ ConfigureServer \/ JoinWorkspace \/ JoinByLink \/ Reset
        BY <3>1 DEF CreateWorkspace, ConfigureServer, JoinWorkspace, JoinByLink, Reset, past
      <3>2. CASE HostWorkspace \/ Restarted \/ SwitchSync \/ OpenPage \/ SavePage
        BY <3>2 DEF HostWorkspace, Restarted, SwitchSync, OpenPage, SavePage, past
      <3>3. CASE Hosted
        BY <3>3 DEF Hosted
      <3> QED
        BY <2>3, <3>1, <3>2, <3>3 DEF AnyCommand
    <2>4. CASE Worker
      BY <2>4 DEF Worker, Turn, Woken, Again, TakePending, ClaimFails, ClaimAcked, GuestGetsLog,
                  GuestFails, GuestJoined, SayHello, Greet, Hear, EndSession, FailOnboarding, past
    <2>5. CASE Others
      BY <2>5 DEF Others, Connect, ConnectFails, RelayClaims, RelayAdds, PeerConnects, PeerLeaves,
                  OthersAppend, OthersClaim, Break, RestartRelay, RestartApp, past
    <2>6. CASE UNCHANGED hostVars
      BY <2>6 DEF hostVars, past
    <2>7. CASE RestartApp
      BY <2>7 DEF RestartApp
    <2> QED
      BY <2>1, <2>2, <2>3, <2>4, <2>5, <2>6, <2>7, StepKinds
  <1>2. blind => blind'
    <2>1. CASE UNCHANGED blind
      BY <2>1
    <2>2. CASE Hosted
      BY <2>2 DEF Hosted
    <2> QED
      BY <1>1, <2>1, <2>2
  <1>3. used'.file = 0 => used.file = 0
    BY FilesCounted
  <1> QED
    BY <1>1, <1>2, <1>3 DEF Lone

LEMMA LoneWrites ==
    ASSUME HostTypes, HostTypes', Lone', NEW ok \in BOOLEAN, NEW C, Spend(C \cup File(ok))
    PROVE  ok
  <1>1. used.file \in Nat
    BY DEF HostTypes, PastOK, Count
  <1> QED
    BY <1>1 DEF Lone, Spend, File, Count

\* Such a device keeps to its own relay.
Homes == {"own", None}
Places ==
    /\ settings.addr \in Homes /\ disk.settings.addr \in Homes /\ session.target \in Homes
    /\ session.relay # Ext /\ session.phase \notin Joining
    /\ session.phase \in Linked => session.up
    /\ jobs["join"].step = "idle"

\* What is in the logs of its relays, in its own and on the way: the workspace
\* its key is of, and none before a relay has taken one.
OnlyKey(log, k) == \A i \in 1 .. Len(log) : log[i].kind = "create" => log[i] = k
Keyed ==
    /\ \A i \in 2 .. Len(relays) : OnlyKey(relays[i].log, disk.key)
    /\ OnlyKey(disk.own, disk.key) /\ OnlyKey(core.log, disk.key)
    /\ \A p \in 1 .. Len(session.inbox) : OnlyKey(session.inbox[p].entries, disk.key)
    /\ disk.own = <<>> => session.inbox = <<>> /\ \A i \in 2 .. Len(relays) : relays[i].log = <<>>
    /\ disk.own # <<>> \/ core.log # <<>> => core.key = disk.key

\* Its claim is of the workspace the key is of, and the relay has none but it.
Underway ==
    /\ core.pending # None =>
          /\ core.pending.claims # None /\ core.pending.claims = disk.key
          /\ core.log # <<>>
          /\ disk.own = <<>> \/ session.phase = "claimed"
    /\ session.phase \in Claiming =>
          /\ session.copy.claims = disk.key
          /\ core.log # <<>>
          /\ disk.own = <<>> \/ session.phase = "claimed"

KeyInv == Lone => Places /\ Keyed /\ Underway

LEMMA KeyInit == HostInit => KeyInv
  <1> SUFFICES ASSUME HostInit
               PROVE  KeyInv
    OBVIOUS
  <1>1. /\ session = [NoSession EXCEPT !.phase = "loop"] /\ settings.addr = None
        /\ disk.settings = settings /\ jobs["join"].step = "idle"
        /\ disk.own = <<>> /\ core.log = <<>> /\ core.pending = None /\ Len(relays) = 1
    BY DEF HostInit, Job
  <1>2. /\ session.phase = "loop" /\ session.inbox = <<>> /\ session.relay = 0
        /\ session.target = None
    BY <1>1 DEF NoSession
  <1>3. Places
    BY <1>1, <1>2 DEF Places, Homes, Ext, Joining, Linked, Claiming
  <1>4. Keyed
    BY <1>1, <1>2 DEF Keyed, OnlyKey
  <1>5. Underway
    BY <1>1, <1>2 DEF Underway, Claiming
  <1> QED
    BY <1>3, <1>4, <1>5 DEF KeyInv

LEMMA OnlyKeyLogs ==
    ASSUME NEW l \in Log, NEW k, OnlyKey(l, k)
    PROVE  /\ \A e \in Entry : e.kind # "create" => OnlyKey(Append(l, e), k)
           /\ \A m \in Int, n \in Int : m >= 1 /\ n <= Len(l) => OnlyKey(SubSeq(l, m, n), k)
           /\ \A m \in Log : OnlyKey(m, k) => OnlyKey(l \o m, k)
           /\ WorkspaceOf(l) # None => WorkspaceOf(l) = k
  <1>1. Len(l) \in Nat /\ l \in Seq(Entry)
    BY LenProperties DEF Log
  <1>2. ASSUME NEW e \in Entry, e.kind # "create"
        PROVE  OnlyKey(Append(l, e), k)
    <2>1. /\ Len(Append(l, e)) = Len(l) + 1 /\ Append(l, e)[Len(l) + 1] = e
          /\ \A i \in 1 .. Len(l) : Append(l, e)[i] = l[i]
      BY <1>1, AppendProperties
    <2> QED
      BY <1>1, <1>2, <2>1 DEF OnlyKey
  <1>3. ASSUME NEW m \in Int, NEW n \in Int, m >= 1, n <= Len(l)
        PROVE  OnlyKey(SubSeq(l, m, n), k)
    <2>1. \A i \in m .. n : l[i] \in Entry
      BY <1>1, <1>3
    <2>2. /\ Len(SubSeq(l, m, n)) = IF m <= n THEN n - m + 1 ELSE 0
          /\ \A i \in 1 .. n - m + 1 : SubSeq(l, m, n)[i] = l[m + i - 1]
      BY <2>1, SubSeqProperties
    <2>3. \A i \in 1 .. Len(SubSeq(l, m, n)) : SubSeq(l, m, n)[i] = l[m + i - 1]
                                              /\ m + i - 1 \in 1 .. Len(l)
      BY <1>1, <1>3, <2>2
    <2> QED
      BY <2>3 DEF OnlyKey
  <1>4. ASSUME NEW m \in Log, OnlyKey(m, k)
        PROVE  OnlyKey(l \o m, k)
    <2>1. m \in Seq(Entry) /\ Len(m) \in Nat
      BY LenProperties DEF Log
    <2>2. /\ Len(l \o m) = Len(l) + Len(m)
          /\ \A i \in 1 .. Len(l) + Len(m) :
                (l \o m)[i] = IF i <= Len(l) THEN l[i] ELSE m[i - Len(l)]
      BY <1>1, <2>1, ConcatProperties
    <2>3. \A i \in 1 .. Len(l) + Len(m) :
             (i <= Len(l) => i \in 1 .. Len(l)) /\ (~(i <= Len(l)) => i - Len(l) \in 1 .. Len(m))
      BY <1>1, <2>1
    <2> QED
      BY <1>4, <2>2, <2>3 DEF OnlyKey
  <1>5. WorkspaceOf(l) # None => WorkspaceOf(l) = k
    <2>1. l # <<>> => 1 \in 1 .. Len(l)
      BY <1>1, EmptySeq
    <2> QED
      BY <2>1 DEF WorkspaceOf, OnlyKey
  <1> QED
    BY <1>2, <1>3, <1>4, <1>5

LEMMA OnlyKeyShort ==
    ASSUME NEW k
    PROVE  /\ OnlyKey(<<>>, k) /\ OnlyKey(<<k>>, k)
           /\ \A e : e.kind # "create" => OnlyKey(<<e>>, k)
  BY DEF OnlyKey

\* Steps after which the same is in the logs.
LEMMA KeysUnmoved ==
    ASSUME Keyed, Underway,
           UNCHANGED session, core'.log = core.log, core'.key = core.key,
           core'.pending \in {core.pending, None},
           disk'.key = disk.key, disk'.own = disk.own,
           \A i \in 2 .. Len(relays') : \/ i \in 2 .. Len(relays) /\ relays'[i].log = relays[i].log
                                        \/ relays'[i].log = disk.own
    PROVE  Keyed' /\ Underway'
  <1>1. Keyed'
    BY DEF Keyed
  <1>2. Underway'
    BY DEF Underway
  <1> QED
    BY <1>1, <1>2

LEMMA KeyStart ==
    ASSUME HostTypes, HostTypes', Lone', Places, Keyed, Underway, NEW j \in Starter, Start(j)
    PROVE  Places' /\ Keyed' /\ Underway'
  <1>1. /\ UNCHANGED session /\ core'.log = core.log /\ core'.key = core.key
        /\ core'.pending = core.pending
    BY DEF Start, StartReads, StartKeeps, StartBinds, StartFails, Started, appVars, HostTypes,
           AppOK, CoreType
  <1>2. disk'.key = disk.key /\ disk'.own = disk.own
    <2>1. CASE Started(j)
      BY <2>1, SavedEffect DEF Started, HostTypes, AppOK
    <2>2. CASE StartReads(j) \/ StartKeeps(j)
      BY <2>2 DEF StartReads, StartKeeps, HostTypes, DiskOK, DiskType
    <2> QED
      BY <2>1, <2>2 DEF Start, StartBinds, StartFails
  <1>3. Keyed' /\ Underway'
    <2>1. \A i \in 2 .. Len(relays') : \/ i \in 2 .. Len(relays) /\ relays'[i].log = relays[i].log
                                       \/ relays'[i].log = disk.own
      BY DiskStart, ExtThere
    <2> QED
      BY <1>1, <1>2, <2>1, KeysUnmoved
  <1>4. jobs'["join"] = jobs["join"]
    BY DEF Start, StartReads, StartKeeps, StartBinds, StartFails, Started, Goes, HostTypes,
           JobsOK, JobsType, Starter, Job
  <1>5. settings'.addr \in {settings.addr, "own"}
    BY DEF Start, StartReads, StartKeeps, StartBinds, StartFails, Started, appVars, HostTypes,
           AppOK, SetUp
  <1>6. disk'.settings \in {disk.settings, settings'}
    <2>1. CASE Started(j)
      BY <2>1, SavedEffect DEF Started, HostTypes, AppOK
    <2>2. CASE StartReads(j) \/ StartKeeps(j)
      BY <2>2 DEF StartReads, StartKeeps, HostTypes, DiskOK, DiskType
    <2> QED
      BY <2>1, <2>2 DEF Start, StartBinds, StartFails
  <1> QED
    BY <1>1, <1>3, <1>4, <1>5, <1>6 DEF Places, Homes

\* A host that makes its workspace has no log, and neither has its relay.
LEMMA KeyMade ==
    ASSUME HostTypes, HostTypes', Lone', Places, Keyed, Underway, Hosted
    PROVE  Keyed' /\ Underway'
  <1>1. disk \in DiskType /\ core \in CoreType /\ settings \in SetUp /\ UNCHANGED <<session, relays>>
    BY DEF HostTypes, DiskOK, AppOK, Hosted, relayVars
  <1> DEFINE ws == Mine("create", Asked)
             p == [claims |-> ws, token |-> used.host + SetupToken]
  <1>2. PICK ok \in BOOLEAN :
           /\ Spend(File(ok))
           /\ \/ core.log # <<>> /\ disk' = Saved(settings, ok) /\ UNCHANGED core
              \/ core.log = <<>> /\ ~ok
              \/ /\ core.log = <<>>
                 /\ core' = [core EXCEPT !.log = <<ws>>, !.key = ws, !.pending = p]
                 /\ disk' = [Saved(settings, ok) EXCEPT !.key = ws]
                 /\ blind' = (blind \/ disk.own # <<>>)
    BY DEF Hosted
  <1>3. ok
    <2>1. File(ok) = {} \cup File(ok)
      OBVIOUS
    <2> QED
      BY <1>2, <2>1, LoneWrites
  <1>4. CASE disk' = Saved(settings, ok) /\ UNCHANGED core
    <2>1. disk'.key = disk.key /\ disk'.own = disk.own
      BY <1>1, <1>4, SavedEffect DEF DiskOK
    <2> QED
      BY <1>1, <1>4, <2>1, KeysUnmoved
  <1>5. CASE /\ core.log = <<>>
             /\ core' = [core EXCEPT !.log = <<ws>>, !.key = ws, !.pending = p]
             /\ disk' = [Saved(settings, ok) EXCEPT !.key = ws]
             /\ blind' = (blind \/ disk.own # <<>>)
    <2>1. ws \in Entry /\ p \in Pending
      <3>1. Asked \in Nat /\ used.host + SetupToken \in Nat
        BY AskedOK DEF HostTypes, PastOK, Count, SetupToken
      <3>2. ws \in Entry
        BY <3>1, MineOK
      <3> HIDE DEF ws
      <3> QED
        BY <3>1, <3>2 DEF Pending
    <2>2. p # None /\ p.claims = ws /\ ws # None
      BY <2>1, NoneAssumption
    <2> HIDE DEF ws, p
    <2>3. core'.log = <<ws>> /\ core'.key = ws /\ core'.pending = p
      BY <1>1, <1>5 DEF CoreType
    <2>4. disk'.key = ws /\ disk'.own = disk.own
      <3>1. Saved(settings, ok) \in DiskType /\ Saved(settings, ok).own = disk.own
        BY <1>1, SavedOK, SavedEffect DEF DiskOK
      <3> QED
        BY <1>5, <3>1 DEF DiskType
    <2>5. disk.own = <<>>
      BY <1>5 DEF Lone
    <2>6. Keyed'
      <3>1. \A i \in 2 .. Len(relays) : relays[i].log = <<>>
        BY <2>5 DEF Keyed
      <3>2. session.inbox = <<>>
        BY <2>5 DEF Keyed
      <3>3. OnlyKey(<<>>, ws) /\ OnlyKey(<<ws>>, ws)
        BY OnlyKeyShort
      <3> QED
        BY <1>1, <2>3, <2>4, <2>5, <3>1, <3>2, <3>3 DEF Keyed
    <2>7. Underway'
      BY <1>1, <1>5, <2>2, <2>3, <2>4, <2>5 DEF Underway
    <2> QED
      BY <2>6, <2>7
  <1> QED
    BY <1>2, <1>3, <1>4, <1>5

LEMMA KeyCommand ==
    ASSUME HostTypes, HostTypes', Lone, Lone', Places, Keyed, Underway, AnyStop \/ AnyCommand
    PROVE  Places' /\ Keyed' /\ Underway'
  <1>1. UNCHANGED <<session, relays>> /\ disk'.own = disk.own
        /\ disk'.settings \in {settings, settings', disk.settings}
    BY CommandSession, StopEffect, CommandEffect DEF Offline
  <1>2. disk \in DiskType /\ core \in CoreType /\ settings \in SetUp /\ settings' \in SetUp
    BY DEF HostTypes, DiskOK, AppOK
  <1>3. ~CreateWorkspace /\ ~ConfigureServer /\ ~JoinByLink /\ ~JoinWorkspace
    <2>1. ~CreateWorkspace
      <3>1. CreateWorkspace => \E ok \in BOOLEAN : Spend({"create"} \cup File(ok))
        BY DEF CreateWorkspace
      <3> QED
        BY <3>1, LoneMeans
    <2>2. ~ConfigureServer
      <3>1. ConfigureServer => \E ok \in BOOLEAN : Spend({"join"} \cup File(ok))
        BY DEF ConfigureServer
      <3> QED
        BY <3>1, LoneMeans
    <2>3. ~JoinByLink
      <3>1. JoinByLink => \E ok \in BOOLEAN : Spend({"link"} \cup File(ok))
        BY DEF JoinByLink
      <3> QED
        BY <3>1, LoneMeans
    <2>4. ~JoinWorkspace
      BY DEF JoinWorkspace, Places
    <2> QED
      BY <2>1, <2>2, <2>3, <2>4
  <1>4. Places'
    <2>1. settings'.addr \in {settings.addr, None}
      <3>1. CASE AnyStop
        BY <1>2, <3>1, StopEffect DEF SetUp
      <3>2. CASE HostWorkspace \/ Restarted \/ Hosted \/ Reset \/ SwitchSync \/ OpenPage
        BY <1>2, <3>2 DEF HostWorkspace, Restarted, Hosted, Reset, SwitchSync, OpenPage, SetUp,
                          appVars
      <3>3. CASE SavePage
        <4>1. page \in SetUp
          BY <3>3 DEF HostTypes, AppOK, Maybe, SavePage
        <4> QED
          BY <3>3, <4>1 DEF SavePage, Merge, SetUp
      <3> QED
        BY <1>3, <3>1, <3>2, <3>3 DEF AnyCommand
    <2>2. jobs'["join"] = jobs["join"]
      <3>1. jobs \in JobsType
        BY DEF HostTypes, JobsOK
      <3>2. \/ UNCHANGED jobs
            \/ \E j \in {"host", "restart", "reset"}, s \in Step : jobs' = Goes(j, s)
        <4>1. CASE AnyStop
          BY <4>1 DEF AnyStop, StopHosting, RestartHosting, ResetOnboarding, Stop, Step
        <4>2. CASE HostWorkspace \/ Restarted \/ Hosted \/ Reset
          BY <4>2 DEF HostWorkspace, Restarted, Hosted, Reset, Step
        <4>3. CASE SwitchSync \/ OpenPage \/ SavePage
          BY <4>3 DEF SwitchSync, OpenPage, SavePage
        <4> QED
          BY <1>3, <4>1, <4>2, <4>3 DEF AnyCommand
      <3> QED
        BY <3>1, <3>2 DEF Goes, JobsType, Job
    <2> QED
      BY <1>1, <2>1, <2>2 DEF Places, Homes
  <1>5. ASSUME core'.log = core.log, core'.key = core.key, core'.pending \in {core.pending, None},
               disk'.key = disk.key
        PROVE  Keyed' /\ Underway'
    <2>1. \A i \in 2 .. Len(relays') : i \in 2 .. Len(relays) /\ relays'[i].log = relays[i].log
      BY <1>1
    <2> QED
      BY <1>1, <1>5, <2>1, KeysUnmoved
  <1>6. CASE AnyStop
    <2>1. core' = [core EXCEPT !.hosting = FALSE]
      BY <1>6 DEF AnyStop, StopHosting, RestartHosting, ResetOnboarding, Stop, Stopped
    <2>2. core'.log = core.log /\ core'.key = core.key /\ core'.pending = core.pending
      BY <1>2, <2>1 DEF CoreType
    <2> QED
      BY <1>4, <1>5, <1>6, <2>2, StopEffect
  <1>7. CASE HostWorkspace \/ Restarted \/ SwitchSync \/ OpenPage \/ SavePage
    <2>1. UNCHANGED core
      BY <1>7 DEF HostWorkspace, Restarted, SwitchSync, OpenPage, SavePage, appVars
    <2>2. disk'.key = disk.key
      <3>1. UNCHANGED disk \/ \E ok \in BOOLEAN : disk' = Saved(settings', ok)
        BY <1>7 DEF HostWorkspace, Restarted, SwitchSync, OpenPage, SavePage
      <3> QED
        BY <1>2, <3>1, SavedEffect DEF DiskOK
    <2> QED
      BY <1>4, <1>5, <2>1, <2>2
  <1>8. CASE Reset
    <2>1. core'.log = core.log /\ core'.key = core.key /\ core'.pending = None
      BY <1>2, <1>8 DEF Reset, CoreType
    <2>2. disk'.key = disk.key
      BY <1>2, <1>8, SavedEffect DEF Reset, DiskOK
    <2> QED
      BY <1>4, <1>5, <2>1, <2>2
  <1>9. CASE Hosted
    BY <1>4, <1>9, KeyMade
  <1> QED
    BY <1>3, <1>6, <1>7, <1>8, <1>9 DEF AnyCommand

\* The worker clears what is pending, shortens or takes over logs it was sent, and
\* gives its workspace up when no relay has taken it.
LEMMA KeyWorker ==
    ASSUME HostTypes, HostTypes', Lone', Places, Keyed, Underway, Worker
    PROVE  Places' /\ Keyed' /\ Underway'
  <1>1. /\ UNCHANGED <<jobs, relays>> /\ disk'.own = disk.own
        /\ disk'.settings \in {settings, settings', disk.settings}
        /\ core \in CoreType /\ session \in SessionType
        /\ settings \in SetUp /\ settings' \in SetUp /\ disk \in DiskType
    BY WorkerEffect DEF HostTypes, AppOK, SessionOK, DiskOK, Offline
  <1>2. disk'.key = disk.key
    <2>1. CASE UNCHANGED disk
      BY <2>1
    <2>2. CASE ClaimFails \/ GuestFails
      BY <1>1, <2>2, SavedEffect DEF ClaimFails, GuestFails, FailOnboarding, DiskOK
    <2> QED
      BY <2>1, <2>2 DEF Worker, Turn, Woken, Again, TakePending, ClaimAcked, GuestGetsLog,
                        GuestJoined, SayHello, Greet, Hear, EndSession
  <1>3. ~GuestGetsLog /\ ~GuestFails /\ ~GuestJoined
    <2>1. session.phase \notin {"fetch", "add", "added"}
      BY DEF Places, Joining
    <2> QED
      BY <2>1 DEF GuestGetsLog, GuestFails, GuestJoined
  <1>4. ASSUME settings'.addr \in {settings.addr, None}, session'.target \in Homes,
               session'.relay # Ext, session'.phase \notin Joining,
               session'.phase \in Linked => session'.up
        PROVE  Places'
    BY <1>1, <1>4 DEF Places, Homes
  <1>5. ASSUME core'.log = core.log, core'.key = core.key, session'.inbox \in {session.inbox, <<>>}
        PROVE  Keyed'
    <2>1. \A p \in 1 .. Len(session'.inbox) : OnlyKey(session'.inbox[p].entries, disk.key)
      BY <1>5 DEF Keyed
    <2>2. disk.own = <<>> => session'.inbox = <<>>
      BY <1>5 DEF Keyed
    <2>3. /\ \A i \in 2 .. Len(relays) : OnlyKey(relays[i].log, disk.key)
          /\ disk.own = <<>> => \A i \in 2 .. Len(relays) : relays[i].log = <<>>
          /\ OnlyKey(disk.own, disk.key) /\ OnlyKey(core.log, disk.key)
          /\ disk.own # <<>> \/ core.log # <<>> => core.key = disk.key
      BY DEF Keyed
    <2> QED
      BY <1>1, <1>2, <1>5, <2>1, <2>2, <2>3 DEF Keyed
  <1>6. ASSUME core'.pending = core.pending, core'.log = core.log,
               session.phase \notin Claiming, session'.phase \notin Claiming
        PROVE  Underway'
    <2>1. session.phase # "claimed"
      BY <1>6 DEF Claiming
    <2> QED
      BY <1>1, <1>2, <1>6, <2>1 DEF Underway
  <1>7. ASSUME core'.pending = None, session'.phase \notin Claiming
        PROVE  Underway'
    BY <1>7 DEF Underway
  <1>8. CASE Turn \/ Woken \/ Again
    <2>1. /\ UNCHANGED <<core, settings>> /\ session.phase \in {"loop", "wait", "down"}
          /\ session'.phase \in {"loop", "wait", "dial"}
          /\ session'.target \in {session.target, settings.addr, None}
          /\ session'.relay \in {session.relay, 0} /\ session'.inbox \in {session.inbox, <<>>}
      <3>1. CASE Turn
        BY <3>1 DEF Turn, NoSession, appVars
      <3>2. CASE Woken
        BY <1>1, <3>2 DEF Woken, SessionType
      <3>3. CASE Again
        BY <3>3 DEF Again, NoSession
      <3> QED
        BY <1>8, <3>1, <3>2, <3>3
    <2>2. Places'
      BY <1>4, <2>1 DEF Places, Homes, Ext, Joining, Linked, Claiming
    <2>3. Keyed'
      BY <1>5, <2>1
    <2>4. Underway'
      BY <1>6, <2>1 DEF Claiming
    <2> QED
      BY <2>2, <2>3, <2>4
  <1>9. CASE TakePending
    <2> DEFINE p == core.pending
    <2>1. /\ UNCHANGED <<core, settings>> /\ session.phase = "open"
          /\ session'.copy = p
          /\ session'.phase = IF p = None THEN "hello"
                              ELSE IF p.claims = None THEN "fetch" ELSE "claim"
          /\ session'.target = session.target /\ session'.relay = session.relay
          /\ session'.inbox = session.inbox /\ session'.up = session.up
      BY <1>1, <1>9 DEF TakePending, appVars, SessionType
    <2>2. session'.phase \in {"hello", "claim"} /\ (session'.phase = "claim" => p # None)
      BY <2>1 DEF Underway
    <2>3. Places'
      BY <1>4, <2>1, <2>2 DEF Places, Joining, Linked
    <2>4. Keyed'
      BY <1>5, <2>1
    <2>5. Underway'
      BY <1>1, <1>2, <2>1, <2>2 DEF Underway, Claiming
    <2> QED
      BY <2>3, <2>4, <2>5
  <1>10. CASE ClaimFails
    <2>1. /\ core'.log = <<>> /\ core'.pending = None /\ settings'.addr = None
          /\ session' = NoSession /\ session.phase \in Claiming
          /\ session.phase = "refused" \/ ~session.up
      BY <1>1, <1>10 DEF ClaimFails, FailOnboarding, Fail, CoreType, SetUp, Claiming
    <2>2. session'.phase = "down" /\ session'.inbox = <<>> /\ session'.relay = 0
          /\ session'.target = None
      BY <2>1 DEF NoSession
    <2>3. disk.own = <<>>
      BY <2>1 DEF Places, Linked, Underway
    <2>4. Places'
      BY <1>4, <2>1, <2>2 DEF Homes, Ext, Joining, Linked, Claiming
    <2>5. Keyed'
      <3>1. \A i \in 2 .. Len(relays) : relays[i].log = <<>>
        BY <2>3 DEF Keyed
      <3>2. OnlyKey(<<>>, disk.key)
        BY OnlyKeyShort
      <3> QED
        BY <1>1, <1>2, <2>1, <2>2, <2>3, <3>1, <3>2 DEF Keyed
    <2>6. Underway'
      BY <1>7, <2>1, <2>2 DEF Claiming
    <2> QED
      BY <2>4, <2>5, <2>6
  <1>11. CASE ClaimAcked \/ Greet
    <2>1. /\ UNCHANGED settings /\ session'.phase \in {"hello", "online"}
          /\ session.phase \in {"claimed", "greet"}
          /\ core'.log = core.log /\ core'.key = core.key /\ core'.pending = None
          /\ session'.target = session.target /\ session'.relay = session.relay
          /\ session'.inbox = session.inbox /\ session'.up = session.up
      BY <1>1, <1>11 DEF ClaimAcked, Greet, CoreType, SessionType
    <2>2. Places'
      BY <1>4, <2>1 DEF Places, Joining, Linked, Claiming
    <2>3. Keyed'
      BY <1>5, <2>1
    <2>4. Underway'
      BY <1>7, <2>1 DEF Claiming
    <2> QED
      BY <2>2, <2>3, <2>4
  <1>12. CASE SayHello
    <2> DEFINE r == session.relay
               tail == SubSeq(relays[r].log, Len(core.log) + 1, Len(relays[r].log))
               m == [type |-> "welcome", entries |-> tail]
    <2>1. /\ UNCHANGED <<core, settings>> /\ session.phase = "hello" /\ session'.phase = "greet"
          /\ session'.target = session.target /\ session'.relay = r /\ session'.up = session.up
          /\ \/ session'.inbox = session.inbox
             \/ session'.inbox = Append(session.inbox, m) /\ Member(relays[r].log)
      <3>1. session.phase = "hello" /\ UNCHANGED <<core, settings>>
        BY <1>12 DEF SayHello, appVars
      <3>2. session' = [session EXCEPT !.phase = "greet", !.inbox =
                 IF ~session.up \/ ~Member(relays[r].log) THEN @ ELSE Append(@, m)]
        BY <1>12 DEF SayHello
      <3> QED
        BY <1>1, <3>1, <3>2 DEF SessionType
    <2>2. Places'
      BY <1>4, <2>1 DEF Places, Joining, Linked
    <2>3. Underway'
      BY <1>6, <2>1 DEF Claiming
    <2>4. CASE session'.inbox = session.inbox
      BY <1>5, <2>1, <2>2, <2>3, <2>4
    <2>5. CASE session'.inbox = Append(session.inbox, m) /\ Member(relays[r].log)
      <3>1. r \in 2 .. Len(relays) /\ relays[r] \in Relay
        <4>1. r \in 0 .. Len(relays) /\ r # 0 /\ r # Ext
          BY <2>1 DEF HostTypes, SessionOK, Places, Linked
        <4>2. r \in 1 .. Len(relays)
          BY <4>1, ExtThere
        <4> QED
          BY <4>1, <4>2, ExtThere, ElementOfSeq DEF HostTypes, RelaysOK, Ext
      <3>2. relays[r].log \in Log /\ OnlyKey(relays[r].log, disk.key)
        BY <3>1 DEF Keyed, Relay, Log
      <3>3. OnlyKey(tail, disk.key)
        <4>1. Len(core.log) \in Nat /\ Len(relays[r].log) \in Nat
          BY <1>1, <3>2, LenProperties DEF CoreType, Log
        <4> QED
          BY <3>2, <4>1, OnlyKeyLogs
      <3>4. disk.own # <<>>
        <4>1. relays[r].log # <<>>
          BY <2>5 DEF Member
        <4> QED
          BY <3>1, <4>1 DEF Keyed
      <3>5. m.entries = tail
        OBVIOUS
      <3> HIDE DEF m, tail
      <3>6. \A p \in 1 .. Len(session'.inbox) : OnlyKey(session'.inbox[p].entries, disk.key)
        <4>1. session.inbox \in Seq(Message)
          BY <1>1 DEF SessionType
        <4>2. /\ Len(Append(session.inbox, m)) = Len(session.inbox) + 1
              /\ Append(session.inbox, m)[Len(session.inbox) + 1] = m
              /\ \A p \in 1 .. Len(session.inbox) : Append(session.inbox, m)[p] = session.inbox[p]
              /\ Len(session.inbox) \in Nat
          BY <4>1, LenProperties
        <4> QED
          BY <2>5, <3>3, <3>5, <4>2 DEF Keyed
      <3>7. Keyed'
        BY <1>1, <1>2, <2>1, <3>4, <3>6 DEF Keyed
      <3> QED
        BY <2>2, <2>3, <3>7
    <2> QED
      BY <2>1, <2>4, <2>5
  <1>13. CASE Hear
    <2> DEFINE m == Head(session.inbox)
    <2>1. /\ core' = [core EXCEPT !.log =
                 IF m.type = "appended" THEN @ \o m.entries
                 ELSE IF m.entries = <<>> THEN @ ELSE m.entries]
          /\ session.inbox # <<>> /\ session' = [session EXCEPT !.inbox = Tail(@)]
          /\ session.phase = "online" /\ UNCHANGED settings
      BY <1>13 DEF Hear
    <2>2. session.inbox \in Seq(Message)
      BY <1>1 DEF SessionType
    <2>3. /\ m = session.inbox[1] /\ 1 \in 1 .. Len(session.inbox) /\ m \in Message
          /\ Len(Tail(session.inbox)) = Len(session.inbox) - 1 /\ Len(session.inbox) \in Nat
          /\ \A p \in 1 .. Len(Tail(session.inbox)) : Tail(session.inbox)[p] = session.inbox[p + 1]
      BY <2>1, <2>2, HeadTailProperties, EmptySeq, LenProperties
    <2>4. OnlyKey(m.entries, disk.key) /\ m.entries \in Log
      BY <2>3 DEF Keyed, Message
    <2>5. \A p \in 1 .. Len(Tail(session.inbox)) : OnlyKey(Tail(session.inbox)[p].entries, disk.key)
      <3>1. \A p \in 1 .. Len(Tail(session.inbox)) : p + 1 \in 1 .. Len(session.inbox)
        BY <2>3
      <3> QED
        BY <2>3, <3>1 DEF Keyed
    <2> HIDE DEF m
    <2>6. /\ core'.key = core.key /\ core'.pending = core.pending
          /\ \/ core'.log \in {core.log, core.log \o m.entries}
             \/ core'.log = m.entries /\ m.entries # <<>>
      BY <1>1, <2>1 DEF CoreType
    <2>7. core.log \in Log /\ core.log \in Seq(Entry) /\ m.entries \in Seq(Entry)
      BY <1>1, <2>4 DEF CoreType, Log
    <2>8. OnlyKey(core'.log, disk.key)
      BY <2>4, <2>6, <2>7, OnlyKeyLogs DEF Keyed
    <2>9. core.log # <<>> => core'.log # <<>>
      <3>1. core.log # <<>> => core.log \o m.entries # <<>>
        BY <2>7, ConcatEmptySeq, EmptySeq, LenProperties, ConcatProperties
      <3> QED
        BY <2>6, <3>1
    <2>10. disk.own # <<>>
      BY <2>1 DEF Keyed
    <2>11. /\ session'.inbox = Tail(session.inbox) /\ session'.phase = "online"
           /\ session'.target = session.target /\ session'.relay = session.relay
           /\ session'.up = session.up
      BY <1>1, <2>1 DEF SessionType
    <2>12. Keyed'
      BY <1>1, <1>2, <2>5, <2>6, <2>8, <2>10, <2>11 DEF Keyed
    <2>13. Underway'
      BY <1>1, <1>2, <2>1, <2>6, <2>9, <2>11 DEF Underway, Claiming
    <2>14. Places'
      BY <1>4, <2>1, <2>11 DEF Places, Joining, Linked
    <2> QED
      BY <2>12, <2>13, <2>14
  <1>14. CASE EndSession
    <2>1. /\ core'.log = core.log /\ core'.key = core.key /\ core'.pending = core.pending
          /\ session.phase = "online" /\ session' = NoSession /\ UNCHANGED settings
      BY <1>1, <1>14 DEF EndSession, CoreType
    <2>2. session'.phase = "down" /\ session'.inbox = <<>> /\ session'.relay = 0
          /\ session'.target = None
      BY <2>1 DEF NoSession
    <2>3. Places'
      BY <1>4, <2>1, <2>2 DEF Homes, Ext, Joining, Linked, Claiming
    <2>4. Keyed'
      BY <1>5, <2>1, <2>2
    <2>5. Underway'
      BY <1>6, <2>1, <2>2 DEF Claiming
    <2> QED
      BY <2>3, <2>4, <2>5
  <1> QED
    BY <1>3, <1>8, <1>9, <1>10, <1>11, <1>12, <1>13, <1>14 DEF Worker

\* The relays take its claim, and what others append to it.
LEMMA KeyOthers ==
    ASSUME HostTypes, HostTypes', Lone', Places, Keyed, Underway, Ready, Others, ~RestartApp
    PROVE  Places' /\ Keyed' /\ Underway'
  <1>1. UNCHANGED <<settings, core, jobs>> /\ session \in SessionType /\ disk \in DiskType
        /\ relays \in Seq(Relay) /\ Len(relays) \in Nat
    BY ExtThere DEF Others, Connect, ConnectFails, RelayClaims, RelayAdds, PeerConnects, PeerLeaves,
           OthersAppend, OthersClaim, Break, RestartRelay, appVars, HostTypes, SessionOK, DiskOK,
           RelaysOK
  <1>2. \A i \in 1 .. Len(relays) : relays[i].log \in Log
    <2>1. \A i \in 1 .. Len(relays) : relays[i] \in Relay
      BY ElementOfSeq DEF HostTypes, RelaysOK
    <2> QED
      BY <2>1 DEF Relay, Log
  <1>3. \A i, log, ok : Logged(i, log, ok) =>
           /\ disk'.key = disk.key /\ disk'.settings = disk.settings
           /\ ok => disk'.own = IF i = Ext THEN disk.own ELSE log
    BY <1>1 DEF Logged, At, DiskType, Ext
  <1>4. ASSUME disk'.settings = disk.settings, session'.target \in Homes,
               session'.relay # Ext, session'.phase \notin Joining,
               session'.phase \in Linked => session'.up
        PROVE  Places'
    BY <1>1, <1>4 DEF Places
  <1>5. ASSUME UNCHANGED disk, \A i \in 2 .. Len(relays) : relays'[i].log = relays[i].log,
               Len(relays') = Len(relays), session'.inbox \in {session.inbox, <<>>}
        PROVE  Keyed'
    <2>1. \A p \in 1 .. Len(session'.inbox) : OnlyKey(session'.inbox[p].entries, disk.key)
      BY <1>5 DEF Keyed
    <2>2. disk.own = <<>> => session'.inbox = <<>>
      BY <1>5 DEF Keyed
    <2> QED
      BY <1>1, <1>5, <2>1, <2>2 DEF Keyed
  <1>6. ASSUME disk'.key = disk.key, disk'.own = disk.own,
               session.phase \notin Claiming, session'.phase \notin Claiming
        PROVE  Underway'
    <2>1. session.phase # "claimed"
      BY <1>6 DEF Claiming
    <2> QED
      BY <1>1, <1>6, <2>1 DEF Underway
  <1>7. CASE Connect
    <2>1. /\ session.phase = "dial" /\ session'.phase = "open"
          /\ session'.relay = Answers(session.target) /\ session'.up = TRUE
          /\ session'.target = session.target /\ session'.inbox = session.inbox
          /\ Answers(session.target) # 0 /\ UNCHANGED <<disk, relays>>
      BY <1>1, <1>7 DEF Connect, SessionType, relayVars
    <2>2. session.target = "own"
      BY <2>1 DEF Places, Homes, Ready
    <2>3. session'.relay # Ext
      BY <2>1, <2>2 DEF Answers, HostTypes, RelaysOK
    <2>4. Places'
      BY <1>4, <2>1, <2>3 DEF Places, Joining
    <2>5. Keyed'
      BY <1>5, <2>1
    <2>6. Underway'
      BY <1>6, <2>1 DEF Claiming
    <2> QED
      BY <2>4, <2>5, <2>6
  <1>8. CASE ConnectFails
    <2>1. /\ session.phase = "dial" /\ session'.phase = "down" /\ session'.relay = 0
          /\ session'.target = None /\ session'.inbox = <<>> /\ UNCHANGED <<disk, relays>>
      BY <1>8 DEF ConnectFails, NoSession, relayVars
    <2>2. Places'
      BY <1>4, <2>1 DEF Homes, Ext, Joining, Linked, Claiming
    <2>3. Keyed'
      BY <1>5, <2>1
    <2>4. Underway'
      BY <1>6, <2>1 DEF Claiming
    <2> QED
      BY <2>2, <2>3, <2>4
  <1>9. CASE RelayClaims
    <2> DEFINE r == session.relay
               p == session.copy
    <2>1. /\ session.phase = "claim" /\ session'.phase \in {"claimed", "refused"}
          /\ session'.relay = session.relay /\ session'.up = session.up
          /\ session'.target = session.target /\ session'.inbox = session.inbox
          /\ session'.copy = session.copy
      BY <1>1, <1>9 DEF RelayClaims, SessionType
    <2>2. p.claims = disk.key /\ core.log # <<>> /\ disk.own = <<>>
      BY <2>1 DEF Underway, Claiming
    <2>3. CASE UNCHANGED <<relays, disk>>
      <3>1. Places'
        BY <1>4, <2>1, <2>3 DEF Places, Joining, Linked, Claiming
      <3>2. Keyed'
        BY <1>5, <2>1, <2>3
      <3>3. Underway'
        BY <1>1, <2>1, <2>2, <2>3 DEF Underway
      <3> QED
        BY <3>1, <3>2, <3>3
    <2>4. CASE ~UNCHANGED <<relays, disk>>
      <3>1. PICK ok \in BOOLEAN : /\ Spend(File(ok)) /\ Logged(r, <<p.claims>>, ok)
                                  /\ session'.phase = "claimed"
        <4>1. PICK ok \in BOOLEAN : Spend(File(ok)) /\ Logged(r, <<p.claims>>, ok)
          BY <1>9, <2>4 DEF RelayClaims
        <4>2. session'.phase = "claimed"
          BY <1>1, <1>9, <2>4 DEF RelayClaims, SessionType
        <4> QED
          BY <4>1, <4>2
      <3>2. ok
        <4>1. File(ok) = {} \cup File(ok)
          OBVIOUS
        <4> QED
          BY <3>1, <4>1, LoneWrites
      <3>3. r # Ext /\ r \in 1 .. Len(relays)
        <4>1. r \in 0 .. Len(relays) /\ r # 0 /\ r # Ext
          BY <2>1 DEF HostTypes, SessionOK, Places, Linked, Claiming
        <4> QED
          BY <1>1, <4>1
      <3>4. disk'.key = disk.key /\ disk'.settings = disk.settings /\ disk'.own = <<disk.key>>
        BY <1>3, <2>2, <3>1, <3>2, <3>3
      <3>5. /\ Len(relays') = Len(relays)
            /\ \A i \in 2 .. Len(relays) : relays'[i].log \in {relays[i].log, <<disk.key>>}
        <4>1. relays' = [relays EXCEPT ![r] = [relays[r] EXCEPT !.log = <<disk.key>>]]
          BY <2>2, <3>1 DEF Logged
        <4>2. relays[r] \in Relay
          BY <3>3, ElementOfSeq DEF HostTypes, RelaysOK
        <4>3. [relays[r] EXCEPT !.log = <<disk.key>>].log = <<disk.key>>
          BY <4>2 DEF Relay
        <4>4. Len(relays') = Len(relays)
          BY <3>1, <3>2, <3>3, <4>1, <4>2, LenProperties, ExceptSeq, <1>1
        <4> QED
          BY <1>1, <3>3, <4>1, <4>3, <4>4
      <3>6. OnlyKey(<<disk.key>>, disk.key) /\ <<disk.key>> # <<>>
        BY OnlyKeyShort
      <3>7. Keyed'
        <4>1. core.key = disk.key
          BY <2>2 DEF Keyed
        <4>2. \A i \in 2 .. Len(relays') : OnlyKey(relays'[i].log, disk.key)
          BY <3>5, <3>6 DEF Keyed
        <4> QED
          BY <1>1, <2>1, <3>4, <3>6, <4>1, <4>2 DEF Keyed
      <3>8. Underway'
        BY <1>1, <2>1, <2>2, <3>1, <3>4 DEF Underway
      <3>9. Places'
        BY <1>4, <2>1, <3>4 DEF Places, Joining, Linked, Claiming
      <3> QED
        BY <3>7, <3>8, <3>9
    <2> QED
      BY <2>3, <2>4
  <1>10. ~RelayAdds
    BY DEF RelayAdds, Places, Joining
  <1>11. ASSUME UNCHANGED session, disk'.key = disk.key, disk'.own = disk.own,
                disk'.settings = disk.settings, Len(relays') = Len(relays),
                \A i \in 2 .. Len(relays) : relays'[i].log = relays[i].log
         PROVE  Places' /\ Keyed' /\ Underway'
    <2>1. Keyed' /\ Underway'
      BY <1>1, <1>11, KeysUnmoved
    <2> QED
      BY <1>1, <1>11, <2>1 DEF Places
  <1>12. CASE PeerConnects \/ PeerLeaves
    <2>1. UNCHANGED <<session, disk, relays>>
      BY <1>12 DEF PeerConnects, PeerLeaves
    <2> QED
      BY <1>11, <2>1
  <1>13. CASE \E i \in {Ext, peer} : OthersAppend(i)
    <2>1. PICK i \in {Ext, peer} : OthersAppend(i)
      BY <1>13
    <2> DEFINE e == [kind |-> "other", by |-> "they", n |-> used.entry + 1]
               m == [type |-> "appended", entries |-> <<e>>]
               new == Append(relays[i].log, e)
    <2>2. PICK ok \in BOOLEAN : Spend({"entry"} \cup File(ok)) /\ Logged(i, new, ok)
      BY <2>1 DEF OthersAppend
    <2>3. ok
      BY <2>2, LoneWrites
    <2>4. /\ i \in 1 .. Len(relays) /\ relays[i].log # <<>>
          /\ session'.phase = session.phase /\ session'.target = session.target
          /\ session'.relay = session.relay /\ session'.up = session.up
          /\ session'.copy = session.copy
          /\ \/ session'.inbox = session.inbox
             \/ session'.inbox = Append(session.inbox, m) /\ session.relay = i
      <3>1. i \in 1 .. Len(relays) /\ relays[i].log # <<>>
        BY <1>1, <2>1, ExtThere DEF OthersAppend, HostTypes, RelaysOK, Ext
      <3>2. \/ session' = [session EXCEPT !.inbox = @]
            \/ session' = [session EXCEPT !.inbox = Append(@, m)] /\ session.relay = i
        BY <2>1 DEF OthersAppend
      <3> QED
        BY <1>1, <3>1, <3>2 DEF SessionType
    <2>5. e \in Entry
      BY DEF HostTypes, PastOK, Count, Entry
    <2>6. /\ disk'.key = disk.key /\ disk'.settings = disk.settings
          /\ disk'.own = IF i = Ext THEN disk.own ELSE new
      BY <1>3, <2>2, <2>3
    <2>7. /\ Len(relays') = Len(relays) /\ relays'[i].log = new
          /\ \A k \in 1 .. Len(relays) : k # i => relays'[k] = relays[k]
      <3>1. relays' = [relays EXCEPT ![i] = [relays[i] EXCEPT !.log = new]]
        BY <2>2 DEF Logged
      <3>2. relays[i] \in Relay
        BY <2>4, ElementOfSeq DEF HostTypes, RelaysOK
      <3>3. [relays[i] EXCEPT !.log = new].log = new
        BY <3>2 DEF Relay
      <3> QED
        BY <1>1, <2>4, <3>1, <3>3, LenProperties, ExceptSeq
    <2>8. m.entries = <<e>> /\ OnlyKey(<<e>>, disk.key) /\ e.kind # "create"
      BY OnlyKeyShort
    <2>9. new # <<>> /\ (i # Ext => OnlyKey(new, disk.key))
      <3>1. relays[i].log \in Log
        BY <1>2, <2>4
      <3>2. new # <<>>
        BY <2>5, <3>1, AppendProperties, LenProperties, EmptySeq DEF Log
      <3>3. i # Ext => OnlyKey(relays[i].log, disk.key)
        BY <1>1, <2>4 DEF Keyed, Ext
      <3> QED
        BY <2>5, <2>8, <3>1, <3>2, <3>3, OnlyKeyLogs
    <2> HIDE DEF e, m, new
    <2>10. disk'.own = <<>> => disk.own = <<>> /\ i = Ext
      BY <2>6, <2>9
    <2>11. i # Ext => disk.own # <<>> /\ core.key = disk.key
      BY <1>1, <2>4 DEF Keyed, Ext
    <2>12. \A q \in 1 .. Len(session'.inbox) : OnlyKey(session'.inbox[q].entries, disk.key)
      <3>1. session.inbox \in Seq(Message)
        BY <1>1 DEF SessionType
      <3>2. /\ Len(Append(session.inbox, m)) = Len(session.inbox) + 1
            /\ Append(session.inbox, m)[Len(session.inbox) + 1] = m
            /\ \A q \in 1 .. Len(session.inbox) : Append(session.inbox, m)[q] = session.inbox[q]
            /\ Len(session.inbox) \in Nat
        BY <3>1, LenProperties
      <3>3. \A q \in 1 .. Len(session.inbox) : OnlyKey(session.inbox[q].entries, disk.key)
        BY DEF Keyed
      <3>4. OnlyKey(m.entries, disk.key)
        BY <2>8
      <3>5. CASE session'.inbox = session.inbox
        BY <3>3, <3>5
      <3>6. CASE session'.inbox = Append(session.inbox, m)
        <4>1. \A q \in 1 .. Len(session.inbox) + 1 : q \in 1 .. Len(session.inbox) \/ q = Len(session.inbox) + 1
          BY <3>2
        <4> QED
          BY <3>2, <3>3, <3>4, <3>6, <4>1
      <3> QED
        BY <2>4, <3>5, <3>6
    <2>13. i = Ext => session'.inbox = session.inbox
      BY <2>4 DEF Places
    <2>14. Keyed'
      <3>1. \A k \in 2 .. Len(relays) : OnlyKey(relays'[k].log, disk.key)
        BY <1>1, <2>7, <2>9 DEF Keyed, Ext
      <3>2. disk'.own = <<>> => session'.inbox = <<>>
                                /\ \A k \in 2 .. Len(relays) : relays'[k].log = <<>>
        BY <1>1, <2>7, <2>10, <2>13 DEF Keyed, Ext
      <3>3. OnlyKey(disk'.own, disk.key)
        BY <2>6, <2>9 DEF Keyed
      <3>4. disk'.own # <<>> \/ core.log # <<>> => core.key = disk.key
        BY <2>6, <2>11 DEF Keyed
      <3> QED
        BY <1>1, <2>6, <2>7, <2>12, <3>1, <3>2, <3>3, <3>4 DEF Keyed
    <2>15. Underway'
      BY <1>1, <2>4, <2>6, <2>11 DEF Underway
    <2>16. Places'
      BY <1>1, <2>4, <2>6 DEF Places
    <2> QED
      BY <2>14, <2>15, <2>16
  <1>14. CASE OthersClaim
    <2>1. PICK ok \in BOOLEAN : Spend({"entry"} \cup File(ok)) /\ Logged(Ext, <<First>>, ok)
      BY <1>14 DEF OthersClaim
    <2>2. ok /\ UNCHANGED session
      BY <1>14, <2>1, LoneWrites DEF OthersClaim
    <2>3. disk'.key = disk.key /\ disk'.settings = disk.settings /\ disk'.own = disk.own
      BY <1>3, <2>1, <2>2
    <2>4. Len(relays') = Len(relays) /\ \A k \in 2 .. Len(relays) : relays'[k].log = relays[k].log
      <3>1. relays' = [relays EXCEPT ![Ext] = [relays[Ext] EXCEPT !.log = <<First>>]]
        BY <2>1 DEF Logged
      <3> QED
        BY <1>1, <3>1, ExtThere, LenProperties, ExceptSeq DEF Ext
    <2> QED
      BY <1>11, <2>2, <2>3, <2>4
  <1>15. ~Break
    BY DEF Break, Places
  <1>16. CASE RestartRelay
    <2>1. UNCHANGED disk /\ session' = [session EXCEPT !.up = @ /\ session.relay # Ext]
      BY <1>16 DEF RestartRelay
    <2>2. /\ session'.phase = session.phase /\ session'.target = session.target
          /\ session'.relay = session.relay /\ session'.inbox = session.inbox
          /\ session'.copy = session.copy /\ session'.up = (session.up /\ session.relay # Ext)
      BY <1>1, <2>1 DEF SessionType
    <2>3. /\ Len(relays') = Len(relays)
          /\ \A i \in 2 .. Len(relays) : relays'[i].log = relays[i].log
      BY <1>1, <1>16, RestartRelayEffect DEF Ext
    <2>4. Keyed'
      BY <1>5, <2>1, <2>2, <2>3
    <2>5. Underway'
      BY <1>1, <2>1, <2>2 DEF Underway
    <2>6. Places'
      <3>1. session'.phase \in Linked => session'.up
        BY <2>2 DEF Places
      <3> QED
        BY <1>4, <2>1, <2>2, <3>1 DEF Places
    <2> QED
      BY <2>4, <2>5, <2>6
  <1> QED
    BY <1>7, <1>8, <1>9, <1>10, <1>12, <1>13, <1>14, <1>15, <1>16 DEF Others

LEMMA KeyRestart ==
    ASSUME HostTypes, HostTypes', Places, Keyed, RestartApp
    PROVE  Places' /\ Keyed' /\ Underway'
  <1>1. /\ UNCHANGED disk /\ settings' = disk.settings /\ core'.log = <<>> /\ core'.key = disk.key
        /\ core'.pending = None /\ session' = [NoSession EXCEPT !.phase = "loop"]
        /\ jobs'["join"].step = "idle" /\ Len(relays') = 1
    BY DEF RestartApp, Job
  <1>2. session'.phase = "loop" /\ session'.inbox = <<>> /\ session'.relay = 0
        /\ session'.target = None
    BY <1>1 DEF NoSession
  <1>3. Places'
    BY <1>1, <1>2 DEF Places, Homes, Ext, Joining, Linked, Claiming
  <1>4. Keyed'
    BY <1>1, <1>2, OnlyKeyShort DEF Keyed
  <1>5. Underway'
    BY <1>1, <1>2 DEF Underway, Claiming
  <1> QED
    BY <1>3, <1>4, <1>5

LEMMA KeyStep ==
    HostTypes /\ HostTypes' /\ OnlineInv /\ KeyInv /\ [HostNext]_hostVars => KeyInv'
  <1> SUFFICES ASSUME HostTypes, HostTypes', OnlineInv, KeyInv, [HostNext]_hostVars, Lone'
               PROVE  Places' /\ Keyed' /\ Underway'
    BY DEF KeyInv
  <1>1. Lone /\ Places /\ Keyed /\ Underway /\ Ready
    BY LoneStays DEF KeyInv, OnlineInv
  <1>2. CASE UNCHANGED hostVars
    <2>1. UNCHANGED <<settings, core, session, jobs, relays, disk>>
      BY <1>2 DEF hostVars, appVars, relayVars
    <2> QED
      BY <1>1, <2>1 DEF Places, Keyed, Underway
  <1> QED
    BY <1>1, <1>2, StepKinds, KeyStart, KeyCommand, KeyWorker, KeyOthers, KeyRestart

LEMMA KeyInvariant == HostSpec => []KeyInv
  BY TypesInvariant, OnlineInvariant, KeyInit, KeyStep, PTL DEF HostSpec

\* A device that only hosts has the key of the workspace in its log, over all
\* resets, stops and restarts, and whatever others append: the key is on disk
\* before the claim goes out, and only a workspace that no relay has taken is
\* given up (host_workspace, claim_workspace, fail_onboarding, build_core).
THEOREM OwnKeyKeptAlways == HostSpec => []OwnKeyKept
  <1>1. HostTypes /\ KeyInv => OwnKeyKept
    <2> SUFFICES ASSUME HostTypes, KeyInv, Lone, WorkspaceOf(core.log) # None
                 PROVE  core.key = WorkspaceOf(core.log)
      BY LoneMeans DEF OwnKeyKept
    <2>1. Keyed
      BY DEF KeyInv
    <2>2. core.log \in Log /\ core.log # <<>>
      BY DEF HostTypes, AppOK, CoreType, WorkspaceOf
    <2> QED
      BY <2>1, <2>2, OnlyKeyLogs DEF Keyed
  <1> QED
    BY <1>1, TypesInvariant, KeyInvariant, PTL
=============================================================================
