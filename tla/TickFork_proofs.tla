-------------------------- MODULE TickFork_proofs --------------------------
(***************************************************************************)
(* The window of the tick fork for any number of request processors, pages *)
(* and ticks and any bounds: the checkpoint finds its files, what is       *)
(* written is read back, a shutdown leaves nothing behind; and, but for    *)
(* two races, a state taken on trust can be rewound.                       *)
(***************************************************************************)
EXTENDS TickFork, FiniteSetTheorems, TLAPS

----------------------------------------------------------------------------
(* The inductive invariant *)

Retire == {"retirePark", "retireLock", "retireQuiet", "retireReap", "retired"}
Forking == {"forkPark", "forkLock", "forkQuiet"}
Quiet == {"forkQuiet", "retireQuiet", "retireReap", "retired"}
Open == {"Live", "Retiring"}

\* The phase of the barrier is odd while the main thread keeps the writers out;
\* an acknowledgement is of the current phase only if its request processor is
\* parked.  The memory of a checkpoint is that of a released barrier.
Barrier ==
  /\ node.phase % 2 = 1 <=> bpc \in Retire \cup Forking
  /\ \A w \in Workers :
       /\ node.ack[w] <= node.phase
       /\ node.ack[w] = node.phase /\ node.phase % 2 = 1 => wpc[w] = "parked"
  /\ bpc \in Quiet \cup {"retireLock", "forkLock"} => allAcknowledged
  /\ up => (rpcLock = "bsp" <=> bpc \in Quiet)
  /\ \A c \in child : c.phase % 2 = 0 /\ \A w \in Workers : c.ack[w] <= c.phase

\* A request processor or RPC thread at work has a page operation in flight.
Held ==
  /\ \A w \in Workers : wpc[w] = "busy" <=> job[w].kind # "none"
  /\ rpcLock = "rpc" <=> job["rpc"].kind # "none"

\* A page operation in flight is aimed at the directory of the current window
\* and noted there, and no two are on the same page.
Aimed ==
  /\ \A w \in Writers : job[w].kind # "none" =>
       /\ job[w].page \in Pages
       /\ job[w].dir = DirFor
       /\ job[w].kind = "write" =>
            job[w].value # 0 /\ (node.active => job[w].page \in node.written)
       /\ job[w].kind = "remove" =>
            job[w].value = 0 /\ (node.active => job[w].page \in node.removed)
  /\ \A v, w \in Writers :
       v # w /\ job[v].kind # "none" /\ job[w].kind # "none" => job[v].page # job[w].page

Jobs == Held /\ Aimed

\* The shadow is active from the fork to the commit, and only then there may be
\* a checkpoint process.
Window ==
  /\ node.active <=> node.childPid = "child"
  /\ node.active => node.win \in Open \/ tpc = "claim"
  /\ node.win \in Open => node.active
  /\ ~node.active => node.written = {} /\ node.removed = {}
  /\ child # {} => node.active
  /\ bpc \in Forking => tpc = "claim" /\ node.childPid = "idle"
  /\ node.forkRequest => tpc = "claim" /\ node.childPid = "idle" /\ bpc \notin Forking
  /\ bpc \in {"forkSkipped", "retired", "left"} => ~node.active
  /\ tpc \in {"establish", "stopped"} => ~node.active
  /\ node.handoff = "Succeeded" => ~node.active

\* The hand-off of a retirement between the tick processor and the main thread.
HandOff ==
  /\ tpc = "retire" => node.handoff \in {"Requested", "Running", "Succeeded", "Failed"}
  /\ tpc = "shutdown" =>
       node.handoff \in {"ShutdownRequested", "Running", "Succeeded", "Failed"} /\ node.win # "Live"
  /\ tpc \notin {"retire", "shutdown"} => node.handoff = "Idle"
  /\ bpc \in Retire <=> why # "none"
  /\ why = "window" => tpc = "retire" /\ node.handoff = "Running"
  /\ why = "shutdown" => tpc = "shutdown" /\ node.handoff = "Running"
  /\ node.handoff = "Running" => why \in {"window", "shutdown"}

\* What the page files hold, for pages that nobody works on.  A page written in
\* a window is missing in the shadow only if the window is poisoned.
Content ==
  /\ \A c \in child : real = c.page
  /\ \A p \in Pages : PageFree(p) =>
       /\ p \notin node.written \cup node.removed => real[p] = node.page[p]
       /\ p \in node.removed => spare[p] = 0 /\ node.page[p] = 0
       /\ p \in node.written =>
            node.page[p] # 0 /\ (spare[p] = node.page[p] \/ (spare[p] = 0 /\ node.poisoned))

ForkInv == TypeOK /\ Barrier /\ Jobs /\ Window /\ HandOff /\ Content

\* No request to persist comes between the end of the tick processor's wait and
\* the reset of the waiting flag.
QuietResume == tpc = "resume" => ~node.persist

\* The main thread saves only while the tick processor waits.
Saving ==
  /\ node.waiting <=> tpc \in {"persist", "resume"}
  /\ why = "autosave" \/ bpc = "saving" => tpc = "persist" /\ node.persist
  /\ \A c \in child : ~c.waiting

\* A tick with a solution is executed on trust only in a live window, and a node
\* with a mistaken state is still in that window or shuts down.
Trusted ==
  /\ tpc = "process" /\ isTrustingClaimedSolutionScore /\ node.tick \in Solutions
       => node.win = "Live"
  /\ tpc = "retire" =>
       node.thenFork \/ node.main \/ node.tick = LastTick \/ node.tick \notin Solutions
  /\ up /\ node.mistaken =>
       (tpc = "compare" /\ node.win = "Live") \/ tpc \in {"shutdown", "stopped"}
  /\ \A c \in child : ~c.mistaken

----------------------------------------------------------------------------
(* Types *)

\* The initial state is well typed.
LEMMA ForkTypeInit == Init => TypeOK
  BY ForkAssumption, FS_EmptySet
     DEF Init, TypeOK, Memory, NoFiles, NoJob, Silence, Writers

----------------------------------------------------------------------------
(* What steps leave alone *)

SameBarrier == node'.phase = node.phase /\ node'.ack = node.ack
SameShadow ==
  /\ node'.active = node.active /\ node'.poisoned = node.poisoned /\ node'.page = node.page
  /\ node'.written = node.written /\ node'.removed = node.removed
SameWindow ==
  /\ node'.childPid = node.childPid /\ node'.forkRequest = node.forkRequest
  /\ node'.win = node.win
SameNode == SameBarrier /\ SameShadow /\ SameWindow /\ node'.handoff = node.handoff

\* Nobody writes a page, and the shadow stays as it is.
LEMMA NoWrite ==
  ASSUME ForkInv, SameShadow, UNCHANGED <<job, real, spare>>, child' \subseteq child,
         \A w \in Workers : wpc'[w] = "busy" <=> wpc[w] = "busy",
         rpcLock' = "rpc" <=> rpcLock = "rpc"
  PROVE  Jobs' /\ Content'
<1>1. Jobs'
  BY DEF ForkInv, Jobs, Held, Aimed, SameShadow, DirFor
<1>2. Content'
  BY DEF ForkInv, Content, SameShadow, PageFree
<1> QED BY <1>1, <1>2

\* The main thread and the request processors stay where they are.
LEMMA BarrierAlone ==
  ASSUME ForkInv, SameBarrier, UNCHANGED <<bpc, wpc, rpcLock>>, child' \subseteq child, up' => up
  PROVE  Barrier'
BY DEF ForkInv, Barrier, SameBarrier, allAcknowledged

\* A step that changes neither positions nor what the invariant tells of the memory.
LEMMA Aside ==
  ASSUME ForkInv, TypeOK', SameNode, UNCHANGED <<threads, real, spare>>, child' \subseteq child,
         up' => up
  PROVE  ForkInv'
<1>1. UNCHANGED <<tpc, bpc, why, wpc, job, rpcLock, real, spare>>
  BY DEF threads
<1>2. Jobs' /\ Content'
  BY <1>1, NoWrite DEF SameNode
<1>3. Barrier'
  BY <1>1, BarrierAlone DEF SameNode
<1>4. Window' /\ HandOff'
  BY <1>1 DEF ForkInv, Window, HandOff, SameNode, SameShadow, SameWindow
<1> QED BY <1>2, <1>3, <1>4 DEF ForkInv

\* The memory has all its fields.
LEMMA NodeType == ForkInv => node \in Memory /\ child \subseteq Memory
BY DEF ForkInv, TypeOK

\* A step of the tick processor or of the main thread that writes no page file.
LEMMA TypeKept ==
  ASSUME ForkInv, up' \in {up, FALSE},
         \/ node' = node
         \/ node' \in Memory /\ SameShadow
         \/ node' \in Memory /\ node'.written = {},
         tpc' \in {tpc, "next", "persist", "resume", "ready", "retire", "establish", "claim",
                   "process", "compare", "shutdown", "stopped", "halted", "done"},
         bpc' \in {bpc, "loop", "saving", "retirePark", "retireLock", "retireQuiet", "retireReap",
                   "retired", "forkPark", "forkLock", "forkQuiet", "forkSkipped", "left"},
         why' \in {why, "none", "window", "shutdown", "autosave"},
         rpcLock' \in {rpcLock, "free", "bsp"},
         pipe' \in {pipe, [tag |-> "R", target |-> 0], [tag |-> "P", target |-> node.tick]},
         progress' \in {progress, node.tick},
         UNCHANGED <<wpc, job, child, real, spare, faults, toggles, saves>>
  PROVE  TypeOK'
<1>1. TypeOK /\ node.tick \in 0 .. LastTick /\ 0 \in 0 .. LastTick
  <2>1. TypeOK /\ node \in Memory
    BY DEF ForkInv, TypeOK
  <2> QED BY <2>1, ForkAssumption DEF Memory
<1>2. up' \in BOOLEAN /\ node' \in Memory /\ node'.written \cap node'.removed = {}
  BY <1>1, Zenon DEF TypeOK, SameShadow
<1>3. pipe' \in [tag : {"none", "R", "P"}, target : 0 .. LastTick] /\ progress' \in 0 .. LastTick
  BY <1>1 DEF TypeOK
<1>4. /\ tpc' \in {"next", "persist", "resume", "ready", "retire", "establish", "claim", "process",
                   "compare", "shutdown", "stopped", "halted", "done"}
      /\ bpc' \in {"loop", "saving", "retirePark", "retireLock", "retireQuiet", "retireReap", "retired",
                   "forkPark", "forkLock", "forkQuiet", "forkSkipped", "left"}
      /\ why' \in {"none", "window", "shutdown", "autosave"}
      /\ rpcLock' \in {"free", "rpc", "bsp"}
  BY <1>1 DEF TypeOK
<1>5. /\ child' \subseteq Memory /\ Cardinality(child') <= 1
      /\ wpc' \in [Workers -> {"loop", "busy", "parked"}]
      /\ job' \in [Writers -> [kind : {"none", "write", "remove"}, page : Pages \cup {0},
                               dir : {"real", "shadow"}, value : 0 .. LastTick]]
      /\ real' \in [Pages -> 0 .. LastTick] /\ spare' \in [Pages -> 0 .. LastTick]
      /\ faults' \in 0 .. MaxFaults /\ toggles' \in 0 .. MaxToggles /\ saves' \in 0 .. MaxSaves
  BY <1>1, Zenon DEF TypeOK
<1> QED BY <1>2, <1>3, <1>4, <1>5, Zenon DEF TypeOK

----------------------------------------------------------------------------
(* The tick processor *)

\* The tick processor writes no page but in processTick, and leaves the main
\* thread and the request processors where they are.
LEMMA TickThread ==
  ASSUME ForkInv, TypeOK', SameBarrier, SameShadow, Window', HandOff',
         UNCHANGED <<bpc, why, wpc, job, rpcLock, child, real, spare>>, up' => up
  PROVE  ForkInv'
<1>1. Jobs' /\ Content'
  BY NoWrite
<1>2. Barrier'
  BY BarrierAlone
<1> QED BY <1>1, <1>2 DEF ForkInv

\* A shutdown asks the main thread for a retirement until it gets one.
LEMMA ShutdownSteps ==
  ASSUME ForkInv, retireCheckpointForShutdown \/ shutdownAnswered
  PROVE  ForkInv'
<1>0. node \in Memory
  BY NodeType
<1>1. CASE retireCheckpointForShutdown
  <2> DEFINE w == IF node.win = "Live" THEN "Retiring" ELSE node.win
  <2>1. node' = [node EXCEPT !.win = w, !.handoff = "ShutdownRequested"]
    BY <1>1 DEF retireCheckpointForShutdown
  <2>2. w \in {"Idle", "Checkpointing", "Live", "Retiring"} /\ w # "Live"
    BY <1>0 DEF Memory
  <2>3. w \in Open <=> node.win \in Open
    BY <1>0 DEF Memory, Open
  <2> HIDE DEF w
  <2>4. node' \in Memory
    BY <1>0, <2>1, <2>2, ZenonT(40) DEF Memory
  <2>5. /\ SameBarrier /\ SameShadow
        /\ node'.childPid = node.childPid /\ node'.forkRequest = node.forkRequest
        /\ node'.win = w /\ node'.handoff = "ShutdownRequested"
    BY <1>0, <2>1 DEF Memory, SameBarrier, SameShadow
  <2>6. TypeOK'
    BY <1>1, <2>4, <2>5, TypeKept DEF retireCheckpointForShutdown, world, bounds
  <2>7. Window' /\ HandOff'
    BY <1>1, <2>2, <2>3, <2>5
       DEF ForkInv, Window, HandOff, retireCheckpointForShutdown, SameShadow, world, Retire, Forking
  <2> QED BY <1>1, <2>5, <2>6, <2>7, TickThread DEF retireCheckpointForShutdown, world
<1>2. CASE shutdownAnswered
  <2>1. PICK h \in {"Idle", "ShutdownRequested"} :
          /\ node' = [node EXCEPT !.handoff = h]
          /\ h = "Idle" => node.handoff = "Succeeded" /\ tpc' = "stopped"
          /\ h = "ShutdownRequested" => node.handoff = "Failed" /\ tpc' = "shutdown"
    BY <1>2 DEF shutdownAnswered
  <2>2. node' \in Memory
    BY <1>0, <2>1, Zenon DEF Memory
  <2>3. SameBarrier /\ SameShadow /\ SameWindow /\ node'.handoff = h
    BY <1>0, <2>1 DEF Memory, SameBarrier, SameShadow, SameWindow
  <2>4. TypeOK'
    BY <1>2, <2>1, <2>2, <2>3, TypeKept DEF shutdownAnswered, world, bounds
  <2>5. Window' /\ HandOff'
    BY <1>2, <2>1, <2>3
       DEF ForkInv, Window, HandOff, shutdownAnswered, SameShadow, SameWindow, world, Retire, Forking
  <2> QED BY <1>2, <2>3, <2>4, <2>5, TickThread DEF shutdownAnswered, world
<1> QED BY <1>1, <1>2

\* The wait for the node state to be saved changes the waiting flag only.
LEMMA PersistSteps ==
  ASSUME ForkInv, waitForPersisting \/ persistingSeen \/ persistingDone
  PROVE  ForkInv'
<1>0. node \in Memory
  BY NodeType
<1>1. PICK b \in BOOLEAN : node' = [node EXCEPT !.waiting = b]
  <2>1. CASE waitForPersisting
    BY <2>1, Zenon DEF waitForPersisting
  <2>2. CASE persistingSeen
    <3>1. node' = [node EXCEPT !.waiting = node.waiting] /\ node.waiting \in BOOLEAN
      BY <1>0, <2>2 DEF persistingSeen, Memory
    <3> QED BY <3>1
  <2>3. CASE persistingDone
    BY <2>3, Zenon DEF persistingDone
  <2> QED BY <2>1, <2>2, <2>3
<1>2. node' \in Memory
  BY <1>0, <1>1, Zenon DEF Memory
<1>3. SameNode
  BY <1>0, <1>1 DEF Memory, SameNode, SameBarrier, SameShadow, SameWindow
<1>4. /\ UNCHANGED <<up, bpc, why, wpc, job, rpcLock, world, bounds>>
      /\ tpc \in {"next", "persist", "resume"} /\ tpc' \in {"persist", "resume", "ready"}
  BY DEF waitForPersisting, persistingSeen, persistingDone
<1>5. TypeOK'
  BY <1>2, <1>3, <1>4, TypeKept DEF SameNode, world, bounds
<1>6. Window' /\ HandOff'
  BY <1>3, <1>4 DEF ForkInv, Window, HandOff, SameNode, SameShadow, SameWindow, world, Retire, Forking
<1> QED BY <1>3, <1>4, <1>5, <1>6, TickThread DEF SameNode, world

\* Before a tick a window may be asked to end, and a window that is not live is idle
\* or about to be established.
LEMMA MaybeForkStep ==
  ASSUME ForkInv, maybeForkBeforeTick
  PROVE  ForkInv'
<1>0. node \in Memory
  BY NodeType
<1>1. /\ UNCHANGED <<up, bpc, why, wpc, job, rpcLock, child, pipe, real, spare, bounds>>
      /\ tpc \in {"next", "ready"}
  BY DEF maybeForkBeforeTick
<1>2. progress' \in {progress, node.tick}
  BY Zenon DEF maybeForkBeforeTick
<1>3. CASE UNCHANGED node
  <2>1. SameNode
    BY <1>3 DEF SameNode, SameBarrier, SameShadow, SameWindow
  <2>2. tpc' = "process" \/ (tpc' = "establish" /\ node.win = "Idle")
    <3>1. ~\E x : RequestRetire(x)
      BY <1>1, <1>3, <1>0, Zenon DEF RequestRetire, Memory
    <3> QED BY <3>1, Zenon DEF maybeForkBeforeTick
  <2>3. TypeOK'
    BY <1>0, <1>1, <1>2, <1>3, <2>2, ForkAssumption, TypeKept, ZenonT(40) DEF bounds
  <2>4. Window' /\ HandOff'
    BY <1>1, <2>1, <2>2 DEF ForkInv, Window, HandOff, SameNode, SameShadow, SameWindow, Retire, Forking, Open
  <2> QED BY <1>1, <2>1, <2>3, <2>4, TickThread DEF SameNode
<1>4. CASE ~UNCHANGED node
  <2>1. PICK x \in BOOLEAN : RequestRetire(x)
    <3>1. RequestRetire(FALSE) \/ RequestRetire(node.tick \in Solutions)
      BY <1>4, Zenon DEF maybeForkBeforeTick
    <3>2. (node.tick \in Solutions) \in BOOLEAN /\ FALSE \in BOOLEAN
      OBVIOUS
    <3> QED BY <3>1, <3>2, Zenon
  <2>2. node.win = "Live"
    BY <1>4, Zenon DEF maybeForkBeforeTick
  <2>3. node' = [node EXCEPT !.win = "Retiring", !.handoff = "Requested", !.thenFork = x]
    BY <2>1 DEF RequestRetire
  <2>4. node' \in Memory
    BY <1>0, <2>3, ZenonT(40) DEF Memory
  <2>5. /\ SameBarrier /\ SameShadow
        /\ node'.childPid = node.childPid /\ node'.forkRequest = node.forkRequest
        /\ node'.win = "Retiring" /\ node'.handoff = "Requested"
    BY <1>0, <2>3 DEF Memory, SameBarrier, SameShadow
  <2>6. tpc' = "retire" /\ node.handoff = "Idle"
    BY <2>1 DEF RequestRetire
  <2>7. node.tick \in 0 .. LastTick
    BY <1>0, ForkAssumption DEF Memory
  <2>8. TypeOK'
    BY <1>1, <1>2, <2>4, <2>5, <2>6, <2>7, TypeKept, ZenonT(40) DEF bounds
  <2>9. Window' /\ HandOff'
    BY <1>1, <2>2, <2>5, <2>6 DEF ForkInv, Window, HandOff, SameShadow, Retire, Forking, Open
  <2> QED BY <1>1, <2>5, <2>8, <2>9, TickThread
<1> QED BY <1>3, <1>4

\* After the retirement there is no window; without one the process ends.
LEMMA RetireAnsweredStep ==
  ASSUME ForkInv, retireAnswered
  PROVE  ForkInv'
<1>0. node \in Memory /\ node.tick \in 0 .. LastTick
  <2>1. node \in Memory
    BY NodeType
  <2> QED BY <2>1, ForkAssumption DEF Memory
<1>1. /\ UNCHANGED <<bpc, why, wpc, job, rpcLock, child, progress, real, spare, bounds>>
      /\ up /\ tpc = "retire"
  BY DEF retireAnswered
<1>2. CASE node.handoff = "Succeeded"
  <2>1. /\ node' = [node EXCEPT !.handoff = "Idle"] /\ UNCHANGED <<up, pipe>>
        /\ tpc' \in {"establish", "process"}
    BY <1>2 DEF retireAnswered
  <2>2. node' \in Memory
    BY <1>0, <2>1, Zenon DEF Memory
  <2>3. SameBarrier /\ SameShadow /\ SameWindow /\ node'.handoff = "Idle"
    BY <1>0, <2>1 DEF Memory, SameBarrier, SameShadow, SameWindow
  <2>4. TypeOK'
    BY <1>1, <2>1, <2>2, <2>3, TypeKept DEF bounds
  <2>5. Window' /\ HandOff'
    BY <1>1, <1>2, <2>1, <2>3
       DEF ForkInv, Window, HandOff, SameShadow, SameWindow, Retire, Forking
  <2> QED BY <1>1, <2>1, <2>3, <2>4, <2>5, TickThread
<1>3. CASE node.handoff # "Succeeded"
  <2>1. /\ UNCHANGED <<node, tpc>> /\ up' = FALSE
        /\ pipe' = [tag |-> "P", target |-> node.tick]
    BY <1>3, Zenon DEF retireAnswered, TellPromote
  <2>2. TypeOK'
    BY <1>0, <1>1, <2>1, TypeKept, Zenon DEF bounds
  <2> QED
    BY <1>1, <2>1, <2>2, Aside DEF threads, SameNode, SameBarrier, SameShadow, SameWindow
<1> QED BY <1>2, <1>3

\* A request to fork is made without a window.
LEMMA EstablishStep ==
  ASSUME ForkInv, establishCheckpoint
  PROVE  ForkInv'
<1>0. node \in Memory /\ node.tick \in 0 .. LastTick /\ node.tick \in Nat
  <2>1. node \in Memory
    BY NodeType
  <2> QED BY <2>1, ForkAssumption DEF Memory
<1>1. /\ UNCHANGED <<up, bpc, why, wpc, job, rpcLock, child, pipe, real, spare, bounds>>
      /\ tpc = "establish" /\ progress' = node.tick
  BY DEF establishCheckpoint
<1>2. PICK k \in WindowSizes :
        \/ node' = [Strictly(node) EXCEPT !.k = k] /\ tpc' = "process"
        \/ /\ node' = [node EXCEPT !.k = k, !.win = "Checkpointing", !.childPid = "idle",
                                   !.forkRequest = TRUE]
           /\ tpc' = "claim"
  BY Zenon DEF establishCheckpoint
<1>3. k \in WindowSizes \cup {0}
  OBVIOUS
<1>4. CASE node' = [Strictly(node) EXCEPT !.k = k] /\ tpc' = "process"
  <2>1. Strictly(node) \in Memory
    BY <1>0, Zenon DEF Memory, Strictly
  <2>2. node' \in Memory
    BY <1>3, <1>4, <2>1, Zenon DEF Memory
  <2>3. /\ SameBarrier /\ SameShadow /\ node'.win = "Idle" /\ node'.handoff = node.handoff
        /\ node'.childPid = node.childPid /\ node'.forkRequest = node.forkRequest
    BY <1>0, <1>4 DEF Memory, Strictly, SameBarrier, SameShadow
  <2>4. TypeOK'
    BY <1>0, <1>1, <1>4, <2>2, <2>3, TypeKept DEF bounds
  <2>5. Window' /\ HandOff'
    BY <1>1, <1>4, <2>3 DEF ForkInv, Window, HandOff, SameShadow, Retire, Forking, Open
  <2> QED BY <1>1, <2>3, <2>4, <2>5, TickThread
<1>5. CASE /\ node' = [node EXCEPT !.k = k, !.win = "Checkpointing", !.childPid = "idle",
                                   !.forkRequest = TRUE]
           /\ tpc' = "claim"
  <2>1. node' \in Memory
    BY <1>0, <1>3, <1>5, Zenon DEF Memory
  <2>2. /\ SameBarrier /\ SameShadow /\ node'.win = "Checkpointing"
        /\ node'.handoff = node.handoff /\ node'.childPid = "idle" /\ node'.forkRequest = TRUE
    BY <1>0, <1>5 DEF Memory, SameBarrier, SameShadow
  <2>3. TypeOK'
    BY <1>0, <1>1, <1>5, <2>1, <2>2, TypeKept DEF bounds
  <2>4. Window' /\ HandOff'
    BY <1>1, <1>5, <2>2 DEF ForkInv, Window, HandOff, SameShadow, Retire, Forking, Open
  <2> QED BY <1>1, <2>2, <2>3, <2>4, TickThread
<1> QED BY <1>2, <1>4, <1>5

\* The window is live once the main thread has forked.
LEMMA CheckpointAnsweredStep ==
  ASSUME ForkInv, checkpointAnswered
  PROVE  ForkInv'
<1>0. node \in Memory /\ node.tick \in 0 .. LastTick /\ node.tick \in Nat
  <2>1. node \in Memory
    BY NodeType
  <2> QED BY <2>1, ForkAssumption DEF Memory
<1>1. UNCHANGED <<bpc, why, wpc, job, rpcLock, world, bounds>> /\ up /\ tpc = "claim"
  BY DEF checkpointAnswered
<1>2. CASE node.childPid = "child"
  <2>1. /\ node' = [node EXCEPT !.start = node.tick, !.win = "Live"]
        /\ tpc' = "process" /\ UNCHANGED up
    BY <1>2 DEF checkpointAnswered
  <2>2. node' \in Memory
    BY <1>0, <2>1, Zenon DEF Memory
  <2>3. /\ SameBarrier /\ SameShadow /\ node'.win = "Live" /\ node'.handoff = node.handoff
        /\ node'.childPid = node.childPid /\ node'.forkRequest = node.forkRequest
    BY <1>0, <2>1 DEF Memory, SameBarrier, SameShadow
  <2>4. TypeOK'
    BY <1>1, <2>1, <2>2, <2>3, TypeKept DEF world, bounds
  <2>5. Window' /\ HandOff'
    BY <1>1, <1>2, <2>1, <2>3, ZenonT(40)
       DEF ForkInv, Window, HandOff, SameShadow, Retire, Forking, Open, world
  <2> QED BY <1>1, <2>1, <2>3, <2>4, <2>5, TickThread DEF world
<1>3. CASE node.childPid = "failed"
  <2>1. node' = Strictly(node) /\ tpc' = "process" /\ UNCHANGED up
    BY <1>3 DEF checkpointAnswered
  <2>2. node' \in Memory
    BY <1>0, <2>1, ZenonT(40) DEF Memory, Strictly
  <2>3. /\ SameBarrier /\ SameShadow /\ node'.win = "Idle" /\ node'.handoff = node.handoff
        /\ node'.childPid = node.childPid /\ node'.forkRequest = node.forkRequest
    BY <1>0, <2>1 DEF Memory, Strictly, SameBarrier, SameShadow
  <2>4. TypeOK'
    BY <1>1, <2>1, <2>2, <2>3, TypeKept DEF world, bounds
  <2>5. Window' /\ HandOff'
    BY <1>1, <1>3, <2>1, <2>3 DEF ForkInv, Window, HandOff, SameShadow, Retire, Forking, Open, world
  <2> QED BY <1>1, <2>1, <2>3, <2>4, <2>5, TickThread DEF world
<1>4. CASE node.childPid = "idle"
  <2>1. up' = FALSE /\ UNCHANGED <<node, tpc>>
    BY <1>4 DEF checkpointAnswered
  <2>2. TypeOK'
    BY <1>1, <2>1, TypeKept, Zenon DEF world, bounds
  <2> QED
    BY <1>1, <2>1, <2>2, Aside DEF threads, SameNode, SameBarrier, SameShadow, SameWindow, world
<1> QED BY <1>2, <1>3, <1>4, <1>0 DEF Memory

\* tickCompleted, and the two ends of a mismatch.
LEMMA VerdictSteps ==
  ASSUME ForkInv, tickCompleted \/ verdictMismatch \/ noRollbackAvailable
  PROVE  ForkInv'
<1>0. node \in Memory /\ node.tick \in 0 .. LastTick
  <2>1. node \in Memory
    BY NodeType
  <2> QED BY <2>1, ForkAssumption DEF Memory
<1>1. CASE verdictMismatch
  <2>1. TypeOK'
    BY <1>0, <1>1, TypeKept, ZenonT(40) DEF verdictMismatch, TellPromote, threads, bounds
  <2> QED
    BY <1>1, <2>1, Aside
       DEF verdictMismatch, TellPromote, SameNode, SameBarrier, SameShadow, SameWindow
<1>2. CASE tickCompleted \/ noRollbackAvailable
  <2>1. PICK t \in 1 .. LastTick, m \in BOOLEAN : node' = [node EXCEPT !.tick = t, !.main = m]
    <3>1. CASE UNCHANGED node
      <4>1. node' = [node EXCEPT !.tick = node.tick, !.main = node.main]
        BY <1>0, <3>1, Zenon DEF Memory
      <4> QED BY <1>0, <4>1, Zenon DEF Memory
    <3>2. CASE tickCompleted /\ node.tick # LastTick
      <4>1. node.tick + 1 \in 1 .. LastTick
        BY <1>0, <3>2, ForkAssumption DEF Memory
      <4> QED BY <3>2, <4>1, Zenon DEF tickCompleted
    <3> QED BY <1>2, <3>1, <3>2, Zenon DEF tickCompleted, noRollbackAvailable
  <2>2. node' \in Memory
    BY <1>0, <2>1, Zenon DEF Memory
  <2>3. SameNode
    BY <1>0, <2>1 DEF Memory, SameNode, SameBarrier, SameShadow, SameWindow
  <2>4. /\ UNCHANGED <<up, bpc, why, wpc, job, rpcLock, world, faults, saves>>
        /\ tpc = "compare" /\ tpc' \in {"done", "next", "halted"}
    BY <1>2, Zenon DEF tickCompleted, noRollbackAvailable, bounds
  <2>5. toggles' \in 0 .. MaxToggles
    <3>1. toggles' = toggles \/ (toggles < MaxToggles /\ toggles' = toggles + 1)
      BY <1>2, Zenon DEF tickCompleted, noRollbackAvailable, bounds
    <3>2. toggles \in 0 .. MaxToggles
      BY DEF ForkInv, TypeOK
    <3> QED BY <3>1, <3>2, ForkAssumption
  <2>6. TypeOK'
    BY <2>2, <2>3, <2>4, <2>5 DEF ForkInv, TypeOK, SameNode, SameShadow, world
  <2>7. Window' /\ HandOff'
    BY <2>3, <2>4, Zenon
       DEF ForkInv, Window, HandOff, SameNode, SameShadow, SameWindow, world, Retire, Forking
  <2> QED BY <2>3, <2>4, <2>6, <2>7, TickThread DEF SameNode, world
<1> QED BY <1>1, <1>2

----------------------------------------------------------------------------
(* Writers of pages *)

\* dirForWrite and dirForRemove note a page on one of the two lists.
LEMMA NotedPage ==
  ASSUME NEW m \in Memory, NEW p \in Pages, NEW kind \in {"write", "remove"},
         m.written \cap m.removed = {}, ~m.active => m.written = {} /\ m.removed = {}
  PROVE  LET n == Noted(m, kind, p)
         IN  /\ n \in Memory /\ n.written \cap n.removed = {}
             /\ n.active = m.active /\ n.poisoned = m.poisoned /\ n.page = m.page
             /\ n.phase = m.phase /\ n.ack = m.ack
             /\ n.win = m.win /\ n.childPid = m.childPid /\ n.forkRequest = m.forkRequest
             /\ n.handoff = m.handoff
             /\ ~m.active => n.written = {} /\ n.removed = {}
             /\ m.active => (p \in n.written <=> kind = "write") /\ (p \in n.removed <=> kind = "remove")
             /\ \A q \in Pages \ {p} : /\ q \in n.written <=> q \in m.written
                                       /\ q \in n.removed <=> q \in m.removed
<1>1. CASE ~m.active
  BY <1>1 DEF Noted
<1>2. CASE m.active /\ kind = "write"
  <2>1. Noted(m, kind, p) = [m EXCEPT !.written = m.written \cup {p}, !.removed = m.removed \ {p}]
    BY <1>2 DEF Noted
  <2>2. m.written \cup {p} \in SUBSET Pages /\ m.removed \ {p} \in SUBSET Pages
    BY Zenon DEF Memory
  <2>3. Noted(m, kind, p) \in Memory
    BY <2>1, <2>2, ZenonT(40) DEF Memory
  <2>4. LET n == Noted(m, kind, p)
        IN  /\ n.active = m.active /\ n.poisoned = m.poisoned /\ n.page = m.page
            /\ n.phase = m.phase /\ n.ack = m.ack
            /\ n.win = m.win /\ n.childPid = m.childPid /\ n.forkRequest = m.forkRequest
            /\ n.handoff = m.handoff
            /\ n.written = m.written \cup {p} /\ n.removed = m.removed \ {p}
    BY <2>1 DEF Memory
  <2> HIDE DEF Noted
  <2> QED BY <1>2, <2>3, <2>4, Zenon
<1>3. CASE m.active /\ kind = "remove"
  <2>1. Noted(m, kind, p) = [m EXCEPT !.written = m.written \ {p}, !.removed = m.removed \cup {p}]
    BY <1>3 DEF Noted
  <2>2. m.written \ {p} \in SUBSET Pages /\ m.removed \cup {p} \in SUBSET Pages
    BY Zenon DEF Memory
  <2>3. Noted(m, kind, p) \in Memory
    BY <2>1, <2>2, ZenonT(40) DEF Memory
  <2>4. LET n == Noted(m, kind, p)
        IN  /\ n.active = m.active /\ n.poisoned = m.poisoned /\ n.page = m.page
            /\ n.phase = m.phase /\ n.ack = m.ack
            /\ n.win = m.win /\ n.childPid = m.childPid /\ n.forkRequest = m.forkRequest
            /\ n.handoff = m.handoff
            /\ n.written = m.written \ {p} /\ n.removed = m.removed \cup {p}
    BY <2>1 DEF Memory
  <2> HIDE DEF Noted
  <2> QED BY <1>3, <2>3, <2>4, Zenon
<1> QED BY <1>1, <1>2, <1>3

Job == [kind : {"none", "write", "remove"}, page : Pages \cup {0},
        dir : {"real", "shadow"}, value : 0 .. LastTick]

\* What the start and the end of a page operation of w leave alone and keep.
PageStep(w) ==
  /\ node' \in Memory /\ node'.written \cap node'.removed = {} /\ job' \in [Writers -> Job]
  /\ SameBarrier /\ SameWindow /\ node'.handoff = node.handoff /\ node'.active = node.active
  /\ ~node'.active => node'.written = {} /\ node'.removed = {}
  /\ \A v \in Writers \ {w} : job'[v] = job[v]
  /\ Aimed' /\ Content'

\* A step of a thread that works on pages is well typed.
LEMMA WriterType ==
  ASSUME ForkInv, node' \in Memory, node'.written \cap node'.removed = {},
         job' \in [Writers -> Job], wpc' \in [Workers -> {"loop", "busy", "parked"}],
         rpcLock' \in {"free", "rpc", "bsp"}, faults' \in 0 .. MaxFaults,
         real' \in [Pages -> 0 .. LastTick], spare' \in [Pages -> 0 .. LastTick],
         UNCHANGED <<up, tpc, bpc, why, child, pipe, progress, toggles, saves>>
  PROVE  TypeOK'
<1>1. TypeOK
  BY Zenon DEF ForkInv
<1>2. UNCHANGED up /\ UNCHANGED tpc /\ UNCHANGED bpc /\ UNCHANGED why /\ UNCHANGED child
  OBVIOUS
<1>3. UNCHANGED pipe /\ UNCHANGED progress /\ UNCHANGED toggles /\ UNCHANGED saves
  OBVIOUS
<1> QED BY <1>1, <1>2, <1>3, ZenonT(40) DEF TypeOK, Job

\* An operation on a page begins: nobody else works on that page.
LEMMA JobStarted ==
  ASSUME ForkInv, NEW w \in Writers, NEW p \in Pages, NEW kind \in {"write", "remove"},
         job[w].kind = "none", StartJob(w, p, kind), UNCHANGED <<real, spare, child>>
  PROVE  PageStep(w) /\ job'[w].kind # "none"
<1>0. /\ node \in Memory /\ job \in [Writers -> Job] /\ node.written \cap node.removed = {}
      /\ ~node.active => node.written = {} /\ node.removed = {}
  BY DEF ForkInv, TypeOK, Window, Job
<1>1. node' = Noted(node, kind, p) /\ PageFree(p)
  BY Zenon DEF StartJob
<1>2. /\ node' \in Memory /\ node'.written \cap node'.removed = {}
      /\ node'.active = node.active /\ node'.poisoned = node.poisoned /\ node'.page = node.page
      /\ SameBarrier /\ SameWindow /\ node'.handoff = node.handoff
      /\ ~node'.active => node'.written = {} /\ node'.removed = {}
      /\ node.active => (p \in node'.written <=> kind = "write") /\ (p \in node'.removed <=> kind = "remove")
      /\ \A q \in Pages \ {p} : /\ q \in node'.written <=> q \in node.written
                                /\ q \in node'.removed <=> q \in node.removed
  <2> DEFINE n == Noted(node, kind, p)
  <2>1. /\ n \in Memory /\ n.written \cap n.removed = {}
        /\ n.active = node.active /\ n.poisoned = node.poisoned /\ n.page = node.page
        /\ n.phase = node.phase /\ n.ack = node.ack
        /\ n.win = node.win /\ n.childPid = node.childPid /\ n.forkRequest = node.forkRequest
        /\ n.handoff = node.handoff
        /\ ~node.active => n.written = {} /\ n.removed = {}
        /\ node.active => (p \in n.written <=> kind = "write") /\ (p \in n.removed <=> kind = "remove")
        /\ \A q \in Pages \ {p} : /\ q \in n.written <=> q \in node.written
                                  /\ q \in n.removed <=> q \in node.removed
    BY <1>0, NotedPage
  <2>2. node' = n
    BY <1>1
  <2> HIDE DEF n
  <2> QED BY <2>1, <2>2 DEF SameBarrier, SameWindow
<1>3. PICK x \in Job : /\ job' = [job EXCEPT ![w] = x]
                       /\ x.kind = kind /\ x.page = p /\ x.dir = DirFor
                       /\ kind = "write" => x.value # 0
                       /\ kind = "remove" => x.value = 0
  <2>1. node.tick \in 0 .. LastTick /\ node.tick # 0
    BY <1>0, ForkAssumption DEF Memory
  <2>2. 0 \in 0 .. LastTick /\ DirFor \in {"real", "shadow"}
    BY ForkAssumption DEF DirFor
  <2> DEFINE x == [kind |-> kind, page |-> p, dir |-> DirFor,
                   value |-> IF kind = "write" THEN node.tick ELSE 0]
  <2>3. x \in Job
    BY <2>1, <2>2 DEF Job
  <2>4. job' = [job EXCEPT ![w] = x]
    BY DEF StartJob
  <2> QED BY <2>1, <2>3, <2>4, Zenon
<1>4. job' \in [Writers -> Job] /\ job'[w] = x /\ \A v \in Writers \ {w} : job'[v] = job[v]
  BY <1>0, <1>3
<1>5. DirFor' = DirFor
  BY <1>2 DEF DirFor
<1>6. Aimed'
  <2>1. ASSUME NEW v \in Writers, job'[v].kind # "none"
        PROVE  /\ job'[v].page \in Pages /\ job'[v].dir = DirFor'
               /\ job'[v].kind = "write" =>
                    job'[v].value # 0 /\ (node'.active => job'[v].page \in node'.written)
               /\ job'[v].kind = "remove" =>
                    job'[v].value = 0 /\ (node'.active => job'[v].page \in node'.removed)
    <3>1. CASE v = w
      BY <1>2, <1>3, <1>4, <1>5, <3>1, Zenon
    <3>2. CASE v # w
      BY <1>1, <1>2, <1>4, <1>5, <2>1, <3>2, Zenon DEF ForkInv, Jobs, Aimed, PageFree
    <3> QED BY <3>1, <3>2, Zenon
  <2>2. ASSUME NEW u \in Writers, NEW v \in Writers, u # v, job'[u].kind # "none", job'[v].kind # "none"
        PROVE  job'[u].page # job'[v].page
    BY <1>1, <1>3, <1>4, <2>2, Zenon DEF ForkInv, Jobs, Aimed, PageFree
  <2> QED BY <2>1, <2>2, Zenon DEF Aimed
<1>7. Content'
  <2>1. ASSUME NEW q \in Pages, PageFree(q)'
        PROVE  q # p /\ PageFree(q)
    BY <1>1, <1>3, <1>4, <2>1, Zenon DEF PageFree
  <2>2. \A c \in child' : real' = c.page
    BY Zenon DEF ForkInv, Content
  <2>3. ASSUME NEW q \in Pages, PageFree(q)'
        PROVE  /\ q \notin node'.written \cup node'.removed => real'[q] = node'.page[q]
               /\ q \in node'.removed => spare'[q] = 0 /\ node'.page[q] = 0
               /\ q \in node'.written =>
                    /\ node'.page[q] # 0
                    /\ spare'[q] = node'.page[q] \/ (spare'[q] = 0 /\ node'.poisoned)
    <3>1. PageFree(q) /\ q # p
      BY <2>1, <2>3
    <3> QED BY <1>2, <3>1, ZenonT(40) DEF ForkInv, Content
  <2> QED BY <2>2, <2>3 DEF Content
<1> QED BY <1>2, <1>3, <1>4, <1>6, <1>7 DEF PageStep

\* An operation on a page ends.  Only it may change the page's file, in the
\* shadow directory if there is a checkpoint.
LEMMA JobEnded ==
  ASSUME ForkInv, NEW w \in Writers, job[w].kind # "none",
         (EndJob(w) /\ Fair) \/ LoseJob(w), UNCHANGED child
  PROVE  /\ PageStep(w) /\ job'[w].kind = "none"
         /\ real' \in [Pages -> 0 .. LastTick] /\ spare' \in [Pages -> 0 .. LastTick]
         /\ faults' \in 0 .. MaxFaults
<1> DEFINE p == job[w].page
           v == job[w].value
<1>0. /\ node \in Memory /\ job \in [Writers -> Job] /\ node.written \cap node.removed = {}
      /\ real \in [Pages -> 0 .. LastTick] /\ spare \in [Pages -> 0 .. LastTick]
      /\ faults \in 0 .. MaxFaults
      /\ ~node.active => node.written = {} /\ node.removed = {}
  BY Zenon DEF ForkInv, TypeOK, Window, Job
<1>1. p \in Pages /\ v \in 0 .. LastTick /\ job[w].dir = DirFor /\ job[w].kind \in {"write", "remove"}
  BY <1>0, Zenon DEF ForkInv, Jobs, Aimed, Job
<1>2. /\ node.active => (p \in node.written /\ v # 0) \/ (p \in node.removed /\ v = 0)
  BY <1>1 DEF ForkInv, Jobs, Aimed
<1>3. /\ job' = [job EXCEPT ![w] = NoJob] /\ NoJob \in Job /\ NoJob.kind = "none"
  BY ForkAssumption DEF EndJob, LoseJob, NoJob, Job
<1>4. job' \in [Writers -> Job] /\ job'[w].kind = "none" /\ \A u \in Writers \ {w} : job'[u] = job[u]
  BY <1>0, <1>3
<1>5. PICK poison \in BOOLEAN :
        /\ node' = [node EXCEPT !.page = [node.page EXCEPT ![p] = v], !.poisoned = poison]
        /\ node.poisoned => poison
        /\ node.active /\ spare'[p] # v => poison /\ spare'[p] = 0
        /\ node.active => UNCHANGED real /\ \A q \in Pages \ {p} : spare'[q] = spare[q]
        /\ ~node.active => UNCHANGED spare /\ real' = [real EXCEPT ![p] = v]
        /\ real' \in [Pages -> 0 .. LastTick] /\ spare' \in [Pages -> 0 .. LastTick]
        /\ faults' \in 0 .. MaxFaults
  <2>1. CASE EndJob(w) /\ Fair
    <3>1. node' = [node EXCEPT !.page = [node.page EXCEPT ![p] = v], !.poisoned = node.poisoned]
      BY <1>0, <2>1, Zenon DEF EndJob, Memory
    <3>2. node.poisoned \in BOOLEAN
      BY <1>0 DEF Memory
    <3>3. IF node.active THEN spare' = [spare EXCEPT ![p] = v] /\ UNCHANGED real
                         ELSE real' = [real EXCEPT ![p] = v] /\ UNCHANGED spare
      BY <1>1, <2>1 DEF EndJob, PutFile, DirFor
    <3>4. UNCHANGED faults
      BY <2>1 DEF Fair
    <3> QED BY <1>0, <1>1, <3>1, <3>2, <3>3, <3>4, Zenon
  <2>2. CASE LoseJob(w)
    <3>1. node' = [node EXCEPT !.page = [node.page EXCEPT ![p] = v], !.poisoned = TRUE]
      BY <2>2 DEF LoseJob
    <3>2. node.active /\ spare[p] = 0 /\ UNCHANGED <<real, spare>>
      BY <1>1, <2>2 DEF LoseJob, DirFor, NoFiles
    <3>3. faults' \in 0 .. MaxFaults
      BY <1>0, <2>2, ForkAssumption DEF LoseJob, Fault
    <3> QED BY <1>0, <3>1, <3>2, <3>3, Zenon
  <2> QED BY <2>1, <2>2, Zenon
<1>6. node' \in Memory
  <2>1. [node.page EXCEPT ![p] = v] \in [Pages -> 0 .. LastTick]
    BY <1>0, <1>1 DEF Memory
  <2> QED BY <1>0, <1>5, <2>1, ZenonT(40) DEF Memory
<1>7. /\ SameBarrier /\ SameWindow /\ node'.handoff = node.handoff /\ node'.active = node.active
      /\ node'.written = node.written /\ node'.removed = node.removed
      /\ node'.poisoned = poison /\ node'.page = [node.page EXCEPT ![p] = v]
  BY <1>0, <1>5 DEF Memory, SameBarrier, SameWindow
<1>8. node'.page[p] = v /\ \A q \in Pages \ {p} : node'.page[q] = node.page[q]
  BY <1>0, <1>1, <1>7, Zenon DEF Memory
<1> HIDE DEF p, v
<1>9. Aimed'
  BY <1>4, <1>7 DEF ForkInv, Jobs, Aimed, DirFor
<1>10. Content'
  <2>1. ASSUME NEW c \in child' PROVE real' = c.page
    BY <1>5, Zenon DEF ForkInv, Content, Window
  <2>2. ASSUME NEW q \in Pages, PageFree(q)'
        PROVE  /\ q \notin node'.written \cup node'.removed => real'[q] = node'.page[q]
               /\ q \in node'.removed => spare'[q] = 0 /\ node'.page[q] = 0
               /\ q \in node'.written =>
                    /\ node'.page[q] # 0
                    /\ spare'[q] = node'.page[q] \/ (spare'[q] = 0 /\ node'.poisoned)
    <3>1. CASE q = p
      BY <1>0, <1>1, <1>2, <1>5, <1>7, <1>8, <3>1, Zenon
    <3>2. CASE q # p
      <4>1. PageFree(q)
        BY <1>4, <2>2, <3>2 DEF PageFree, p
      <4>2. real'[q] = real[q] /\ spare'[q] = spare[q] /\ node'.page[q] = node.page[q]
        BY <1>0, <1>5, <1>8, <3>2
      <4> QED BY <1>5, <1>7, <4>1, <4>2, Zenon DEF ForkInv, Content
    <3> QED BY <3>1, <3>2
  <2> QED BY <2>1, <2>2 DEF Content
<1> QED BY <1>0, <1>4, <1>5, <1>6, <1>7, <1>9, <1>10, Zenon DEF PageStep

\* A request begins or ends; a request processor parks only between requests.
LEMMA RequestProcessorStep ==
  ASSUME ForkInv, NEW w \in Workers, RequestProcessor(w)
  PROVE  ForkInv'
<1>0. node \in Memory /\ w \in Writers /\ w # "rpc" /\ wpc \in [Workers -> {"loop", "busy", "parked"}]
  BY NodeType, ForkAssumption, Zenon DEF Writers, ForkInv, TypeOK
<1>9. /\ node.written \cap node.removed = {} /\ job \in [Writers -> Job]
      /\ rpcLock \in {"free", "rpc", "bsp"} /\ faults \in 0 .. MaxFaults
      /\ real \in [Pages -> 0 .. LastTick] /\ spare \in [Pages -> 0 .. LastTick]
  BY Zenon DEF ForkInv, TypeOK, Job
<1>1. CASE requestProcessor(w)
  <2>1. PICK p \in Pages, kind \in {"write", "remove"} : StartJob(w, p, kind)
    BY <1>1 DEF requestProcessor
  <2>2. /\ UNCHANGED <<up, tpc, bpc, why, rpcLock, world, bounds>>
        /\ wpc[w] = "loop" /\ wpc' = [wpc EXCEPT ![w] = "busy"] /\ node.phase % 2 = 0
    BY <1>1 DEF requestProcessor
  <2>3. job[w].kind = "none"
    BY <2>2 DEF ForkInv, Jobs, Held
  <2>4. PageStep(w) /\ job'[w].kind # "none"
    BY <1>0, <2>1, <2>2, <2>3, JobStarted, Zenon DEF world
  <2>5. Held'
    BY <1>0, <2>2, <2>4, Zenon DEF ForkInv, Jobs, Held, Writers, PageStep
  <2>6. TypeOK'
    <3>1. wpc' \in [Workers -> {"loop", "busy", "parked"}]
      BY <1>0, <2>2, Zenon
    <3>2. UNCHANGED <<real, spare, child, pipe, progress, faults, toggles, saves>>
      BY <2>2 DEF world, bounds
    <3> QED BY <1>9, <2>2, <2>4, <3>1, <3>2, WriterType, Zenon DEF PageStep
  <2>7. Barrier'
    BY <1>0, <2>2, <2>4, Zenon DEF ForkInv, Barrier, SameBarrier, allAcknowledged, world, PageStep
  <2>8. Window' /\ HandOff'
    BY <2>2, <2>4, Zenon DEF ForkInv, Window, HandOff, SameWindow, world, PageStep
  <2> QED BY <2>4, <2>5, <2>6, <2>7, <2>8 DEF ForkInv, Jobs, PageStep
<1>2. CASE handled(w)
  <2>1. /\ UNCHANGED <<up, tpc, bpc, why, rpcLock, child, pipe, progress, toggles, saves>>
        /\ wpc[w] = "busy" /\ wpc' = [wpc EXCEPT ![w] = "loop"]
        /\ (EndJob(w) /\ Fair) \/ LoseJob(w)
    BY <1>2 DEF handled
  <2>2. job[w].kind # "none"
    BY <2>1, Zenon DEF ForkInv, Jobs, Held
  <2>3. /\ PageStep(w) /\ job'[w].kind = "none"
        /\ real' \in [Pages -> 0 .. LastTick] /\ spare' \in [Pages -> 0 .. LastTick]
        /\ faults' \in 0 .. MaxFaults
    BY <1>0, <2>1, <2>2, JobEnded, Zenon
  <2>4. Held'
    BY <1>0, <2>1, <2>3, Zenon DEF ForkInv, Jobs, Held, Writers, PageStep
  <2>5. TypeOK'
    <3>1. wpc' \in [Workers -> {"loop", "busy", "parked"}]
      BY <1>0, <2>1, Zenon
    <3> QED BY <1>9, <2>1, <2>3, <3>1, WriterType, Zenon DEF PageStep
  <2>6. Barrier'
    BY <1>0, <2>1, <2>3, Zenon DEF ForkInv, Barrier, SameBarrier, allAcknowledged, PageStep
  <2>7. Window' /\ HandOff'
    BY <2>1, <2>3 DEF ForkInv, Window, HandOff, SameWindow, PageStep
  <2> QED BY <2>3, <2>4, <2>5, <2>6, <2>7 DEF ForkInv, Jobs, PageStep
<1>3. CASE park(w)
  <2>1. /\ UNCHANGED <<up, tpc, bpc, why, job, rpcLock, world, bounds>>
        /\ node' = [node EXCEPT !.ack[w] = node.phase]
        /\ wpc[w] = "loop" /\ wpc' = [wpc EXCEPT ![w] = "parked"]
    BY <1>3 DEF park
  <2>2. node' \in Memory
    BY <1>0, <2>1, Zenon DEF Memory
  <2>3. /\ node'.phase = node.phase /\ node'.ack = [node.ack EXCEPT ![w] = node.phase]
        /\ node.ack \in [Workers -> Nat] /\ node.phase \in Nat
        /\ SameShadow /\ SameWindow /\ node'.handoff = node.handoff
    BY <1>0, <2>1 DEF Memory, SameShadow, SameWindow
  <2>4. TypeOK'
    <3>1. wpc' \in [Workers -> {"loop", "busy", "parked"}]
      BY <1>0, <2>1, Zenon
    <3>2. UNCHANGED <<real, spare, child, pipe, progress, faults, toggles, saves>>
      BY <2>1 DEF world, bounds
    <3> QED BY <1>9, <2>1, <2>2, <2>3, <3>1, <3>2, WriterType, Zenon DEF SameShadow
  <2>5. Barrier'
    BY <1>0, <2>1, <2>3 DEF ForkInv, Barrier, allAcknowledged, world
  <2>6. Jobs' /\ Content'
    BY <1>0, <2>1, <2>3, NoWrite DEF world
  <2>7. Window' /\ HandOff'
    BY <2>1, <2>3, Zenon DEF ForkInv, Window, HandOff, SameShadow, SameWindow, world
  <2> QED BY <2>4, <2>5, <2>6, <2>7 DEF ForkInv
<1>4. CASE unpark(w)
  <2>1. /\ UNCHANGED <<up, node, tpc, bpc, why, job, rpcLock, world, bounds>>
        /\ node.phase # node.ack[w]
        /\ wpc[w] = "parked" /\ wpc' = [wpc EXCEPT ![w] = "loop"]
    BY <1>4, Zenon DEF unpark
  <2>2. TypeOK'
    <3>1. wpc' \in [Workers -> {"loop", "busy", "parked"}]
      BY <1>0, <2>1, Zenon
    <3>2. UNCHANGED <<real, spare, child, pipe, progress, faults, toggles, saves>>
      BY <2>1 DEF world, bounds
    <3> QED BY <1>0, <1>9, <2>1, <3>1, <3>2, WriterType, Zenon
  <2>3. Barrier'
    BY <1>0, <2>1, Zenon DEF ForkInv, Barrier, allAcknowledged, world
  <2>4. Jobs' /\ Content'
    BY <1>0, <2>1, NoWrite, Zenon DEF SameShadow, world
  <2>5. Window' /\ HandOff'
    BY <2>1 DEF ForkInv, Window, HandOff, world
  <2> QED BY <2>2, <2>3, <2>4, <2>5 DEF ForkInv
<1> QED BY <1>1, <1>2, <1>3, <1>4, Zenon DEF RequestProcessor

\* A request of the RPC server works on a page under the dispatch lock.
LEMMA RpcStep ==
  ASSUME ForkInv, Rpc
  PROVE  ForkInv'
<1>0. node \in Memory /\ "rpc" \in Writers /\ "rpc" \notin Workers
  BY NodeType, ForkAssumption, Zenon DEF Writers
<1>9. /\ wpc \in [Workers -> {"loop", "busy", "parked"}] /\ faults \in 0 .. MaxFaults
      /\ real \in [Pages -> 0 .. LastTick] /\ spare \in [Pages -> 0 .. LastTick]
  BY Zenon DEF ForkInv, TypeOK
<1>1. CASE rpcRequest
  <2>1. PICK p \in Pages, kind \in {"write", "remove"} : StartJob("rpc", p, kind)
    BY <1>1 DEF rpcRequest
  <2>2. /\ UNCHANGED <<up, tpc, bpc, why, wpc, world, bounds>>
        /\ rpcLock = "free" /\ rpcLock' = "rpc"
    BY <1>1 DEF rpcRequest
  <2>3. job["rpc"].kind = "none"
    BY <2>2, Zenon DEF ForkInv, Jobs, Held
  <2>4. PageStep("rpc") /\ job'["rpc"].kind # "none"
    BY <1>0, <2>1, <2>2, <2>3, JobStarted, Zenon DEF world
  <2>5. Held'
    BY <1>0, <2>2, <2>4, Zenon DEF ForkInv, Jobs, Held, Writers, PageStep
  <2>6. TypeOK'
    <3>1. UNCHANGED <<real, spare, child, pipe, progress, faults, toggles, saves>>
      BY <2>2 DEF world, bounds
    <3> QED BY <1>9, <2>2, <2>4, <3>1, WriterType, Zenon DEF PageStep
  <2>7. Barrier'
    BY <2>2, <2>4, Zenon DEF ForkInv, Barrier, SameBarrier, allAcknowledged, world, PageStep
  <2>8. Window' /\ HandOff'
    BY <2>2, <2>4, Zenon DEF ForkInv, Window, HandOff, SameWindow, world, PageStep
  <2> QED BY <2>4, <2>5, <2>6, <2>7, <2>8, Zenon DEF ForkInv, Jobs, PageStep
<1>2. CASE rpcDone
  <2>1. /\ UNCHANGED <<up, tpc, bpc, why, wpc, child, pipe, progress, toggles, saves>>
        /\ rpcLock = "rpc" /\ rpcLock' = "free"
        /\ (EndJob("rpc") /\ Fair) \/ LoseJob("rpc")
    BY <1>2 DEF rpcDone
  <2>2. job["rpc"].kind # "none"
    BY <2>1, Zenon DEF ForkInv, Jobs, Held
  <2>3. /\ PageStep("rpc") /\ job'["rpc"].kind = "none"
        /\ real' \in [Pages -> 0 .. LastTick] /\ spare' \in [Pages -> 0 .. LastTick]
        /\ faults' \in 0 .. MaxFaults
    BY <1>0, <2>1, <2>2, JobEnded, Zenon
  <2>4. Held'
    BY <1>0, <2>1, <2>3, Zenon DEF ForkInv, Jobs, Held, Writers, PageStep
  <2>5. TypeOK'
    BY <1>9, <2>1, <2>3, WriterType, Zenon DEF PageStep
  <2>6. Barrier'
    BY <2>1, <2>3, Zenon DEF ForkInv, Barrier, SameBarrier, allAcknowledged, PageStep
  <2>7. Window' /\ HandOff'
    BY <2>1, <2>3 DEF ForkInv, Window, HandOff, SameWindow, PageStep
  <2> QED BY <2>3, <2>4, <2>5, <2>6, <2>7, Zenon DEF ForkInv, Jobs, PageStep
<1> QED BY <1>1, <1>2 DEF Rpc

\* processTick executes the tick and may write a page that nobody works on.
LEMMA ProcessTickStep ==
  ASSUME ForkInv, processTick
  PROVE  ForkInv'
<1>0. /\ node \in Memory /\ node.tick \in 0 .. LastTick /\ node.tick # 0
      /\ real \in [Pages -> 0 .. LastTick] /\ spare \in [Pages -> 0 .. LastTick]
      /\ node.written \cap node.removed = {}
      /\ ~node.active => node.written = {} /\ node.removed = {}
  <2>1. node \in Memory
    BY NodeType
  <2> QED BY <2>1, ForkAssumption DEF Memory, ForkInv, TypeOK, Window
<1>1. /\ UNCHANGED <<up, bpc, why, wpc, job, rpcLock, child, pipe, progress, bounds>>
      /\ tpc = "process" /\ tpc' = "compare"
  BY DEF processTick
<1> DEFINE mistake(m) == m.mistaken \/ (isTrustingClaimedSolutionScore /\ node.tick \in Wrong)
           replay(m) == m.strict /\ node.tick < node.until
<1>2. ASSUME NEW m \in Memory
      PROVE  /\ Executed(m) = [m EXCEPT !.mistaken = mistake(m), !.strict = replay(m)]
             /\ mistake(m) \in BOOLEAN /\ replay(m) \in BOOLEAN
  BY Zenon DEF Executed
<1> HIDE DEF mistake, replay
<1>3. CASE node' = Executed(node) /\ UNCHANGED <<real, spare>>
  <2>1. node' = [node EXCEPT !.mistaken = mistake(node), !.strict = replay(node)]
    BY <1>0, <1>2, <1>3, Zenon
  <2>2. node' \in Memory
    BY <1>0, <1>2, <2>1, ZenonT(40) DEF Memory
  <2>3. SameNode
    BY <1>0, <2>1 DEF Memory, SameNode, SameBarrier, SameShadow, SameWindow
  <2>4. TypeOK'
    BY <1>1, <1>3, <2>2, <2>3, TypeKept, Zenon DEF SameNode, bounds
  <2>5. Window' /\ HandOff'
    BY <1>1, <2>3 DEF ForkInv, Window, HandOff, SameNode, SameShadow, SameWindow, Retire, Forking
  <2> QED BY <1>1, <1>3, <2>3, <2>4, <2>5, TickThread DEF SameNode
<1>4. ASSUME NEW p \in Pages, PageFree(p), PutFile(DirFor, p, node.tick),
             node' = [Executed(Noted(node, "write", p)) EXCEPT !.page[p] = node.tick]
      PROVE  ForkInv'
  <2> DEFINE n == Noted(node, "write", p)
  <2>1. /\ n \in Memory /\ n.written \cap n.removed = {}
        /\ n.active = node.active /\ n.poisoned = node.poisoned /\ n.page = node.page
        /\ n.phase = node.phase /\ n.ack = node.ack
        /\ n.win = node.win /\ n.childPid = node.childPid /\ n.forkRequest = node.forkRequest
        /\ n.handoff = node.handoff
        /\ ~node.active => n.written = {} /\ n.removed = {}
        /\ node.active => p \in n.written /\ p \notin n.removed
        /\ \A q \in Pages \ {p} : /\ q \in n.written <=> q \in node.written
                                  /\ q \in n.removed <=> q \in node.removed
    BY <1>0, NotedPage, ZenonT(40)
  <2> HIDE DEF n
  <2>2. node' = [n EXCEPT !.mistaken = mistake(n), !.strict = replay(n),
                          !.page = [n.page EXCEPT ![p] = node.tick]]
    <3>1. node' = [[n EXCEPT !.mistaken = mistake(n), !.strict = replay(n)] EXCEPT !.page[p] = node.tick]
      BY <1>2, <1>4, <2>1, Zenon DEF n
    <3>2. mistake(n) \in BOOLEAN /\ replay(n) \in BOOLEAN
      BY <1>2, <2>1, Zenon
    <3>3. [n EXCEPT !.mistaken = mistake(n), !.strict = replay(n)] \in Memory
      BY <2>1, <3>2, Zenon DEF Memory
    <3> QED BY <2>1, <3>1, <3>3, Zenon DEF Memory
  <2>3. [n.page EXCEPT ![p] = node.tick] \in [Pages -> 0 .. LastTick]
    BY <1>0, <2>1 DEF Memory
  <2>4. node' \in Memory
    BY <1>2, <2>1, <2>2, <2>3, ZenonT(40) DEF Memory
  <2>5. /\ node'.active = n.active /\ node'.poisoned = n.poisoned
        /\ node'.page = [n.page EXCEPT ![p] = node.tick]
        /\ node'.written = n.written /\ node'.removed = n.removed
        /\ node'.phase = n.phase /\ node'.ack = n.ack
        /\ node'.win = n.win /\ node'.childPid = n.childPid /\ node'.forkRequest = n.forkRequest
        /\ node'.handoff = n.handoff
    BY <2>1, <2>2 DEF Memory
  <2>6. SameBarrier /\ SameWindow /\ node'.handoff = node.handoff /\ node'.active = node.active
    BY <2>1, <2>5 DEF SameBarrier, SameWindow
  <2>7. /\ node.active => spare' = [spare EXCEPT ![p] = node.tick] /\ UNCHANGED real
        /\ ~node.active => real' = [real EXCEPT ![p] = node.tick] /\ UNCHANGED spare
    BY <1>4, Zenon DEF PutFile, DirFor
  <2>8. TypeOK'
    <3>1. real' \in [Pages -> 0 .. LastTick] /\ spare' \in [Pages -> 0 .. LastTick]
      BY <1>0, <2>7, Zenon
    <3>2. node'.written \cap node'.removed = {}
      BY <2>1, <2>5, Zenon
    <3> QED BY <1>1, <2>4, <3>1, <3>2, ZenonT(40) DEF ForkInv, TypeOK, bounds
  <2>9. Window' /\ HandOff'
    BY <1>1, <2>1, <2>5, <2>6, Zenon DEF ForkInv, Window, HandOff, SameWindow, Retire, Forking
  <2>10. Barrier'
    BY <1>1, <2>6, BarrierAlone, Zenon
  <2>11. Jobs'
    BY <1>1, <1>4, <2>1, <2>5, <2>6, Zenon DEF ForkInv, Jobs, Held, Aimed, DirFor, PageFree
  <2>12. Content'
    <3>1. ASSUME NEW c \in child' PROVE real' = c.page
      BY <1>1, <2>7, Zenon DEF ForkInv, Content, Window
    <3>2. ASSUME NEW q \in Pages, PageFree(q)'
          PROVE  /\ q \notin node'.written \cup node'.removed => real'[q] = node'.page[q]
                 /\ q \in node'.removed => spare'[q] = 0 /\ node'.page[q] = 0
                 /\ q \in node'.written =>
                      /\ node'.page[q] # 0
                      /\ spare'[q] = node'.page[q] \/ (spare'[q] = 0 /\ node'.poisoned)
      <4>1. n.page \in [Pages -> 0 .. LastTick]
        BY <2>1, Zenon DEF Memory
      <4>2. CASE q = p
        <5>1. node'.page[p] = node.tick /\ node.tick # 0
          BY <1>0, <2>1, <2>5, <4>1
        <5>2. /\ node.active => spare'[p] = node.tick
              /\ ~node.active => real'[p] = node.tick
          BY <1>0, <2>7
        <5> QED BY <2>1, <2>5, <4>2, <5>1, <5>2, Zenon
      <4>3. CASE q # p
        <5>1. PageFree(q)
          BY <1>1, <3>2, SMTT(30) DEF PageFree
        <5>2. real'[q] = real[q] /\ spare'[q] = spare[q] /\ node'.page[q] = node.page[q]
          BY <1>0, <2>1, <2>5, <2>7, <4>1, <4>3
        <5> QED BY <2>1, <2>5, <4>3, <5>1, <5>2, ZenonT(40) DEF ForkInv, Content
      <4> QED BY <4>2, <4>3, Zenon
    <3> QED BY <3>1, <3>2, Zenon DEF Content
  <2> QED BY <2>8, <2>9, <2>10, <2>11, <2>12, Zenon DEF ForkInv
<1> QED BY <1>3, <1>4, Zenon DEF processTick

----------------------------------------------------------------------------
(* The main thread *)

\* request and release of the barrier change the parity of its phase.
LEMMA Parity ==
  ASSUME NEW n \in Nat
  PROVE  /\ n % 2 \in {0, 1} /\ n + 1 \in Nat
         /\ n % 2 = 1 <=> (n + 1) % 2 = 0
         /\ n % 2 = 0 <=> (n + 1) % 2 = 1
OBVIOUS

\* The main thread waits for the writers before it touches their files.
LEMMA AllStopped ==
  ASSUME ForkInv, up, bpc \in Quiet
  PROVE  /\ \A w \in Workers : wpc[w] = "parked" /\ node.ack[w] = node.phase
         /\ rpcLock = "bsp"
         /\ \A w \in Writers : job[w].kind = "none"
         /\ \A p \in Pages : PageFree(p)
<1>1. \A w \in Workers : wpc[w] = "parked" /\ node.ack[w] = node.phase
  BY DEF ForkInv, Barrier, Quiet, Retire, Forking, allAcknowledged
<1>2. rpcLock = "bsp"
  BY DEF ForkInv, Barrier
<1>3. \A w \in Writers : job[w].kind = "none"
  BY <1>1, <1>2 DEF ForkInv, Jobs, Held, Writers
<1> QED BY <1>1, <1>2, <1>3, Zenon DEF PageFree

\* A step of the main thread that writes no page.
LEMMA MainStep ==
  ASSUME ForkInv, TypeOK', SameShadow, Barrier', Window', HandOff',
         UNCHANGED <<wpc, job, child, real, spare>>, rpcLock' = "rpc" <=> rpcLock = "rpc"
  PROVE  ForkInv'
BY NoWrite, Zenon DEF ForkInv

\* The main thread claims a request and asks the request processors to park.
LEMMA BarrierRequested ==
  ASSUME ForkInv, bpc = "loop", bpc' \in {"retirePark", "forkPark"},
         node'.phase = node.phase + 1, node'.ack = node.ack,
         UNCHANGED <<up, wpc, rpcLock, child>>
  PROVE  Barrier'
<1>1. node.phase \in Nat /\ node.ack \in [Workers -> Nat]
  BY NodeType, Zenon DEF Memory
<1>2. node.phase % 2 # 1
  BY Zenon DEF ForkInv, Barrier, Retire, Forking
<1>3. node'.phase % 2 = 1 /\ \A w \in Workers : node'.ack[w] < node'.phase
  BY <1>1, <1>2, Parity DEF ForkInv, Barrier
<1>4. \A w \in Workers : node'.ack[w] # node'.phase /\ node'.ack[w] <= node'.phase
  BY <1>1, <1>3
<1> QED BY <1>3, <1>4, Zenon DEF ForkInv, Barrier, Retire, Forking, Quiet

\* The main thread lets the writers go, from wherever it held them.
LEMMA BarrierReleased ==
  ASSUME ForkInv, bpc \in Retire \cup Forking, bpc' \notin Retire \cup Forking, up,
         node'.phase = node.phase + 1, node'.ack = node.ack, rpcLock' = Unlocked,
         UNCHANGED <<wpc, child>>
  PROVE  Barrier'
<1>1. node.phase \in Nat /\ node.ack \in [Workers -> Nat]
  BY NodeType, Zenon DEF Memory
<1>2. /\ node'.phase % 2 = 0 /\ node'.phase % 2 # 1
      /\ \A w \in Workers : node'.ack[w] <= node'.phase
  BY <1>1, Parity DEF ForkInv, Barrier
<1>3. rpcLock' # "bsp"
  BY Zenon DEF Unlocked
<1> QED BY <1>2, <1>3, Zenon DEF ForkInv, Barrier, Retire, Forking, Quiet

\* bspServiceRetireRequest claims what the tick processor has asked for.
LEMMA ServiceStep ==
  ASSUME ForkInv, bspServiceRetireRequest
  PROVE  ForkInv'
<1>0. node \in Memory /\ node.phase + 1 \in Nat
  BY NodeType DEF Memory
<1>1. /\ UNCHANGED <<up, tpc, wpc, job, rpcLock, world, bounds>>
      /\ bpc = "loop" /\ bpc' = "retirePark"
      /\ \/ node.handoff = "Requested" /\ why' = "window"
         \/ node.handoff = "ShutdownRequested" /\ why' = "shutdown"
  BY DEF bspServiceRetireRequest
<1>2. node' = [node EXCEPT !.phase = node.phase + 1, !.handoff = "Running"]
  BY <1>0 DEF bspServiceRetireRequest, Parking, Memory
<1>3. node' \in Memory
  BY <1>0, <1>2, ZenonT(40) DEF Memory
<1>4. /\ SameShadow /\ SameWindow /\ node'.handoff = "Running"
      /\ node'.phase = node.phase + 1 /\ node'.ack = node.ack
  BY <1>0, <1>2 DEF Memory, SameShadow, SameWindow
<1>5. TypeOK'
  BY <1>1, <1>3, <1>4, TypeKept, Zenon DEF world, bounds
<1>6. Barrier'
  BY <1>1, <1>4, BarrierRequested, Zenon DEF world
<1>7. Window' /\ HandOff'
  BY <1>1, <1>4, Zenon DEF ForkInv, Window, HandOff, SameShadow, SameWindow, world, Retire, Forking
<1> QED BY <1>1, <1>4, <1>5, <1>6, <1>7, MainStep, Zenon DEF world

\* bspForkPoint claims the request to fork.
LEMMA ForkPointStep ==
  ASSUME ForkInv, bspForkPoint
  PROVE  ForkInv'
<1>0. node \in Memory /\ node.phase + 1 \in Nat
  BY NodeType DEF Memory
<1>1. /\ UNCHANGED <<up, tpc, why, wpc, job, rpcLock, world, bounds>>
      /\ bpc = "loop" /\ bpc' = "forkPark" /\ node.forkRequest
  BY DEF bspForkPoint
<1>2. node' = [node EXCEPT !.phase = node.phase + 1, !.forkRequest = FALSE]
  BY <1>0 DEF bspForkPoint, Parking, Memory
<1>3. node' \in Memory
  BY <1>0, <1>2, ZenonT(40) DEF Memory
<1>4. /\ SameShadow /\ node'.win = node.win /\ node'.childPid = node.childPid
      /\ node'.forkRequest = FALSE /\ node'.handoff = node.handoff
      /\ node'.phase = node.phase + 1 /\ node'.ack = node.ack
  BY <1>0, <1>2 DEF Memory, SameShadow
<1>5. TypeOK'
  BY <1>1, <1>3, <1>4, TypeKept, Zenon DEF world, bounds
<1>6. Barrier'
  BY <1>1, <1>4, BarrierRequested, Zenon DEF world
<1>7. Window' /\ HandOff'
  BY <1>1, <1>4, Zenon DEF ForkInv, Window, HandOff, SameShadow, world, Retire, Forking
<1> QED BY <1>1, <1>4, <1>5, <1>6, <1>7, MainStep, Zenon DEF world

\* The main thread begins to save, with a retirement first if a window is live.
LEMMA PersistStep ==
  ASSUME ForkInv, bspPersist
  PROVE  ForkInv'
<1>0. node \in Memory /\ node.phase + 1 \in Nat
  BY NodeType DEF Memory
<1>1. UNCHANGED <<up, tpc, wpc, job, rpcLock, world, bounds>> /\ bpc = "loop"
  BY Zenon DEF bspPersist
<1>2. CASE node.win = "Live"
  <2>1. why' = "autosave" /\ bpc' = "retirePark"
    BY <1>2 DEF bspPersist
  <2>2. node' = [node EXCEPT !.phase = node.phase + 1, !.win = "Retiring"]
    BY <1>0, <1>2 DEF bspPersist, Parking, Memory
  <2>3. node' \in Memory
    BY <1>0, <2>2, ZenonT(40) DEF Memory
  <2>4. /\ SameShadow /\ node'.win = "Retiring" /\ node'.childPid = node.childPid
        /\ node'.forkRequest = node.forkRequest /\ node'.handoff = node.handoff
        /\ node'.phase = node.phase + 1 /\ node'.ack = node.ack
    BY <1>0, <2>2 DEF Memory, SameShadow
  <2>5. TypeOK'
    BY <1>1, <2>1, <2>3, <2>4, TypeKept, Zenon DEF world, bounds
  <2>6. Barrier'
    BY <1>1, <2>1, <2>4, BarrierRequested, Zenon DEF world
  <2>7. Window' /\ HandOff'
    BY <1>1, <1>2, <2>1, <2>4, Zenon DEF ForkInv, Window, HandOff, SameShadow, world, Retire, Forking, Open
  <2> QED BY <1>1, <2>4, <2>5, <2>6, <2>7, MainStep, Zenon DEF world
<1>3. CASE node.win # "Live"
  <2>1. bpc' = "saving" /\ UNCHANGED <<node, why>>
    BY <1>3, Zenon DEF bspPersist
  <2>2. TypeOK'
    BY <1>1, <2>1, TypeKept, Zenon DEF world, bounds
  <2>3. Barrier'
    BY <1>1, <2>1, Zenon DEF ForkInv, Barrier, allAcknowledged, world, Retire, Forking, Quiet
  <2>4. Window' /\ HandOff'
    BY <1>1, <2>1, Zenon DEF ForkInv, Window, HandOff, world, Retire, Forking
  <2> QED BY <1>1, <2>1, <2>2, <2>3, <2>4, MainStep DEF world, SameShadow
<1> QED BY <1>2, <1>3

\* The steps to quiescence, and from saving back to the loop.
LEMMA PassageSteps ==
  ASSUME ForkInv, bspParked \/ bspLocked \/ reapCheckpointChild \/ nothingToCommit
  PROVE  ForkInv'
<1>1. CASE bspParked
  <2>1. /\ UNCHANGED <<up, node, tpc, why, wpc, job, rpcLock, world, bounds>> /\ allAcknowledged
        /\ \/ bpc = "retirePark" /\ bpc' = "retireLock"
           \/ bpc = "forkPark" /\ bpc' = "forkLock"
    BY <1>1, Zenon DEF bspParked
  <2>2. TypeOK'
    BY <2>1, TypeKept, Zenon DEF world, bounds
  <2>3. Barrier'
    BY <2>1, Zenon DEF ForkInv, Barrier, allAcknowledged, world, Retire, Forking, Quiet
  <2>4. Window' /\ HandOff'
    BY <2>1 DEF ForkInv, Window, HandOff, world, Retire, Forking
  <2> QED BY <2>1, <2>2, <2>3, <2>4, MainStep, Zenon DEF world, SameShadow
<1>2. CASE bspLocked
  <2>1. /\ UNCHANGED <<up, node, tpc, why, wpc, job, world, bounds>>
        /\ rpcLock = "free" /\ rpcLock' = "bsp"
        /\ \/ bpc = "retireLock" /\ bpc' = "retireQuiet"
           \/ bpc = "forkLock" /\ bpc' = "forkQuiet"
    BY <1>2, Zenon DEF bspLocked
  <2>2. TypeOK'
    BY <2>1, TypeKept, Zenon DEF world, bounds
  <2>3. Barrier'
    BY <2>1, Zenon DEF ForkInv, Barrier, allAcknowledged, world, Retire, Forking, Quiet
  <2>4. Window' /\ HandOff'
    BY <2>1, Zenon DEF ForkInv, Window, HandOff, world, Retire, Forking
  <2> QED BY <2>1, <2>2, <2>3, <2>4, MainStep, Zenon DEF world, SameShadow
<1>3. CASE reapCheckpointChild
  <2>1. /\ UNCHANGED <<up, node, tpc, why, wpc, job, rpcLock, child, progress, real, spare, bounds>>
        /\ bpc = "retireQuiet" /\ bpc' = "retireReap" /\ pipe' = [tag |-> "R", target |-> 0]
    BY <1>3, Zenon DEF reapCheckpointChild
  <2>2. TypeOK'
    BY <2>1, ForkAssumption, TypeKept, Zenon DEF bounds
  <2>3. Barrier'
    BY <2>1, Zenon DEF ForkInv, Barrier, allAcknowledged, Retire, Forking, Quiet
  <2>4. Window' /\ HandOff'
    BY <2>1, Zenon DEF ForkInv, Window, HandOff, Retire, Forking
  <2> QED BY <2>1, <2>2, <2>3, <2>4, MainStep, Zenon DEF SameShadow
<1>4. CASE nothingToCommit
  <2>1. /\ UNCHANGED <<up, node, tpc, why, wpc, job, rpcLock, world, bounds>>
        /\ bpc = "retireQuiet" /\ bpc' = "retired" /\ why = "shutdown" /\ node.win # "Retiring"
    BY <1>4, Zenon DEF nothingToCommit
  <2>2. TypeOK'
    BY <2>1, TypeKept, Zenon DEF world, bounds
  <2>3. Barrier'
    BY <2>1, Zenon DEF ForkInv, Barrier, allAcknowledged, world, Retire, Forking, Quiet
  <2>4. ~node.active
    BY <2>1, Zenon DEF ForkInv, Window, HandOff, Open
  <2>5. Window' /\ HandOff'
    BY <2>1, <2>4, Zenon DEF ForkInv, Window, HandOff, world, Retire, Forking
  <2> QED BY <2>1, <2>2, <2>3, <2>5, MainStep, Zenon DEF world, SameShadow
<1> QED BY <1>1, <1>2, <1>3, <1>4, Zenon

\* The main thread has saved the node state.
LEMMA PersistedStep ==
  ASSUME ForkInv, bspPersisted
  PROVE  ForkInv'
<1>0. node \in Memory
  BY NodeType
<1>1. /\ UNCHANGED <<up, tpc, why, wpc, job, rpcLock, world, bounds>>
      /\ bpc = "saving" /\ bpc' = "loop" /\ node' = [node EXCEPT !.persist = FALSE]
  BY DEF bspPersisted
<1>2. node' \in Memory
  BY <1>0, <1>1, Zenon DEF Memory
<1>3. SameNode
  BY <1>0, <1>1 DEF Memory, SameNode, SameBarrier, SameShadow, SameWindow
<1>4. TypeOK'
  BY <1>1, <1>2, <1>3, TypeKept DEF SameNode, world, bounds
<1>5. Barrier'
  BY <1>1, <1>3 DEF ForkInv, Barrier, SameNode, SameBarrier, allAcknowledged, world, Retire, Forking, Quiet
<1>6. Window' /\ HandOff'
  BY <1>1, <1>3, Zenon
     DEF ForkInv, Window, HandOff, SameNode, SameShadow, SameWindow, world, Retire, Forking
<1> QED BY <1>1, <1>3, <1>4, <1>5, <1>6, MainStep, Zenon DEF world, SameNode

\* bspForkPoint ends without a fork: the writers go on and the tick processor has
\* its answer.
LEMMA ForkSkippedStep ==
  ASSUME ForkInv, forkSkipped
  PROVE  ForkInv'
<1>0. /\ node \in Memory /\ node.phase + 1 \in Nat
      /\ ~node.active /\ node.written = {} /\ node.removed = {}
      /\ ~node.forkRequest /\ tpc = "claim" /\ bpc \in Forking
  <2>1. node \in Memory
    BY NodeType
  <2>2. bpc \in Forking
    BY Zenon DEF forkSkipped, Forking
  <2> QED BY <2>1, <2>2 DEF Memory, ForkInv, Window
<1>1. /\ UNCHANGED <<up, tpc, why, wpc, job, world, bounds>>
      /\ up /\ rpcLock' = Unlocked /\ bpc' = "forkSkipped"
  BY Zenon DEF forkSkipped
<1>2. /\ node' \in Memory
      /\ node'.phase = node.phase + 1 /\ node'.ack = node.ack
      /\ ~node'.active /\ node'.written = {} /\ node'.removed = {}
      /\ node'.childPid = "failed" /\ node'.page = node.page
      /\ node'.win = node.win /\ node'.forkRequest = node.forkRequest
      /\ node'.handoff = node.handoff
  <2>1. CASE node' = [Released(node) EXCEPT !.childPid = "failed"]
    <3>1. node' = [node EXCEPT !.phase = node.phase + 1, !.childPid = "failed"]
      BY <1>0, <2>1 DEF Released, Memory
    <3>2. node' \in Memory
      BY <1>0, <3>1, Zenon DEF Memory
    <3> QED BY <1>0, <3>1, <3>2 DEF Memory
  <2>2. ASSUME NEW b \in BOOLEAN,
               node' = [Released(clearWindow(node)) EXCEPT !.childPid = "failed", !.poisoned = b]
        PROVE  /\ node' \in Memory
               /\ node'.phase = node.phase + 1 /\ node'.ack = node.ack
               /\ ~node'.active /\ node'.written = {} /\ node'.removed = {}
               /\ node'.childPid = "failed" /\ node'.page = node.page
               /\ node'.win = node.win /\ node'.forkRequest = node.forkRequest
               /\ node'.handoff = node.handoff
    <3>1. node' = [node EXCEPT !.active = FALSE, !.written = {}, !.removed = {},
                               !.phase = node.phase + 1, !.childPid = "failed", !.poisoned = b]
      BY <1>0, <2>2 DEF Released, clearWindow, Memory
    <3>2. node' \in Memory
      BY <1>0, <3>1, ZenonT(40) DEF Memory
    <3> QED BY <1>0, <3>1, <3>2 DEF Memory
  <2> QED BY <2>1, <2>2, Zenon DEF forkSkipped
<1>5. rpcLock' \in {"free", "rpc", "bsp"} /\ (rpcLock' = "rpc" <=> rpcLock = "rpc")
  BY <1>1, Zenon DEF Unlocked, ForkInv, TypeOK
<1>6. TypeOK'
  BY <1>1, <1>2, <1>5, TypeKept, Zenon DEF world, bounds
<1>7. Barrier'
  BY <1>0, <1>1, <1>2, BarrierReleased, Zenon DEF world, Retire, Forking
<1>8. Jobs'
  BY <1>0, <1>1, <1>2, <1>5, ZenonT(40) DEF ForkInv, Jobs, Held, Aimed, DirFor
<1>9. Window' /\ HandOff'
  BY <1>0, <1>1, <1>2, ZenonT(40) DEF ForkInv, Window, HandOff, world, Retire, Forking, Open
<1>10. Content'
  BY <1>0, <1>1, <1>2, Zenon DEF ForkInv, Content, PageFree, world
<1> QED BY <1>6, <1>7, <1>8, <1>9, <1>10, ZenonT(40) DEF ForkInv

\* The last store of bspForkPoint.
LEMMA ForkSkippedIdleStep ==
  ASSUME ForkInv, forkSkippedIdle
  PROVE  ForkInv'
<1>0. node \in Memory
  BY NodeType
<1>1. /\ UNCHANGED <<up, tpc, why, wpc, job, rpcLock, world, bounds>>
      /\ bpc = "forkSkipped" /\ bpc' = "loop" /\ node' = [node EXCEPT !.win = "Idle"]
  BY DEF forkSkippedIdle
<1>2. node' \in Memory
  BY <1>0, <1>1, ZenonT(40) DEF Memory
<1>3. /\ SameBarrier /\ SameShadow /\ node'.childPid = node.childPid
      /\ node'.forkRequest = node.forkRequest /\ node'.win = "Idle"
      /\ node'.handoff = node.handoff
  BY <1>0, <1>1 DEF Memory, SameBarrier, SameShadow
<1>4. TypeOK'
  BY <1>1, <1>2, <1>3, TypeKept DEF world, bounds
<1>5. Barrier'
  BY <1>1, <1>3 DEF ForkInv, Barrier, SameBarrier, allAcknowledged, world, Retire, Forking, Quiet
<1>6. Window' /\ HandOff'
  BY <1>1, <1>3, ZenonT(40)
     DEF ForkInv, Window, HandOff, SameShadow, world, Retire, Forking, Open
<1> QED BY <1>1, <1>3, <1>4, <1>5, <1>6, MainStep, Zenon DEF world

\* The fork: no file is in use, and both processes find the pages they remember.
LEMMA ForkCheckpointStep ==
  ASSUME ForkInv, forkCheckpoint
  PROVE  ForkInv'
<1> DEFINE armed == [clearWindow(node) EXCEPT !.active = TRUE, !.poisoned = FALSE]
<1>0. node \in Memory /\ node.phase + 1 \in Nat
  BY NodeType DEF Memory
<1>1. /\ UNCHANGED <<up, tpc, why, wpc, job, progress, real, bounds>>
      /\ up /\ bpc = "forkQuiet" /\ bpc' = "loop" /\ rpcLock' = "free"
      /\ child' = {Released(armed)} /\ node' = [Released(armed) EXCEPT !.childPid = "child"]
      /\ pipe' = Silence /\ spare' = NoFiles
  BY Zenon DEF forkCheckpoint
<1>2. /\ tpc = "claim" /\ ~node.active /\ node.written = {} /\ node.removed = {}
      /\ ~node.forkRequest /\ node.childPid = "idle"
  BY <1>1 DEF ForkInv, Window, Forking
<1>3. /\ \A w \in Workers : node.ack[w] = node.phase
      /\ rpcLock = "bsp" /\ \A w \in Writers : job[w].kind = "none"
      /\ \A p \in Pages : PageFree(p)
  BY <1>1, AllStopped DEF Quiet
<1>4. Released(armed) = [node EXCEPT !.active = TRUE, !.written = {}, !.removed = {},
                                     !.poisoned = FALSE, !.phase = node.phase + 1]
  BY <1>0, Zenon DEF Released, clearWindow, Memory
<1>5. node' = [node EXCEPT !.active = TRUE, !.written = {}, !.removed = {},
                           !.poisoned = FALSE, !.phase = node.phase + 1, !.childPid = "child"]
  BY <1>0, <1>1, Zenon DEF Released, clearWindow, Memory
<1>6. Released(armed) \in Memory
  <2>1. ASSUME NEW r, r = [node EXCEPT !.active = TRUE, !.written = {}, !.removed = {},
                                       !.poisoned = FALSE, !.phase = node.phase + 1]
        PROVE  r \in Memory
    BY <1>0, <2>1, Zenon DEF Memory
  <2> QED BY <1>4, <2>1, Zenon
<1>7. node' \in Memory
  BY <1>0, <1>5, ZenonT(40) DEF Memory
<1>8. /\ Released(armed).page = node.page /\ Released(armed).phase = node.phase + 1
      /\ Released(armed).ack = node.ack
  BY <1>0, <1>4, Zenon DEF Memory
<1>9. /\ node'.phase = node.phase + 1 /\ node'.ack = node.ack
      /\ node'.active /\ node'.written = {} /\ node'.removed = {}
      /\ node'.childPid = "child" /\ node'.page = node.page
      /\ node'.win = node.win /\ node'.forkRequest = node.forkRequest
      /\ node'.handoff = node.handoff
  BY <1>0, <1>5 DEF Memory
<1> HIDE DEF armed
<1>10. real = node.page
  <2>1. real \in [Pages -> 0 .. LastTick] /\ node.page \in [Pages -> 0 .. LastTick]
    BY <1>0, Zenon DEF ForkInv, TypeOK, Memory
  <2>2. \A p \in Pages : real[p] = node.page[p]
    BY <1>2, <1>3, Zenon DEF ForkInv, Content
  <2> QED BY <2>1, <2>2
<1>11. TypeOK'
  <2>1. Cardinality(child') = 1 /\ child' \subseteq Memory
    BY <1>1, <1>6, FS_Singleton, Zenon
  <2>2. spare' \in [Pages -> 0 .. LastTick] /\ pipe' \in [tag : {"none", "R", "P"}, target : 0 .. LastTick]
    BY <1>1, ForkAssumption DEF NoFiles, Silence
  <2>3. Cardinality(child') <= 1
    BY <2>1
  <2>4. UNCHANGED <<faults, toggles, saves>>
    BY <1>1 DEF bounds
  <2>5. node'.written \cap node'.removed = {}
    BY <1>9, Zenon
  <2> QED BY <1>1, <1>7, <2>1, <2>2, <2>3, <2>4, <2>5, ZenonT(40) DEF ForkInv, TypeOK
<1>12. Barrier'
  <2>1. node.phase \in Nat /\ node.phase % 2 = 1
    BY <1>0, <1>1, Zenon DEF Memory, ForkInv, Barrier, Forking
  <2>2. (node.phase + 1) % 2 = 0 /\ (node.phase + 1) % 2 # 1 /\ \A w \in Workers : node.ack[w] <= node.phase + 1
    BY <1>3, <2>1, Parity
  <2> QED BY <1>1, <1>8, <1>9, <2>2, Zenon DEF Barrier, Retire, Forking, Quiet
<1>13. Jobs'
  BY <1>1, <1>3 DEF ForkInv, Jobs, Held, Aimed
<1>14. Window' /\ HandOff'
  BY <1>1, <1>2, <1>9 DEF ForkInv, Window, HandOff, Retire, Forking, Open
<1>15. Content'
  BY <1>1, <1>8, <1>9, <1>10, Zenon DEF Content
<1> QED BY <1>11, <1>12, <1>13, <1>14, <1>15 DEF ForkInv

\* The commit brings the directory to what the node has written and removed; a
\* page that was lost ends the process instead.
LEMMA CommitStep ==
  ASSUME ForkInv, commitShadow
  PROVE  ForkInv'
<1>0. node \in Memory
  BY NodeType
<1>1. /\ UNCHANGED <<tpc, why, wpc, job, rpcLock, child, pipe, progress, bounds>>
      /\ up /\ bpc = "retireReap" /\ child = {}
  BY Zenon DEF commitShadow
<1>2. CASE \E p \in node.written : spare[p] = 0
  <2>1. up' = FALSE /\ UNCHANGED <<node, bpc, real, spare>>
    BY <1>2, Zenon DEF commitShadow
  <2>2. TypeOK'
    BY <1>1, <2>1, ZenonT(40) DEF ForkInv, TypeOK, bounds
  <2> QED BY <1>1, <2>1, <2>2, Aside
        DEF threads, SameNode, SameBarrier, SameShadow, SameWindow
<1>3. CASE ~\E p \in node.written : spare[p] = 0
  <2>1. /\ real' = Committed /\ bpc' = "retired" /\ UNCHANGED up
        /\ spare' = [p \in Pages |-> IF p \in node.written \cup node.removed THEN 0 ELSE spare[p]]
        /\ node' = [clearWindow(node) EXCEPT !.childPid = "idle", !.win = "Idle"]
    BY <1>3, Zenon DEF commitShadow
  <2>2. node' = [node EXCEPT !.active = FALSE, !.written = {}, !.removed = {},
                             !.childPid = "idle", !.win = "Idle"]
    BY <1>0, <2>1 DEF clearWindow, Memory
  <2>3. node' \in Memory
    BY <1>0, <2>2, ZenonT(40) DEF Memory
  <2>4. /\ SameBarrier /\ ~node'.active /\ node'.written = {} /\ node'.removed = {}
        /\ node'.childPid = "idle" /\ node'.win = "Idle" /\ node'.page = node.page
        /\ node'.forkRequest = node.forkRequest /\ node'.handoff = node.handoff
    BY <1>0, <2>2 DEF Memory, SameBarrier
  <2>5. /\ \A w \in Writers : job[w].kind = "none"
        /\ \A p \in Pages : PageFree(p)
    BY <1>1, AllStopped, SMTT(30) DEF Quiet
  <2>6. real \in [Pages -> 0 .. LastTick] /\ spare \in [Pages -> 0 .. LastTick]
    BY DEF ForkInv, TypeOK
  <2>7. real' \in [Pages -> 0 .. LastTick] /\ spare' \in [Pages -> 0 .. LastTick]
    BY <2>1, <2>6, ForkAssumption, SMTT(30) DEF Committed
  <2>8. \A p \in Pages : real'[p] = node.page[p]
    <3> SUFFICES ASSUME NEW p \in Pages PROVE real'[p] = node.page[p]
      OBVIOUS
    <3>1. real'[p] = IF p \in node.written THEN spare[p]
                     ELSE IF p \in node.removed THEN 0 ELSE real[p]
      BY <2>1 DEF Committed
    <3> QED BY <1>3, <2>5, <3>1, Zenon DEF ForkInv, Content
  <2>9. TypeOK'
    BY <1>1, <2>1, <2>3, <2>4, <2>7, Zenon DEF ForkInv, TypeOK, bounds
  <2>10. Barrier'
    BY <1>1, <2>1, <2>4, Zenon DEF ForkInv, Barrier, SameBarrier, allAcknowledged, Retire, Forking, Quiet
  <2>11. Jobs'
    BY <1>1, <2>5, Zenon DEF ForkInv, Jobs, Held, Aimed
  <2>12. Window' /\ HandOff'
    BY <1>1, <2>1, <2>4, Zenon DEF ForkInv, Window, HandOff, Retire, Forking, Open
  <2>13. Content'
    BY <1>1, <2>4, <2>8, Zenon DEF Content
  <2> QED BY <2>9, <2>10, <2>11, <2>12, <2>13 DEF ForkInv
<1> QED BY <1>2, <1>3

\* The retirement ends: the writers go on, and the tick processor, if it waits,
\* has its answer.
LEMMA RetiredStep ==
  ASSUME ForkInv, bspRetired
  PROVE  ForkInv'
<1>0. node \in Memory /\ node.phase + 1 \in Nat
  BY NodeType DEF Memory
<1> DEFINE h == IF why = "autosave" THEN node.handoff ELSE "Succeeded"
<1>1. /\ UNCHANGED <<up, tpc, wpc, job, world, bounds>>
      /\ up /\ bpc = "retired" /\ rpcLock' = Unlocked /\ why' = "none"
      /\ node' = [Released(node) EXCEPT !.handoff = IF why = "autosave" THEN @ ELSE "Succeeded"]
  BY Zenon DEF bspRetired
<1>2. why \in {"window", "shutdown", "autosave"}
  BY <1>1 DEF ForkInv, TypeOK, HandOff, Retire
<1>3. \/ why = "autosave" /\ bpc' = "saving"
      \/ why = "shutdown" /\ bpc' = "left"
      \/ why = "window" /\ bpc' = "loop"
  <2>1. bpc' = CASE why = "autosave" -> "saving" [] why = "shutdown" -> "left" [] why = "window" -> "loop"
    BY Zenon DEF bspRetired
  <2> QED BY <1>2, <2>1
<1>4. node' = [node EXCEPT !.phase = node.phase + 1, !.handoff = h]
  BY <1>0, <1>1 DEF Released, Memory
<1>5. h \in {"Idle", "Requested", "ShutdownRequested", "Running", "Succeeded", "Failed"}
  BY <1>0 DEF Memory
<1>6. h = (IF why = "autosave" THEN node.handoff ELSE "Succeeded")
  OBVIOUS
<1> HIDE DEF h
<1>7. node' \in Memory
  BY <1>0, <1>4, <1>5, ZenonT(40) DEF Memory
<1>8. /\ SameShadow /\ SameWindow /\ node'.handoff = h
      /\ node'.phase = node.phase + 1 /\ node'.ack = node.ack
  BY <1>0, <1>4 DEF Memory, SameShadow, SameWindow
<1>9. rpcLock' \in {"free", "rpc", "bsp"} /\ (rpcLock' = "rpc" <=> rpcLock = "rpc")
  BY <1>1 DEF Unlocked, ForkInv, TypeOK
<1>10. TypeOK'
  BY <1>1, <1>3, <1>7, <1>8, <1>9, TypeKept, Zenon DEF world, bounds
<1>11. Barrier'
  BY <1>1, <1>3, <1>8, BarrierReleased, Zenon DEF world, Retire, Forking
<1>12. ~node.active /\ child = {}
  BY <1>1 DEF ForkInv, Window
<1>13. Window' /\ HandOff'
  BY <1>1, <1>2, <1>3, <1>6, <1>8, <1>12, Zenon
     DEF ForkInv, Window, HandOff, SameShadow, SameWindow, world, Retire, Forking
<1> QED BY <1>1, <1>8, <1>9, <1>10, <1>11, <1>13, MainStep, ZenonT(40) DEF world

\* A retirement that fails is reported to the tick processor; one for an autosave
\* ends the process.
LEMMA RetireFailedStep ==
  ASSUME ForkInv, retireFailed
  PROVE  ForkInv'
<1>0. node \in Memory /\ node.phase + 1 \in Nat /\ node.tick \in 0 .. LastTick
  <2>1. node \in Memory
    BY NodeType
  <2> QED BY <2>1, ForkAssumption DEF Memory
<1>1. /\ UNCHANGED <<tpc, wpc, job, child, progress, real, spare, bounds>>
      /\ up /\ bpc \in Retire /\ rpcLock' = Unlocked
  BY Zenon DEF retireFailed, Retire
<1>2. rpcLock' \in {"free", "rpc", "bsp"} /\ (rpcLock' = "rpc" <=> rpcLock = "rpc")
  BY <1>1, Zenon DEF Unlocked, ForkInv, TypeOK
<1>3. CASE why = "autosave"
  <2>1. /\ up' = FALSE /\ UNCHANGED <<node, bpc, why>>
        /\ pipe' = [tag |-> "P", target |-> node.tick]
    BY <1>3, Zenon DEF retireFailed, TellPromote
  <2>2. TypeOK'
    <3>1. pipe' \in [tag : {"none", "R", "P"}, target : 0 .. LastTick]
      BY <1>0, <2>1
    <3> QED BY <1>1, <1>2, <2>1, <3>1, ZenonT(40) DEF ForkInv, TypeOK, bounds
  <2>3. Barrier'
    BY <1>1, <2>1, ZenonT(40) DEF ForkInv, Barrier, allAcknowledged
  <2>4. Window' /\ HandOff'
    BY <1>1, <2>1, ZenonT(40) DEF ForkInv, Window, HandOff
  <2> QED BY <1>1, <1>2, <2>1, <2>2, <2>3, <2>4, MainStep, ZenonT(40) DEF SameShadow
<1>4. CASE why # "autosave"
  <2>1. /\ node' = [Released(node) EXCEPT !.handoff = "Failed"]
        /\ bpc' = "loop" /\ why' = "none" /\ UNCHANGED <<up, pipe>>
    BY <1>4, Zenon DEF retireFailed
  <2>2. node' = [node EXCEPT !.phase = node.phase + 1, !.handoff = "Failed"]
    BY <1>0, <2>1 DEF Released, Memory
  <2>3. node' \in Memory
    BY <1>0, <2>2, ZenonT(40) DEF Memory
  <2>4. /\ SameShadow /\ SameWindow /\ node'.handoff = "Failed"
        /\ node'.phase = node.phase + 1 /\ node'.ack = node.ack
    BY <1>0, <2>2 DEF Memory, SameShadow, SameWindow
  <2>5. TypeOK'
    BY <1>1, <1>2, <2>1, <2>3, <2>4, TypeKept DEF bounds
  <2>6. Barrier'
    BY <1>1, <2>1, <2>4, BarrierReleased, Zenon DEF Retire, Forking
  <2>7. why \in {"window", "shutdown"}
    BY <1>1, <1>4, Zenon DEF ForkInv, TypeOK, HandOff
  <2>8. Window' /\ HandOff'
    BY <1>1, <2>1, <2>4, <2>7, Zenon
       DEF ForkInv, Window, HandOff, SameShadow, SameWindow, Retire, Forking
  <2> QED BY <1>1, <1>2, <2>1, <2>4, <2>5, <2>6, <2>8, MainStep, Zenon
<1> QED BY <1>3, <1>4, Zenon

----------------------------------------------------------------------------
(* The checkpoint process and the environment *)

\* The checkpoint becomes the node, with the pages it finds.
LEMMA PromoteStep ==
  ASSUME ForkInv, tickForkChildPromote
  PROVE  ForkInv'
<1>1. /\ up' = TRUE /\ child' = {} /\ pipe' = Silence
      /\ tpc' = "next" /\ bpc' = "loop" /\ why' = "none"
      /\ wpc' = [w \in Workers |-> "loop"] /\ job' = [w \in Writers |-> NoJob]
      /\ rpcLock' = "free" /\ UNCHANGED <<progress, real, toggles, saves>>
  BY Zenon DEF tickForkChildPromote
<1> DEFINE until(c) == IF pipe.tag = "P" THEN pipe.target ELSE crashReplayTargetTick(c)
<1>2. PICK c \in child, clean \in BOOLEAN :
        /\ IF clean THEN spare' = NoFiles /\ Fair ELSE Fault /\ UNCHANGED spare
        /\ node' = [clearWindow(c) EXCEPT
                        !.forkRequest = FALSE, !.childPid = "idle", !.handoff = "Idle", !.win = "Idle",
                        !.poisoned = @ \/ ~clean, !.verify = @ \/ ~clean,
                        !.strict = TRUE, !.until = until(c)]
  BY ZenonT(40) DEF tickForkChildPromote
<1>3. c \in Memory /\ c.phase % 2 = 0 /\ (\A w \in Workers : c.ack[w] <= c.phase) /\ real = c.page
  BY NodeType, Zenon DEF ForkInv, Barrier, Content
<1>4. until(c) \in Nat
  <2>1. c.tick \in Nat /\ c.k \in Nat
    <3>1. c.tick \in 1 .. LastTick /\ c.k \in WindowSizes \cup {0}
      BY <1>3 DEF Memory
    <3>2. c.tick \in Nat
      BY <3>1, ForkAssumption
    <3>3. WindowSizes \cup {0} \subseteq Nat
      BY ForkAssumption
    <3> QED BY <3>1, <3>2, <3>3, Zenon
  <2>2. pipe.target \in Nat /\ progress \in Nat
    BY ForkAssumption DEF ForkInv, TypeOK
  <2> QED BY <2>1, <2>2 DEF crashReplayTargetTick
<1> HIDE DEF until
<1>5. node' = [c EXCEPT !.active = FALSE, !.written = {}, !.removed = {},
                        !.forkRequest = FALSE, !.childPid = "idle", !.handoff = "Idle", !.win = "Idle",
                        !.poisoned = c.poisoned \/ ~clean, !.verify = c.verify \/ ~clean,
                        !.strict = TRUE, !.until = until(c)]
  BY <1>2, <1>3, Zenon DEF clearWindow, Memory
<1>6. (c.poisoned \/ ~clean) \in BOOLEAN /\ (c.verify \/ ~clean) \in BOOLEAN
  OBVIOUS
<1>7. node' \in Memory
  <2> DEFINE m == [c EXCEPT !.active = FALSE, !.written = {}, !.removed = {},
                            !.forkRequest = FALSE, !.childPid = "idle", !.handoff = "Idle"]
  <2>1. m \in Memory
    BY <1>3, Zenon DEF Memory
  <2>2. node' = [m EXCEPT !.win = "Idle", !.poisoned = c.poisoned \/ ~clean,
                          !.verify = c.verify \/ ~clean, !.strict = TRUE, !.until = until(c)]
    BY <1>3, <1>5, Zenon DEF Memory
  <2> HIDE DEF m
  <2>3. PICK x \in BOOLEAN, y \in BOOLEAN :
          node' = [m EXCEPT !.win = "Idle", !.poisoned = x, !.verify = y, !.strict = TRUE,
                            !.until = until(c)]
    BY <1>6, <2>2, Zenon
  <2> QED BY <1>4, <2>1, <2>3, ZenonT(40) DEF Memory
<1>8. /\ node'.phase = c.phase /\ node'.ack = c.ack /\ node'.page = c.page
      /\ ~node'.active /\ node'.written = {} /\ node'.removed = {}
      /\ node'.childPid = "idle" /\ node'.win = "Idle" /\ ~node'.forkRequest
      /\ node'.handoff = "Idle"
  BY <1>3, <1>5, Zenon DEF Memory
<1>9. TypeOK'
  <2>1. spare' \in [Pages -> 0 .. LastTick] /\ faults' \in 0 .. MaxFaults
    BY <1>2, ForkAssumption DEF ForkInv, TypeOK, NoFiles, Fair, Fault
  <2>2. Cardinality(child') = 0 /\ child' \subseteq Memory
    BY <1>1, FS_EmptySet, SMTT(30)
  <2>3. /\ wpc' \in [Workers -> {"loop", "busy", "parked"}]
        /\ pipe' \in [tag : {"none", "R", "P"}, target : 0 .. LastTick]
        /\ job' \in [Writers -> [kind : {"none", "write", "remove"}, page : Pages \cup {0},
                                 dir : {"real", "shadow"}, value : 0 .. LastTick]]
    BY <1>1, ForkAssumption, SMTT(30) DEF NoJob, Silence
  <2>4. Cardinality(child') <= 1 /\ node'.written \cap node'.removed = {}
    BY <1>8, <2>2
  <2> QED BY <1>1, <1>7, <2>1, <2>2, <2>3, <2>4, ZenonT(40) DEF ForkInv, TypeOK
<1>10. Barrier'
  <2>1. c.phase % 2 # 1
    BY <1>3
  <2> QED BY <1>1, <1>3, <1>8, <2>1, Zenon DEF Barrier, Retire, Forking, Quiet
<1>11. Jobs'
  BY <1>1, ForkAssumption, Zenon DEF Jobs, Held, Aimed, NoJob, Writers
<1>12. Window' /\ HandOff'
  BY <1>1, <1>8, Zenon DEF Window, HandOff, Retire, Forking, Open
<1>13. Content'
  BY <1>1, <1>3, <1>8, Zenon DEF Content
<1> QED BY <1>9, <1>10, <1>11, <1>12, <1>13, Zenon DEF ForkInv

\* What the operator and the operating system do, and the exit, touch none of it.
LEMMA EnvironmentStep ==
  ASSUME ForkInv, childRetire \/ Environment \/ nodeExits \/ UNCHANGED vars
  PROVE  ForkInv'
<1>0. node \in Memory
  BY NodeType
<1>1. UNCHANGED <<threads, real, spare, pipe, progress>> /\ up' \in {up, FALSE}
  <2>1. CASE childRetire
    BY <2>1, Zenon DEF childRetire, threads
  <2>2. CASE childDies
    BY <2>2 DEF childDies, threads
  <2>3. CASE nodeDies \/ nodeExits
    BY <2>3, Zenon DEF nodeDies, nodeExits, world
  <2>4. CASE toggleMainMode \/ requestPersisting \/ gracefulShutdownRequested
    BY <2>4, Zenon DEF toggleMainMode, requestPersisting, gracefulShutdownRequested, world
  <2>5. CASE UNCHANGED vars
    BY <2>5 DEF vars, world
  <2> QED BY <2>1, <2>2, <2>3, <2>4, <2>5, Zenon DEF Environment
<1>2. child' \in {child, {}}
  BY DEF childRetire, Environment, toggleMainMode, requestPersisting, gracefulShutdownRequested,
         nodeDies, childDies, nodeExits, vars, world
<1>3. faults' \in 0 .. MaxFaults /\ toggles' \in 0 .. MaxToggles /\ saves' \in 0 .. MaxSaves
  BY ForkAssumption
     DEF childRetire, Environment, toggleMainMode, requestPersisting, gracefulShutdownRequested,
         nodeDies, childDies, nodeExits, vars, bounds, ForkInv, TypeOK, Fault
<1>4. \/ UNCHANGED node
      \/ \E b \in BOOLEAN : \/ node' = [node EXCEPT !.main = b]
                            \/ node' = [node EXCEPT !.persist = b]
                            \/ node' = [node EXCEPT !.stop = b]
  <2>1. CASE toggleMainMode
    <3>1. node' = [node EXCEPT !.main = ~node.main] /\ (~node.main) \in BOOLEAN
      BY <1>0, <2>1 DEF toggleMainMode, Memory
    <3> QED BY <3>1, Zenon
  <2>2. CASE requestPersisting
    BY <2>2, Zenon DEF requestPersisting
  <2>3. CASE gracefulShutdownRequested
    BY <2>3, Zenon DEF gracefulShutdownRequested
  <2>4. CASE childRetire \/ nodeDies \/ childDies \/ nodeExits \/ UNCHANGED vars
    BY <2>4 DEF childRetire, nodeDies, childDies, nodeExits, vars
  <2> QED BY <2>1, <2>2, <2>3, <2>4 DEF Environment
<1>5. node' \in Memory
  <2>1. ASSUME NEW b \in BOOLEAN, node' = [node EXCEPT !.main = b]
        PROVE  node' \in Memory
    BY <1>0, <2>1, Zenon DEF Memory
  <2>2. ASSUME NEW b \in BOOLEAN, node' = [node EXCEPT !.persist = b]
        PROVE  node' \in Memory
    BY <1>0, <2>2, Zenon DEF Memory
  <2>3. ASSUME NEW b \in BOOLEAN, node' = [node EXCEPT !.stop = b]
        PROVE  node' \in Memory
    BY <1>0, <2>3, ZenonT(40) DEF Memory
  <2> QED BY <1>0, <1>4, <2>1, <2>2, <2>3, Zenon
<1>6. SameNode
  BY <1>0, <1>4 DEF Memory, SameNode, SameBarrier, SameShadow, SameWindow
<1>7. TypeOK'
  <2>1. child' \subseteq Memory /\ Cardinality(child') <= 1
    <3>1. Cardinality({}) = 0
      BY FS_EmptySet
    <3>2. CASE child' = {}
      BY <3>1, <3>2
    <3>3. CASE child' = child
      BY <3>3, Zenon DEF ForkInv, TypeOK
    <3> QED BY <1>2, <3>2, <3>3
  <2>2. up' \in BOOLEAN
    BY <1>1, Zenon DEF ForkInv, TypeOK
  <2>3. node'.written \cap node'.removed = {}
    BY <1>6, Zenon DEF ForkInv, TypeOK, SameNode, SameShadow
  <2>4. /\ tpc' = tpc /\ bpc' = bpc /\ why' = why /\ wpc' = wpc /\ job' = job /\ rpcLock' = rpcLock
        /\ pipe' = pipe /\ progress' = progress /\ real' = real /\ spare' = spare
    BY <1>1 DEF threads
  <2>5. /\ tpc' \in {"next", "persist", "resume", "ready", "retire", "establish", "claim", "process",
                     "compare", "shutdown", "stopped", "halted", "done"}
        /\ bpc' \in {"loop", "saving", "retirePark", "retireLock", "retireQuiet", "retireReap", "retired",
                     "forkPark", "forkLock", "forkQuiet", "forkSkipped", "left"}
        /\ why' \in {"none", "window", "shutdown", "autosave"}
        /\ rpcLock' \in {"free", "rpc", "bsp"}
    BY <2>4, Zenon DEF ForkInv, TypeOK
  <2>6. /\ wpc' \in [Workers -> {"loop", "busy", "parked"}]
        /\ job' \in [Writers -> [kind : {"none", "write", "remove"}, page : Pages \cup {0},
                                 dir : {"real", "shadow"}, value : 0 .. LastTick]]
        /\ real' \in [Pages -> 0 .. LastTick] /\ spare' \in [Pages -> 0 .. LastTick]
        /\ pipe' \in [tag : {"none", "R", "P"}, target : 0 .. LastTick] /\ progress' \in 0 .. LastTick
    BY <2>4, Zenon DEF ForkInv, TypeOK
  <2> QED BY <1>3, <1>5, <2>1, <2>2, <2>3, <2>5, <2>6, Zenon DEF TypeOK
<1>8. up' => up
  BY <1>1, Zenon
<1> QED BY <1>1, <1>2, <1>6, <1>7, <1>8, Aside, Zenon

----------------------------------------------------------------------------
(* The theorems that hold without assumptions on the environment *)

\* A node starts without a window.
LEMMA ForkInit == Init => ForkInv
<1> SUFFICES ASSUME Init PROVE ForkInv
  OBVIOUS
<1>1. TypeOK
  BY ForkTypeInit
<1>2. PICK m \in BOOLEAN : node =
              [tick |-> 1, main |-> m, mistaken |-> FALSE,
               strict |-> FALSE, until |-> 0, verify |-> FALSE,
               win |-> "Idle", start |-> 0, k |-> 0, forkRequest |-> FALSE, childPid |-> "idle",
               handoff |-> "Idle", thenFork |-> FALSE,
               phase |-> 0, ack |-> [w \in Workers |-> 0],
               active |-> FALSE, written |-> {}, removed |-> {}, poisoned |-> FALSE,
               page |-> NoFiles, persist |-> FALSE, waiting |-> FALSE, stop |-> FALSE]
  BY ZenonT(40) DEF Init
<1>3. /\ node.win = "Idle" /\ ~node.forkRequest /\ node.childPid = "idle" /\ node.handoff = "Idle"
      /\ node.phase = 0 /\ node.ack = [w \in Workers |-> 0]
      /\ ~node.active /\ node.written = {} /\ node.removed = {} /\ node.page = NoFiles
  BY <1>2, Zenon
<1>4. /\ tpc = "next" /\ bpc = "loop" /\ why = "none"
      /\ wpc = [w \in Workers |-> "loop"] /\ job = [w \in Writers |-> NoJob]
      /\ rpcLock = "free" /\ child = {} /\ real = NoFiles
  BY Zenon DEF Init
<1>5. Barrier
  <2>1. node.phase % 2 # 1 /\ \A w \in Workers : node.ack[w] <= node.phase
    BY <1>3
  <2> QED BY <1>4, <2>1, Zenon DEF Barrier, Retire, Forking, Quiet
<1>6. Jobs
  BY <1>4, ForkAssumption, Zenon DEF Jobs, Held, Aimed, NoJob, Writers
<1>7. Window /\ HandOff
  BY <1>3, <1>4, Zenon DEF Window, HandOff, Retire, Forking, Open
<1>8. Content
  BY <1>3, <1>4 DEF Content
<1> QED BY <1>1, <1>5, <1>6, <1>7, <1>8, Zenon DEF ForkInv

\* Every step of the node, its threads and the checkpoint keeps the invariant.
LEMMA ForkStep == ForkInv /\ [Next]_vars => ForkInv'
<1> SUFFICES ASSUME ForkInv, [Next]_vars PROVE ForkInv'
  OBVIOUS
<1>1. CASE TickProcessor
  BY <1>1, ShutdownSteps, PersistSteps, MaybeForkStep, RetireAnsweredStep, EstablishStep,
     CheckpointAnsweredStep, ProcessTickStep, VerdictSteps, Zenon DEF TickProcessor
<1>2. CASE MainThread
  BY <1>2, ServiceStep, ForkPointStep, PersistStep, PersistedStep, PassageSteps, ForkSkippedStep,
     ForkSkippedIdleStep, ForkCheckpointStep, CommitStep, RetiredStep, RetireFailedStep, Zenon
     DEF MainThread
<1>3. CASE (\E w \in Workers : RequestProcessor(w)) \/ Rpc
  BY <1>3, RequestProcessorStep, RpcStep, Zenon
<1>4. CASE Checkpoint \/ Environment \/ nodeExits \/ rest \/ UNCHANGED vars
  BY <1>4, PromoteStep, EnvironmentStep, Zenon DEF Checkpoint, rest
<1> QED BY <1>1, <1>2, <1>3, <1>4, Zenon DEF Next

\* ForkInv holds of every reachable state.
LEMMA ForkInvariance == Spec => []ForkInv
BY ForkInit, ForkStep, PTL DEF Spec

\* The memory of the node and of its one checkpoint have their types, and no page
\* counts both as written and as removed in a window.
THEOREM ForkTypeCorrect == Spec => []TypeOK
<1>1. ForkInv => TypeOK
  BY Zenon DEF ForkInv
<1> QED BY <1>1, ForkInvariance, PTL

\* A checkpoint finds every page file as it was at the fork.
THEOREM CheckpointFindsItsFiles == Spec => []CheckpointPristine
<1>1. ForkInv => CheckpointPristine
  BY Zenon DEF ForkInv, Content, CheckpointPristine
<1> QED BY <1>1, ForkInvariance, PTL

\* What was last written to a page is read back.
THEOREM PagesReadBack == Spec => []ReadsBack
<1>1. ForkInv => ReadsBack
  <2> SUFFICES ASSUME ForkInv, up, ~node.poisoned, NEW p \in Pages, PageFree(p)
               PROVE  ReadPage(node, p) = node.page[p]
    BY Zenon DEF ReadsBack
  <2>1. node.written \cap node.removed = {}
    BY Zenon DEF ForkInv, TypeOK
  <2>2. ~node.active => node.written = {} /\ node.removed = {}
    BY Zenon DEF ForkInv, Window
  <2> QED BY <2>1, <2>2, Zenon DEF ForkInv, Content, ReadPage
<1> QED BY <1>1, ForkInvariance, PTL

\* Nobody writes while the main thread forks or commits.
THEOREM QuiescenceHolds == Spec => []WritersStopped
<1>1. ForkInv => WritersStopped
  <2> SUFFICES ASSUME ForkInv, up, bpc \in Quiet
               PROVE  /\ \A w \in Workers : wpc[w] = "parked" /\ node.ack[w] = node.phase
                      /\ rpcLock = "bsp"
                      /\ why # "autosave" => tpc \in {"claim", "retire", "shutdown"}
    BY Zenon DEF WritersStopped, Quiet
  <2>1. why # "autosave" => tpc \in {"claim", "retire", "shutdown"}
    BY Zenon DEF ForkInv, TypeOK, Window, HandOff, Quiet, Retire, Forking
  <2> QED BY <2>1, AllStopped, Zenon
<1> QED BY <1>1, ForkInvariance, PTL

\* A node that has shut down leaves neither a checkpoint process nor a page in the
\* shadow directory.
THEOREM ShutdownLeavesNothing == Spec => []ShutdownClean
<1>1. ForkInv => ShutdownClean
  BY DEF ForkInv, Window, ShutdownClean
<1> QED BY <1>1, ForkInvariance, PTL

----------------------------------------------------------------------------
(* The theorems that hold if no request to persist meets the end of the tick *)
(* processor's wait, and if the mode changes between two ticks only          *)

SameSave == node'.waiting = node.waiting /\ node'.persist = node.persist
SameTrust ==
  /\ node'.tick = node.tick /\ node'.main = node.main /\ node'.mistaken = node.mistaken
  /\ node'.strict = node.strict /\ node'.verify = node.verify
  /\ node'.win = node.win /\ node'.thenFork = node.thenFork
TrustKept == Saving' /\ (Trusted /\ ~RemoteToggle => Trusted')

\* A step of another thread that concerns neither saving nor trust.
LEMMA Steady ==
  ASSUME Saving, SameSave, SameTrust, UNCHANGED tpc, why' \in {why, "none"},
         bpc' = "saving" => bpc = "saving", child' \subseteq child, up' => up
  PROVE  TrustKept
<1>1. Saving'
  BY Zenon DEF Saving, SameSave
<1>2. Trusted => Trusted'
  BY Zenon DEF Trusted, SameTrust, isTrustingClaimedSolutionScore
<1> QED BY <1>1, <1>2, Zenon DEF TrustKept

\* The tick processor goes on only when the main thread does not save.
LEMMA TickTrust ==
  ASSUME Saving, tpc \notin {"persist", "resume"}, tpc' \notin {"persist", "resume"},
         SameSave, UNCHANGED <<bpc, why, child>>
  PROVE  Saving'
BY Zenon DEF Saving, SameSave

\* Shutdown and persisting: a state on trust is not on the way.
LEMMA TrustWaits ==
  ASSUME ForkInv, Saving, QuietResume,
         \/ retireCheckpointForShutdown \/ shutdownAnswered
         \/ waitForPersisting \/ persistingSeen \/ persistingDone
  PROVE  TrustKept
<1>0. node \in Memory
  BY NodeType
<1>1. CASE retireCheckpointForShutdown
  <2>1. /\ tpc \in {"next", "compare"} /\ tpc' = "shutdown" /\ UNCHANGED <<bpc, why, child>>
        /\ node' = [node EXCEPT !.win = IF @ = "Live" THEN "Retiring" ELSE @,
                                !.handoff = "ShutdownRequested"]
    BY <1>1, Zenon DEF retireCheckpointForShutdown, world
  <2>2. SameSave
    BY <1>0, <2>1 DEF Memory, SameSave
  <2> QED BY <2>1, <2>2, TickTrust DEF Trusted, TrustKept
<1>2. CASE shutdownAnswered
  <2>1. /\ tpc = "shutdown" /\ tpc' \in {"shutdown", "stopped"} /\ UNCHANGED <<bpc, why, child>>
        /\ \E h \in {"Idle", "ShutdownRequested"} : node' = [node EXCEPT !.handoff = h]
    BY <1>2, Zenon DEF shutdownAnswered, world
  <2>2. SameSave
    BY <1>0, <2>1 DEF Memory, SameSave
  <2> QED BY <2>1, <2>2, TickTrust DEF Trusted, TrustKept
<1>3. CASE waitForPersisting
  <2>1. /\ up /\ tpc = "next" /\ tpc' = "persist" /\ UNCHANGED <<bpc, why, child>>
        /\ node' = [node EXCEPT !.waiting = TRUE]
    BY <1>3, Zenon DEF waitForPersisting, world
  <2>2. SameTrust /\ node'.waiting
    BY <1>0, <2>1, Zenon DEF Memory, SameTrust
  <2> QED BY <2>1, <2>2 DEF Saving, Trusted, TrustKept, SameTrust
<1>4. CASE persistingSeen
  <2>1. /\ up /\ tpc = "persist" /\ ~node.persist /\ tpc' = "resume"
        /\ UNCHANGED <<node, bpc, why, child>>
    BY <1>4, Zenon DEF persistingSeen, world
  <2> QED BY <2>1 DEF Saving, Trusted, TrustKept
<1>5. CASE persistingDone
  <2>1. /\ up /\ tpc = "resume" /\ tpc' = "ready" /\ UNCHANGED <<bpc, why, child>>
        /\ node' = [node EXCEPT !.waiting = FALSE]
    BY <1>5, Zenon DEF persistingDone, world
  <2>2. SameTrust /\ ~node'.waiting
    BY <1>0, <2>1 DEF Memory, SameTrust
  <2> QED BY <2>1, <2>2 DEF Saving, Trusted, TrustKept, SameTrust
<1> QED BY <1>1, <1>2, <1>3, <1>4, <1>5, Zenon

\* maybeForkBeforeTick has a checkpoint made before a tick with a solution.
LEMMA TrustBegins ==
  ASSUME ForkInv, Saving, maybeForkBeforeTick
  PROVE  TrustKept
<1>0. node \in Memory
  BY NodeType
<1>1. up /\ tpc \in {"next", "ready"} /\ UNCHANGED <<up, bpc, why, child>>
  BY Zenon DEF maybeForkBeforeTick
<1>2. CASE UNCHANGED node
  <2>1. ~\E x : RequestRetire(x)
    BY <1>0, <1>1, <1>2, Zenon DEF RequestRetire, Memory
  <2>2. /\ tpc' \in {"process", "establish"}
        /\ tpc' = "process" /\ isTrustingClaimedSolutionScore /\ node.tick \in Solutions
             => node.win = "Live"
    BY <2>1, Zenon DEF maybeForkBeforeTick, isTrustingClaimedSolutionScore
  <2>3. Saving'
    BY <1>1, <1>2, <2>2, TickTrust, Zenon DEF SameSave
  <2>4. isTrustingClaimedSolutionScore' <=> isTrustingClaimedSolutionScore
    BY <1>2, Zenon DEF isTrustingClaimedSolutionScore
  <2>5. Trusted => Trusted'
    BY <1>1, <1>2, <2>2, <2>4, Zenon DEF Trusted
  <2> QED BY <2>3, <2>5 DEF TrustKept
<1>3. CASE ~UNCHANGED node
  <2>1. \/ RequestRetire(FALSE) /\ (node.main \/ node.tick = LastTick)
        \/ RequestRetire(node.tick \in Solutions)
    BY <1>3, Zenon DEF maybeForkBeforeTick
  <2>2. PICK x \in BOOLEAN :
          /\ node' = [node EXCEPT !.win = "Retiring", !.handoff = "Requested", !.thenFork = x]
          /\ tpc' = "retire"
          /\ x \/ node.main \/ node.tick = LastTick \/ node.tick \notin Solutions
    <3>1. (node.tick \in Solutions) \in BOOLEAN /\ FALSE \in BOOLEAN
      OBVIOUS
    <3> QED BY <2>1, <3>1, Zenon DEF RequestRetire
  <2>3. /\ SameSave /\ node'.thenFork = x /\ node'.main = node.main /\ node'.tick = node.tick
        /\ node'.mistaken = node.mistaken
    BY <1>0, <2>2 DEF Memory, SameSave
  <2>4. Saving'
    BY <1>1, <2>2, <2>3, TickTrust, Zenon
  <2> QED BY <1>1, <2>2, <2>3, <2>4, Zenon DEF Trusted, TrustKept
<1> QED BY <1>2, <1>3

\* The answers of the main thread.
LEMMA TrustAnswered ==
  ASSUME ForkInv, Saving, retireAnswered \/ establishCheckpoint \/ checkpointAnswered
  PROVE  TrustKept
<1>0. node \in Memory
  BY NodeType
<1>1. CASE retireAnswered
  <2>1. /\ up /\ tpc = "retire" /\ UNCHANGED <<bpc, why, child>>
        /\ \/ /\ node' = [node EXCEPT !.handoff = "Idle"] /\ tpc' \in {"establish", "process"}
              /\ tpc' = "process" => ~node.thenFork
           \/ UNCHANGED <<node, tpc>> /\ ~up'
    BY <1>1, Zenon DEF retireAnswered, TellPromote
  <2>2. SameSave /\ SameTrust
    BY <1>0, <2>1 DEF Memory, SameSave, SameTrust
  <2>3. Saving'
    BY <2>1, <2>2, TickTrust, Zenon
  <2> QED BY <2>1, <2>2, <2>3 DEF Trusted, TrustKept, SameTrust, isTrustingClaimedSolutionScore
<1>2. CASE establishCheckpoint
  <2>1. up /\ tpc = "establish" /\ UNCHANGED <<bpc, why, child>>
    BY <1>2, Zenon DEF establishCheckpoint
  <2>2. PICK k \in WindowSizes :
          \/ node' = [Strictly(node) EXCEPT !.k = k] /\ tpc' = "process"
          \/ /\ node' = [node EXCEPT !.k = k, !.win = "Checkpointing", !.childPid = "idle",
                                     !.forkRequest = TRUE]
             /\ tpc' = "claim"
    BY <1>2, Zenon DEF establishCheckpoint
  <2>3. /\ SameSave /\ node'.mistaken = node.mistaken
        /\ (tpc' = "process" /\ node'.strict) \/ tpc' = "claim"
    <3>1. CASE node' = [Strictly(node) EXCEPT !.k = k] /\ tpc' = "process"
      BY <1>0, <3>1 DEF Strictly, Memory, SameSave
    <3>2. CASE /\ node' = [node EXCEPT !.k = k, !.win = "Checkpointing", !.childPid = "idle",
                                       !.forkRequest = TRUE]
               /\ tpc' = "claim"
      BY <1>0, <3>2, Zenon DEF Memory, SameSave
    <3> QED BY <2>2, <3>1, <3>2, Zenon
  <2>4. Saving'
    BY <2>1, <2>3, TickTrust, Zenon
  <2> QED BY <2>1, <2>3, <2>4 DEF Trusted, TrustKept, isTrustingClaimedSolutionScore
<1>3. CASE checkpointAnswered
  <2>1. up /\ tpc = "claim" /\ UNCHANGED <<bpc, why, child>>
    BY <1>3, Zenon DEF checkpointAnswered, world
  <2>2. \/ node' = [node EXCEPT !.start = node.tick, !.win = "Live"] /\ tpc' = "process"
        \/ node' = Strictly(node) /\ tpc' = "process"
        \/ ~up' /\ UNCHANGED <<node, tpc>>
    BY <1>3, Zenon DEF checkpointAnswered
  <2>3. /\ SameSave /\ node'.mistaken = node.mistaken
        /\ (tpc' = "process" /\ (node'.strict \/ node'.win = "Live")) \/ (tpc' = "claim" /\ ~up')
    <3>1. CASE node' = [node EXCEPT !.start = node.tick, !.win = "Live"] /\ tpc' = "process"
      BY <1>0, <3>1 DEF Memory, SameSave
    <3>2. CASE node' = Strictly(node) /\ tpc' = "process"
      BY <1>0, <3>2, Zenon DEF Strictly, Memory, SameSave
    <3>3. CASE ~up' /\ UNCHANGED <<node, tpc>>
      BY <2>1, <3>3, Zenon DEF SameSave
    <3> QED BY <2>2, <3>1, <3>2, <3>3, Zenon
  <2>4. Saving'
    BY <2>1, <2>3, TickTrust
  <2> QED BY <2>1, <2>3, <2>4 DEF Trusted, TrustKept, isTrustingClaimedSolutionScore
<1> QED BY <1>1, <1>2, <1>3

\* A tick executed on trust has a live window behind it; the verdict uses it.
LEMMA TrustExecuted ==
  ASSUME ForkInv, Saving, processTick \/ tickCompleted \/ verdictMismatch \/ noRollbackAvailable
  PROVE  TrustKept
<1>0. node \in Memory
  BY NodeType
<1>1. CASE processTick
  <2>1. up /\ tpc = "process" /\ tpc' = "compare" /\ UNCHANGED <<bpc, why, child>>
    BY <1>1, Zenon DEF processTick
  <2>2. PICK m \in BOOLEAN :
          /\ SameSave /\ node'.win = node.win /\ node'.mistaken = m
          /\ m => node.mistaken \/ (isTrustingClaimedSolutionScore /\ node.tick \in Wrong)
    <3> DEFINE m == node.mistaken \/ (isTrustingClaimedSolutionScore /\ node.tick \in Wrong)
    <3>1. CASE node' = Executed(node)
      BY <1>0, <3>1, Zenon DEF Executed, Memory, SameSave
    <3>2. ASSUME NEW p \in Pages,
                 node' = [Executed(Noted(node, "write", p)) EXCEPT !.page[p] = node.tick]
          PROVE  SameSave /\ node'.win = node.win /\ node'.mistaken = m
      <4> DEFINE n == Noted(node, "write", p)
      <4>1. /\ n \in Memory /\ n.win = node.win /\ n.mistaken = node.mistaken
            /\ n.waiting = node.waiting /\ n.persist = node.persist
        <5>1. CASE ~node.active
          BY <1>0, <5>1, Zenon DEF Noted
        <5>2. CASE node.active
          <6>1. n = [node EXCEPT !.written = node.written \cup {p}, !.removed = node.removed \ {p}]
            BY <5>2, ZenonT(40) DEF Noted
          <6>2. node.written \cup {p} \in SUBSET Pages /\ node.removed \ {p} \in SUBSET Pages
            BY <1>0 DEF Memory
          <6> HIDE DEF n
          <6>3. n \in Memory
            BY <1>0, <6>1, <6>2, Zenon DEF Memory
          <6> QED BY <1>0, <6>1, <6>3 DEF Memory
        <5> QED BY <5>1, <5>2, Zenon
      <4> HIDE DEF n
      <4> QED BY <3>2, <4>1, Zenon DEF Executed, Memory, SameSave, n
    <3> QED BY <1>1, <3>1, <3>2, Zenon DEF processTick
  <2>3. Saving'
    BY <2>1, <2>2, TickTrust
  <2> QED BY <2>1, <2>2, <2>3, ForkAssumption, Zenon DEF Trusted, TrustKept
<1>2. CASE tickCompleted
  <2>1. /\ up /\ tpc = "compare" /\ tpc' \in {"done", "next"} /\ UNCHANGED <<bpc, why, child>>
        /\ ~node.mistaken
        /\ \/ UNCHANGED node
           \/ \E m \in BOOLEAN : node' = [node EXCEPT !.tick = @ + 1, !.main = m]
    BY <1>2, Zenon DEF tickCompleted, world
  <2>2. SameSave /\ ~node'.mistaken
    BY <1>0, <2>1, Zenon DEF Memory, SameSave
  <2>3. Saving'
    BY <2>1, <2>2, TickTrust, Zenon
  <2> QED BY <2>1, <2>2, <2>3, Zenon DEF Trusted, TrustKept
<1>3. CASE verdictMismatch
  <2>1. UNCHANGED <<node, tpc, bpc, why, child>> /\ ~up'
    BY <1>3, Zenon DEF verdictMismatch, TellPromote, threads
  <2> QED BY <2>1, Steady, Zenon DEF SameSave, SameTrust
<1>4. CASE noRollbackAvailable
  <2>1. /\ up /\ node.mistaken /\ node.win # "Live" /\ tpc = "compare" /\ tpc' = "halted"
        /\ UNCHANGED <<node, bpc, why, child>>
    BY <1>4, Zenon DEF noRollbackAvailable, world
  <2>2. Saving'
    BY <2>1, TickTrust, Zenon DEF SameSave
  <2> QED BY <2>1, <2>2 DEF Trusted, TrustKept
<1> QED BY <1>1, <1>2, <1>3, <1>4, Zenon

\* Page operations of request processors and RPC threads.
LEMMA TrustWriters ==
  ASSUME ForkInv, Saving, (\E w \in Workers : RequestProcessor(w)) \/ Rpc
  PROVE  TrustKept
<1>0. node \in Memory
  BY NodeType
<1>1. UNCHANGED <<up, tpc, bpc, why, child>>
  BY Zenon DEF RequestProcessor, requestProcessor, handled, park, unpark, Rpc, rpcRequest, rpcDone, world
<1>2. SameSave /\ SameTrust
  <2>1. ASSUME NEW w, NEW p, NEW kind, StartJob(w, p, kind)
        PROVE  SameSave /\ SameTrust
    BY <1>0, <2>1 DEF StartJob, Noted, Memory, SameSave, SameTrust
  <2>2. ASSUME NEW w, EndJob(w)
        PROVE  SameSave /\ SameTrust
    BY <1>0, <2>2, Zenon DEF EndJob, Memory, SameSave, SameTrust
  <2>4. ASSUME NEW w, LoseJob(w)
        PROVE  SameSave /\ SameTrust
    BY <1>0, <2>4, Zenon DEF LoseJob, Memory, SameSave, SameTrust
  <2>3. ASSUME NEW w, park(w) \/ unpark(w)
        PROVE  SameSave /\ SameTrust
    BY <1>0, <2>3 DEF park, unpark, Memory, SameSave, SameTrust
  <2> QED BY <2>1, <2>2, <2>3, <2>4, Zenon
          DEF RequestProcessor, requestProcessor, handled, Rpc, rpcRequest, rpcDone
<1> QED BY <1>1, <1>2, Steady, ZenonT(40)

\* The steps of the main thread that concern neither saving nor trust.
LEMMA TrustBarrier ==
  ASSUME ForkInv, Saving,
         \/ bspServiceRetireRequest \/ bspForkPoint \/ bspParked \/ bspLocked \/ forkSkipped
         \/ reapCheckpointChild \/ nothingToCommit \/ retireFailed
  PROVE  TrustKept
<1>0. node \in Memory
  BY NodeType
<1>1. CASE bspServiceRetireRequest \/ bspForkPoint
  <2>1. /\ UNCHANGED <<up, tpc, child>> /\ why' \in {why, "window", "shutdown"}
        /\ bpc = "loop" /\ bpc' \in {"retirePark", "forkPark"}
    BY <1>1, Zenon DEF bspServiceRetireRequest, bspForkPoint, world
  <2>2. SameSave /\ SameTrust
    <3>1. CASE bspServiceRetireRequest
      BY <1>0, <3>1, Zenon DEF bspServiceRetireRequest, Parking, Memory, SameSave, SameTrust
    <3>2. CASE bspForkPoint
      BY <1>0, <3>2, Zenon DEF bspForkPoint, Parking, Memory, SameSave, SameTrust
    <3> QED BY <1>1, <3>1, <3>2
  <2>3. Saving'
    BY <2>1, <2>2, Zenon DEF Saving, SameSave
  <2>4. Trusted => Trusted'
    BY <2>1, <2>2, ZenonT(40) DEF Trusted, SameTrust, isTrustingClaimedSolutionScore
  <2> QED BY <2>3, <2>4 DEF TrustKept
<1>2. CASE bspParked \/ bspLocked \/ reapCheckpointChild \/ nothingToCommit
  <2>1. UNCHANGED <<up, node, tpc, why, child>> /\ bpc' # "saving"
    BY <1>2, Zenon DEF bspParked, bspLocked, reapCheckpointChild, nothingToCommit, world
  <2> QED BY <2>1, Steady DEF SameSave, SameTrust
<1>3. CASE forkSkipped
  <2>1. UNCHANGED <<up, tpc, why, child>> /\ bpc' # "saving"
    BY <1>3, Zenon DEF forkSkipped, world
  <2>2. SameSave /\ SameTrust
    <3>1. CASE node' = [Released(node) EXCEPT !.childPid = "failed"]
      BY <1>0, <3>1 DEF Released, Memory, SameSave, SameTrust
    <3>2. ASSUME NEW b,
                 node' = [Released(clearWindow(node)) EXCEPT !.childPid = "failed", !.poisoned = b]
          PROVE  SameSave /\ SameTrust
      BY <1>0, <3>2 DEF Released, clearWindow, Memory, SameSave, SameTrust
    <3> QED BY <1>3, <3>1, <3>2, Zenon DEF forkSkipped
  <2> QED BY <2>1, <2>2, Steady
<1>4. CASE retireFailed
  <2>1. /\ UNCHANGED <<tpc, child>> /\ up
        /\ \/ UNCHANGED <<node, bpc, why>>
           \/ /\ node' = [Released(node) EXCEPT !.handoff = "Failed"]
              /\ bpc' = "loop" /\ why' = "none"
    BY <1>4, Zenon DEF retireFailed
  <2>2. SameSave /\ SameTrust
    BY <1>0, <2>1, Zenon DEF Released, Memory, SameSave, SameTrust
  <2> QED BY <2>1, <2>2, Steady
<1> QED BY <1>1, <1>2, <1>3, <1>4, Zenon

\* Saving and the commit for it happen while the tick processor waits.
LEMMA TrustSaved ==
  ASSUME ForkInv, Saving, QuietResume, bspPersist \/ bspPersisted \/ bspRetired
  PROVE  TrustKept
<1>0. node \in Memory
  BY NodeType
<1>1. CASE bspPersist
  <2>1. /\ UNCHANGED <<up, tpc, child>> /\ up /\ node.persist /\ node.waiting
        /\ \/ node' = [Parking(node) EXCEPT !.win = "Retiring"]
           \/ UNCHANGED node
    BY <1>1, Zenon DEF bspPersist, world
  <2>2. tpc = "persist"
    BY <2>1 DEF Saving, QuietResume
  <2>3. SameSave /\ node'.mistaken = node.mistaken
    BY <1>0, <2>1, Zenon DEF Parking, Memory, SameSave
  <2>4. Saving'
    BY <2>1, <2>2, <2>3, Zenon DEF Saving, SameSave
  <2> QED BY <2>1, <2>2, <2>3, <2>4, Zenon DEF Trusted, TrustKept
<1>2. CASE bspPersisted
  <2>1. /\ UNCHANGED <<up, tpc, why, child>> /\ bpc = "saving" /\ bpc' = "loop"
        /\ node' = [node EXCEPT !.persist = FALSE]
    BY <1>2, Zenon DEF bspPersisted, world
  <2>2. SameTrust /\ node'.waiting = node.waiting
    BY <1>0, <2>1, Zenon DEF Memory, SameTrust
  <2>3. why = "none"
    BY <2>1 DEF ForkInv, HandOff, Retire
  <2>4. Saving'
    BY <2>1, <2>2, <2>3 DEF Saving
  <2>5. Trusted => Trusted'
    BY <2>1, <2>2, Zenon DEF Trusted, SameTrust, isTrustingClaimedSolutionScore
  <2> QED BY <2>4, <2>5 DEF TrustKept
<1>3. CASE bspRetired
  <2>1. /\ UNCHANGED <<up, tpc, child>> /\ bpc = "retired" /\ why' = "none"
        /\ \E h : node' = [Released(node) EXCEPT !.handoff = h]
        /\ bpc' = CASE why = "autosave" -> "saving" [] why = "shutdown" -> "left" [] why = "window" -> "loop"
    BY <1>3, Zenon DEF bspRetired, world
  <2>2. SameSave /\ SameTrust
    BY <1>0, <2>1, Zenon DEF Released, Memory, SameSave, SameTrust
  <2>3. why \in {"window", "shutdown", "autosave"}
    BY <2>1 DEF ForkInv, TypeOK, HandOff, Retire
  <2>4. bpc' = "saving" => why = "autosave"
    BY <2>1, <2>3
  <2>5. Saving'
    BY <2>1, <2>2, <2>4, Zenon DEF Saving, SameSave
  <2>6. Trusted => Trusted'
    BY <2>1, <2>2, Zenon DEF Trusted, SameTrust, isTrustingClaimedSolutionScore
  <2> QED BY <2>5, <2>6 DEF TrustKept
<1> QED BY <1>1, <1>2, <1>3

\* The fork and the commit: a checkpoint has no mistaken state, and a window that
\* ends has none to rewind.
LEMMA TrustForked ==
  ASSUME ForkInv, Saving, forkSkippedIdle \/ forkCheckpoint \/ commitShadow
  PROVE  TrustKept
<1>0. node \in Memory
  BY NodeType
<1>1. CASE forkSkippedIdle
  <2>1. /\ UNCHANGED <<up, tpc, why, child>> /\ bpc = "forkSkipped" /\ bpc' = "loop"
        /\ node' = [node EXCEPT !.win = "Idle"]
    BY <1>1, Zenon DEF forkSkippedIdle, world
  <2>2. /\ SameSave /\ node'.tick = node.tick /\ node'.main = node.main
        /\ node'.mistaken = node.mistaken /\ node'.strict = node.strict
        /\ node'.verify = node.verify /\ node'.thenFork = node.thenFork
    BY <1>0, <2>1, Zenon DEF Memory, SameSave
  <2>3. node.win # "Live"
    BY <2>1 DEF ForkInv, Window, Open
  <2>4. Saving'
    BY <2>1, <2>2 DEF Saving, SameSave
  <2>5. Trusted => Trusted'
    BY <2>1, <2>2, <2>3, Zenon DEF Trusted, isTrustingClaimedSolutionScore
  <2> QED BY <2>4, <2>5 DEF TrustKept
<1>2. CASE forkCheckpoint
  <2> DEFINE armed == [clearWindow(node) EXCEPT !.active = TRUE, !.poisoned = FALSE]
  <2>1. /\ UNCHANGED <<up, tpc, why>> /\ up /\ bpc = "forkQuiet" /\ bpc' = "loop"
        /\ child' = {Released(armed)} /\ node' = [Released(armed) EXCEPT !.childPid = "child"]
    BY <1>2, Zenon DEF forkCheckpoint
  <2>2. SameSave /\ SameTrust
    BY <1>0, <2>1, Zenon DEF Released, clearWindow, Memory, SameSave, SameTrust
  <2>3. Released(armed).waiting = node.waiting /\ Released(armed).mistaken = node.mistaken
    BY <1>0, Zenon DEF Released, clearWindow, Memory
  <2>4. tpc = "claim"
    BY <2>1 DEF ForkInv, Window, Forking
  <2> HIDE DEF armed
  <2>5. Saving'
    BY <2>1, <2>2, <2>3, <2>4, Zenon DEF Saving, SameSave
  <2>6. Trusted => Trusted'
    BY <2>1, <2>2, <2>3, <2>4, Zenon DEF Trusted, SameTrust
  <2> QED BY <2>5, <2>6 DEF TrustKept
<1>3. CASE commitShadow
  <2>1. UNCHANGED <<tpc, why, child>> /\ up /\ bpc = "retireReap" /\ bpc' # "saving"
    BY <1>3, Zenon DEF commitShadow
  <2>2. \/ UNCHANGED node
        \/ node' = [clearWindow(node) EXCEPT !.childPid = "idle", !.win = "Idle"]
    BY <1>3, Zenon DEF commitShadow
  <2>3. /\ SameSave /\ node'.tick = node.tick /\ node'.main = node.main
        /\ node'.mistaken = node.mistaken /\ node'.thenFork = node.thenFork
    BY <1>0, <2>2, ZenonT(40) DEF clearWindow, Memory, SameSave
  <2>4. tpc \in {"retire", "shutdown", "persist"}
    BY <2>1, Zenon DEF ForkInv, TypeOK, HandOff, Retire, Saving
  <2>5. Saving'
    BY <2>1, <2>3, Zenon DEF Saving, SameSave
  <2>6. Trusted => Trusted'
    BY <2>1, <2>3, <2>4, ZenonT(40) DEF Trusted
  <2> QED BY <2>5, <2>6 DEF TrustKept
<1> QED BY <1>1, <1>2, <1>3

\* The checkpoint takes over with a state it can trust; what the operator does
\* leaves the state alone.
LEMMA TrustElsewhere ==
  ASSUME ForkInv, Saving, Checkpoint \/ Environment \/ nodeExits \/ UNCHANGED vars
  PROVE  TrustKept
<1>0. node \in Memory
  BY NodeType
<1>1. CASE tickForkChildPromote
  <2>1. tpc' = "next" /\ bpc' = "loop" /\ why' = "none" /\ child' = {}
    BY <1>1, Zenon DEF tickForkChildPromote
  <2>2. PICK c \in child : node'.waiting = c.waiting /\ node'.mistaken = c.mistaken
    <3>1. PICK c \in child, clean \in BOOLEAN :
            node' = [clearWindow(c) EXCEPT
                        !.forkRequest = FALSE, !.childPid = "idle", !.handoff = "Idle", !.win = "Idle",
                        !.poisoned = @ \/ ~clean, !.verify = @ \/ ~clean,
                        !.strict = TRUE,
                        !.until = IF pipe.tag = "P" THEN pipe.target ELSE crashReplayTargetTick(c)]
      BY <1>1, Zenon DEF tickForkChildPromote
    <3>2. c \in Memory
      BY NodeType
    <3>3. node'.waiting = c.waiting /\ node'.mistaken = c.mistaken
      BY <3>1, <3>2, Zenon DEF clearWindow, Memory
    <3> QED BY <3>3
  <2> QED BY <2>1, <2>2, Zenon DEF Saving, Trusted, TrustKept
<1>2. CASE childRetire \/ childDies
  <2>1. UNCHANGED <<up, node, tpc, bpc, why>> /\ child' = {}
    BY <1>2 DEF childRetire, childDies, threads
  <2> QED BY <2>1, Steady, ZenonT(40) DEF SameSave, SameTrust
<1>3. CASE toggleMainMode
  <2>1. /\ UNCHANGED <<tpc, bpc, why, child>> /\ RemoteToggle
        /\ node' = [node EXCEPT !.main = ~@]
    BY <1>3 DEF toggleMainMode, threads, world
  <2>2. SameSave
    BY <1>0, <2>1, Zenon DEF Memory, SameSave
  <2> QED BY <2>1, <2>2 DEF Saving, SameSave, TrustKept
<1>4. CASE requestPersisting \/ gracefulShutdownRequested
  <2>1. /\ UNCHANGED <<up, tpc, bpc, why, child>>
        /\ \/ node' = [node EXCEPT !.persist = TRUE]
           \/ node' = [node EXCEPT !.stop = TRUE]
    BY <1>4 DEF requestPersisting, gracefulShutdownRequested, threads, world
  <2>2. SameTrust /\ node'.waiting = node.waiting /\ node'.persist \in {TRUE, node.persist}
    BY <1>0, <2>1, Zenon DEF Memory, SameTrust
  <2>3. Saving'
    BY <2>1, <2>2, Zenon DEF Saving
  <2>4. Trusted => Trusted'
    BY <2>1, <2>2 DEF Trusted, SameTrust, isTrustingClaimedSolutionScore
  <2> QED BY <2>3, <2>4 DEF TrustKept
<1>5. CASE nodeDies \/ nodeExits \/ UNCHANGED vars
  <2>1. UNCHANGED <<node, tpc, bpc, why, child>> /\ up' \in {up, FALSE}
    BY <1>5, Zenon DEF nodeDies, nodeExits, vars, threads, world
  <2>2. up' => up
    BY <2>1, Zenon
  <2> QED BY <2>1, <2>2, Steady DEF SameSave, SameTrust
<1> QED BY <1>1, <1>2, <1>3, <1>4, <1>5, Zenon DEF Checkpoint, Environment

\* A node starts with a state it computed, and nobody saves.
LEMMA TrustInit == Init => Saving /\ Trusted
<1> SUFFICES ASSUME Init PROVE Saving /\ Trusted
  OBVIOUS
<1>1. PICK m \in BOOLEAN : node =
              [tick |-> 1, main |-> m, mistaken |-> FALSE,
               strict |-> FALSE, until |-> 0, verify |-> FALSE,
               win |-> "Idle", start |-> 0, k |-> 0, forkRequest |-> FALSE, childPid |-> "idle",
               handoff |-> "Idle", thenFork |-> FALSE,
               phase |-> 0, ack |-> [w \in Workers |-> 0],
               active |-> FALSE, written |-> {}, removed |-> {}, poisoned |-> FALSE,
               page |-> NoFiles, persist |-> FALSE, waiting |-> FALSE, stop |-> FALSE]
  BY Zenon DEF Init
<1>2. ~node.mistaken /\ ~node.waiting
  BY <1>1, Zenon
<1>3. tpc = "next" /\ bpc = "loop" /\ why = "none" /\ child = {}
  BY Zenon DEF Init
<1> QED BY <1>2, <1>3 DEF Saving, Trusted

\* Every step keeps the waiting flag exact and the states on trust rewindable.
LEMMA TrustStep == ForkInv /\ Saving /\ QuietResume /\ [Next]_vars => TrustKept
<1> SUFFICES ASSUME ForkInv, Saving, QuietResume, [Next]_vars PROVE TrustKept
  OBVIOUS
<1>1. CASE TickProcessor
  BY <1>1, TrustWaits, TrustBegins, TrustAnswered, TrustExecuted, Zenon DEF TickProcessor
<1>2. CASE MainThread
  BY <1>2, TrustBarrier, TrustSaved, TrustForked, Zenon DEF MainThread
<1>3. CASE (\E w \in Workers : RequestProcessor(w)) \/ Rpc
  BY <1>3, TrustWriters
<1>4. CASE Checkpoint \/ Environment \/ nodeExits \/ rest \/ UNCHANGED vars
  BY <1>4, TrustElsewhere, Zenon DEF rest
<1> QED BY <1>1, <1>2, <1>3, <1>4, Zenon DEF Next

\* The main thread saves, and commits for it, only while the tick processor waits,
\* if no request to persist comes between the end of the wait and the reset of
\* the flag that says so.
THEOREM SavesAlone == Spec /\ []QuietResume => []AutosaveAlone
<1>1. ForkInv /\ Saving /\ QuietResume /\ [Next]_vars => Saving'
  BY TrustStep DEF TrustKept
<1>2. Saving => AutosaveAlone
  BY DEF Saving, AutosaveAlone
<1> QED BY <1>1, <1>2, TrustInit, ForkInvariance, PTL DEF Spec

\* A node whose state is not the quorum's can rewind it or shuts down, if the mode
\* changes between two ticks only and no request to persist comes between the end
\* of the wait and the reset of the flag.
THEOREM MistakesAreRewindable ==
  ASSUME ~RemoteToggle
  PROVE  Spec /\ []QuietResume => []Recoverable
<1>1. ForkInv /\ Saving /\ Trusted /\ QuietResume /\ [Next]_vars => Saving' /\ Trusted'
  BY TrustStep, Zenon DEF TrustKept
<1>2. Trusted => Recoverable
  BY DEF Trusted, Recoverable
<1> QED BY <1>1, <1>2, TrustInit, ForkInvariance, PTL DEF Spec
=============================================================================
