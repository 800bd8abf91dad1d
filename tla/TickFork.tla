------------------------------ MODULE TickFork ------------------------------
(***************************************************************************)
(* Speculative execution of ticks on an AUX node.  An AUX node takes the   *)
(* score a mining solution claims instead of computing it.  Before the     *)
(* first such tick of a window the main thread (BSP) forks a checkpoint    *)
(* process, which sleeps on a pipe with the memory of that moment.  When   *)
(* the quorum disagrees with an executed tick the node exits and the       *)
(* checkpoint becomes the node: it computes every score up to that tick.   *)
(*                                                                         *)
(* While a checkpoint lives, page files are diverted to a shadow directory *)
(* so that the checkpoint finds the files it remembers; the end of a       *)
(* window renames them into place.  Both the fork and the commit need all  *)
(* writers stopped: the request processors park, the RPC threads are       *)
(* locked out, the tick processor waits.                                   *)
(*                                                                         *)
(* `node' is the memory of the process that acts as the node.  A fork      *)
(* copies it, a promotion takes the copy.  Threads do not survive a fork,  *)
(* so their positions are variables of their own.                          *)
(***************************************************************************)
EXTENDS Naturals, FiniteSets

CONSTANTS
    Workers,        \* request processors
    Pages,          \* page files of the tick storage
    LastTick,       \* last tick of the epoch; the first is 1
    Solutions,      \* ticks with a mining solution
    Wrong,          \* those of them whose claimed score is not the computed one
    WindowSizes,    \* gForkWindowKInSync, gForkWindowKCatchup
    MaxFaults,      \* bound on crashes and failing directory operations
    MaxToggles,     \* bound on switches between MAIN and AUX
    RemoteToggle,   \* whether the special command switches too, and not only F12
    MaxSaves,       \* bound on requests to persist the node state
    MayShutDown     \* whether the operator may ask for a shutdown

ASSUME ForkAssumption ==
    /\ LastTick \in Nat \ {0}
    /\ Wrong \subseteq Solutions
    /\ Solutions \subseteq 1 .. LastTick
    /\ WindowSizes \subseteq Nat \ {0}
    /\ MaxFaults \in Nat /\ MaxToggles \in Nat /\ MaxSaves \in Nat
    /\ MayShutDown \in BOOLEAN /\ RemoteToggle \in BOOLEAN
    /\ "rpc" \notin Workers

VARIABLES
    up,        \* the process that acts as the node runs
    node,      \* its memory
    tpc,       \* the tick processor's position
    bpc,       \* the main thread's position
    why,       \* what the main thread retires a checkpoint for
    wpc,       \* the request processors' positions
    job,       \* the page operation a request processor or RPC thread is in
    rpcLock,   \* holder of gRpcDispatchLock
    child,     \* the memory of the checkpoint process, {} when there is none
    pipe,      \* what the node has written to the checkpoint
    progress,  \* *gParentProgressTick, shared by both processes
    real,      \* page files in their directory; the tick of their content, 0 = no file
    spare,     \* page files in the shadow directory
    faults, toggles, saves

threads == <<tpc, bpc, why, wpc, job, rpcLock>>
world == <<child, pipe, progress, real, spare>>
bounds == <<faults, toggles, saves>>
vars == <<up, node, threads, world, bounds>>

Writers == Workers \cup {"rpc"}
NoJob == [kind |-> "none", page |-> 0, dir |-> "real", value |-> 0]
Silence == [tag |-> "none", target |-> 0]
NoFiles == [p \in Pages |-> 0]

Init ==
    /\ up = TRUE
    /\ \E m \in BOOLEAN : node =
              [tick |-> 1, main |-> m, mistaken |-> FALSE,
               strict |-> FALSE, until |-> 0, verify |-> FALSE,
               win |-> "Idle", start |-> 0, k |-> 0, forkRequest |-> FALSE, childPid |-> "idle",
               handoff |-> "Idle", thenFork |-> FALSE,
               phase |-> 0, ack |-> [w \in Workers |-> 0],
               active |-> FALSE, written |-> {}, removed |-> {}, poisoned |-> FALSE,
               page |-> NoFiles, persist |-> FALSE, waiting |-> FALSE, stop |-> FALSE]
    /\ tpc = "next" /\ bpc = "loop" /\ why = "none"
    /\ wpc = [w \in Workers |-> "loop"] /\ job = [w \in Writers |-> NoJob]
    /\ rpcLock = "free"
    /\ child = {} /\ pipe = Silence /\ progress = 0
    /\ real = NoFiles /\ spare = NoFiles
    /\ faults = 0 /\ toggles = 0 /\ saves = 0

Fault == faults < MaxFaults /\ faults' = faults + 1
Fair == UNCHANGED faults

-----------------------------------------------------------------------------
(* The disk shadow. *)

\* Mutant: the window is noted, but the page operation is not diverted.
DirFor_Real == "real"

\* dirForWrite and dirForRemove: where a page operation goes, and what the window remembers of it.
DirFor == IF node.active THEN "shadow" ELSE "real"

Noted(n, kind, p) ==
    IF ~n.active THEN n
    ELSE IF kind = "write" THEN [n EXCEPT !.written = @ \cup {p}, !.removed = @ \ {p}]
    ELSE [n EXCEPT !.written = @ \ {p}, !.removed = @ \cup {p}]

\* dirForRead: what a read of a page finds.
ReadPage(n, p) ==
    IF n.active /\ (p \in n.removed \/ (p \in n.written /\ spare[p] # 0)) THEN spare[p] ELSE real[p]

clearWindow(n) == [n EXCEPT !.active = FALSE, !.written = {}, !.removed = {}]

\* Mutant: the commit only renames.
Committed_RenamesOnly == [p \in Pages |-> IF p \in node.written THEN spare[p] ELSE real[p]]

\* commit: renames the written pages, deletes the removed ones.
Committed == [p \in Pages |-> IF p \in node.written THEN spare[p]
                              ELSE IF p \in node.removed THEN 0 ELSE real[p]]

PutFile(dir, p, v) ==
    IF dir = "shadow" THEN /\ spare' = [spare EXCEPT ![p] = v] /\ UNCHANGED real
                      ELSE /\ real' = [real EXCEPT ![p] = v] /\ UNCHANGED spare

\* The virtual memory works on a page under its lock: one operation per page.
PageFree(p) == \A w \in Writers : job[w].kind = "none" \/ job[w].page # p

-----------------------------------------------------------------------------
(* Threads that write pages: request processors and RPC. *)

StartJob(w, p, kind) ==
    /\ PageFree(p)
    /\ job' = [job EXCEPT ![w] = [kind |-> kind, page |-> p, dir |-> DirFor,
                                  value |-> IF kind = "write" THEN node.tick ELSE 0]]
    /\ node' = Noted(node, kind, p)

EndJob(w) ==
    /\ PutFile(job[w].dir, job[w].page, job[w].value)
    /\ node' = [node EXCEPT !.page[job[w].page] = job[w].value]
    /\ job' = [job EXCEPT ![w] = NoJob]

\* The shadow directory cannot be created: the operation is lost and the window poisoned.
LoseJob(w) ==
    /\ Fault
    /\ job[w].dir = "shadow" /\ spare = NoFiles
    /\ node' = [node EXCEPT !.page[job[w].page] = job[w].value, !.poisoned = TRUE]
    /\ job' = [job EXCEPT ![w] = NoJob]
    /\ UNCHANGED <<real, spare>>

\* requestProcessorParkPoint finds no request to park and the request is handled.
requestProcessor(w) ==
    /\ up /\ wpc[w] = "loop" /\ node.phase % 2 = 0 /\ tpc # "stopped"
    /\ \E p \in Pages, kind \in {"write", "remove"} : StartJob(w, p, kind)
    /\ wpc' = [wpc EXCEPT ![w] = "busy"]
    /\ UNCHANGED <<up, tpc, bpc, why, rpcLock, world, bounds>>

handled(w) ==
    /\ up /\ wpc[w] = "busy"
    /\ (EndJob(w) /\ Fair) \/ LoseJob(w)
    /\ wpc' = [wpc EXCEPT ![w] = "loop"]
    /\ UNCHANGED <<up, tpc, bpc, why, rpcLock, child, pipe, progress, toggles, saves>>

park(w) ==
    /\ up /\ wpc[w] = "loop" /\ node.phase % 2 = 1
    /\ node' = [node EXCEPT !.ack[w] = node.phase]
    /\ wpc' = [wpc EXCEPT ![w] = "parked"]
    /\ UNCHANGED <<up, tpc, bpc, why, job, rpcLock, world, bounds>>

unpark(w) ==
    /\ up /\ wpc[w] = "parked" /\ node.phase # node.ack[w]
    /\ wpc' = [wpc EXCEPT ![w] = "loop"]
    /\ UNCHANGED <<up, node, tpc, bpc, why, job, rpcLock, world, bounds>>

\* A request of the RPC server runs under the shared dispatch lock.
rpcRequest ==
    /\ up /\ rpcLock = "free" /\ tpc # "stopped"
    /\ rpcLock' = "rpc"
    /\ \E p \in Pages, kind \in {"write", "remove"} : StartJob("rpc", p, kind)
    /\ UNCHANGED <<up, tpc, bpc, why, wpc, world, bounds>>

rpcDone ==
    /\ up /\ rpcLock = "rpc"
    /\ (EndJob("rpc") /\ Fair) \/ LoseJob("rpc")
    /\ rpcLock' = "free"
    /\ UNCHANGED <<up, tpc, bpc, why, wpc, child, pipe, progress, toggles, saves>>

-----------------------------------------------------------------------------
(* The tick processor. *)

\* Mutant: a failing fork does not switch to strict scoring.
Strictly_Forgotten(n) == [n EXCEPT !.win = "Idle"]

\* No checkpoint for this tick: its scores are computed.
Strictly(n) == [n EXCEPT !.strict = TRUE, !.until = n.tick, !.win = "Idle"]

\* The promote command and _exit: the checkpoint takes over.
TellPromote == pipe' = [tag |-> "P", target |-> node.tick] /\ up' = FALSE

\* Mutant: the live window is not marked for retirement.
retireCheckpointForShutdown_StaysLive ==
    /\ up /\ tpc \in {"next", "compare"} /\ node.stop
    /\ node.handoff = "Idle"
    /\ tpc' = "shutdown"
    /\ node' = [node EXCEPT !.handoff = "ShutdownRequested"]
    /\ UNCHANGED <<up, bpc, why, wpc, job, rpcLock, world, bounds>>

\* tickProcessor, top of the loop: graceful shutdown.
retireCheckpointForShutdown ==
    /\ up /\ tpc \in {"next", "compare"} /\ node.stop
    /\ node.handoff = "Idle"
    /\ tpc' = "shutdown"
    /\ node' = [node EXCEPT !.win = IF @ = "Live" THEN "Retiring" ELSE @, !.handoff = "ShutdownRequested"]
    /\ UNCHANGED <<up, bpc, why, wpc, job, rpcLock, world, bounds>>

\* requestAndWait returns.  A timeout cancels an unclaimed request, which is made again at once.
shutdownAnswered ==
    /\ up /\ tpc = "shutdown"
    /\ \/ /\ node.handoff = "Succeeded"
          /\ tpc' = "stopped" /\ node' = [node EXCEPT !.handoff = "Idle"]
       \/ /\ node.handoff = "Failed"
          /\ node' = [node EXCEPT !.handoff = "ShutdownRequested"] /\ UNCHANGED tpc
    /\ UNCHANGED <<up, bpc, why, wpc, job, rpcLock, world, bounds>>

\* tickProcessor lets the main thread persist the node state.
waitForPersisting ==
    /\ up /\ tpc = "next" /\ node.persist /\ ~node.stop
    /\ node' = [node EXCEPT !.waiting = TRUE]
    /\ tpc' = "persist"
    /\ UNCHANGED <<up, bpc, why, wpc, job, rpcLock, world, bounds>>

persistingSeen ==
    /\ up /\ tpc = "persist" /\ ~node.persist
    /\ tpc' = "resume"
    /\ UNCHANGED <<up, node, bpc, why, wpc, job, rpcLock, world, bounds>>

persistingDone ==
    /\ up /\ tpc = "resume"
    /\ node' = [node EXCEPT !.waiting = FALSE]
    /\ tpc' = "ready"
    /\ UNCHANGED <<up, bpc, why, wpc, job, rpcLock, world, bounds>>

\* retireCheckpoint: hands the commit to the main thread.
RequestRetire(thenFork) ==
    /\ node.handoff = "Idle"
    /\ node' = [node EXCEPT !.win = "Retiring", !.handoff = "Requested", !.thenFork = thenFork]
    /\ tpc' = "retire"

\* Available memory, read in a live window, may be low.
maybeForkBeforeTick ==
    /\ up
    /\ tpc = "ready" \/ (tpc = "next" /\ ~node.persist /\ ~node.stop)
    /\ LET live == node.win = "Live"
           fork == node.tick \in Solutions
       IN  \/ /\ node.strict \/ node.verify
              /\ tpc' = "process" /\ UNCHANGED <<node, progress>>
           \/ /\ ~node.strict /\ ~node.verify
              /\ node.main \/ node.tick = LastTick
              /\ IF live THEN RequestRetire(FALSE) ELSE tpc' = "process" /\ UNCHANGED node
              /\ UNCHANGED progress
           \/ /\ ~node.strict /\ ~node.verify /\ ~node.main /\ node.tick # LastTick
              /\ \/ /\ node.win = "Idle"
                    /\ tpc' = (IF fork THEN "establish" ELSE "process")
                    /\ UNCHANGED <<node, progress>>
                 \/ /\ live /\ node.tick - node.start < node.k
                    /\ progress' = node.tick
                    /\ tpc' = "process" /\ UNCHANGED node
                 \/ /\ live
                    /\ RequestRetire(fork) /\ UNCHANGED progress
    /\ UNCHANGED <<up, bpc, why, wpc, job, rpcLock, child, pipe, real, spare, bounds>>

\* requestAndWait returns to retireCheckpoint.
retireAnswered ==
    /\ up /\ tpc = "retire"
    /\ \/ /\ node.handoff = "Succeeded"
          /\ node' = [node EXCEPT !.handoff = "Idle"]
          /\ tpc' = IF node.thenFork THEN "establish" ELSE "process"
          /\ UNCHANGED <<up, pipe>>
       \/ /\ node.handoff \in {"Failed", "Requested"}        \* Requested: the timeout
          /\ TellPromote
          /\ UNCHANGED <<node, tpc>>
    /\ UNCHANGED <<bpc, why, wpc, job, rpcLock, child, progress, real, spare, bounds>>

establishCheckpoint ==
    /\ up /\ tpc = "establish"
    /\ progress' = node.tick
    /\ \E k \in WindowSizes :
        \/ /\ node' = [Strictly(node) EXCEPT !.k = k]
           /\ tpc' = "process"                       \* pipe() fails
        \/ /\ node' = [node EXCEPT !.k = k, !.win = "Checkpointing", !.childPid = "idle", !.forkRequest = TRUE]
           /\ tpc' = "claim"
    /\ UNCHANGED <<up, bpc, why, wpc, job, rpcLock, child, pipe, real, spare, bounds>>

\* The wait for gChildPid ends, or the main thread does not claim the request for 30 s.
checkpointAnswered ==
    /\ up /\ tpc = "claim"
    /\ \/ /\ node.childPid = "child"
          /\ node' = [node EXCEPT !.start = node.tick, !.win = "Live"]
          /\ tpc' = "process" /\ UNCHANGED up
       \/ /\ node.childPid = "failed"
          /\ node' = Strictly(node)
          /\ tpc' = "process" /\ UNCHANGED up
       \/ /\ node.childPid = "idle" /\ node.forkRequest
          /\ up' = FALSE /\ UNCHANGED <<node, tpc>>
    /\ UNCHANGED <<bpc, why, wpc, job, rpcLock, world, bounds>>

isTrustingClaimedSolutionScore ==
    ~node.main /\ ~node.strict /\ ~node.verify /\ node.tick # LastTick

Executed(n) ==
    [n EXCEPT !.mistaken = @ \/ (isTrustingClaimedSolutionScore /\ node.tick \in Wrong),
              !.strict = @ /\ node.tick < node.until]

\* processTick, with a page it may evict, and the end of a strict replay.
processTick ==
    /\ up /\ tpc = "process"
    /\ \/ node' = Executed(node) /\ UNCHANGED <<real, spare>>
       \/ \E p \in Pages :
            /\ PageFree(p)
            /\ PutFile(DirFor, p, node.tick)
            /\ node' = [Executed(Noted(node, "write", p)) EXCEPT !.page[p] = node.tick]
    /\ tpc' = "compare"
    /\ UNCHANGED <<up, bpc, why, wpc, job, rpcLock, child, pipe, progress, bounds>>

\* tickProcessor with a quorum of next-tick votes: verdict and the tests behind it.
\* The digests agree: on to the next tick, where F12 takes effect.
tickCompleted ==
    /\ up /\ tpc = "compare" /\ ~node.stop
    /\ ~node.mistaken
    /\ ~(~node.main /\ node.tick # LastTick /\ node.win = "Live" /\ node.poisoned)
    /\ IF node.tick = LastTick
       THEN tpc' = "done" /\ UNCHANGED <<node, toggles>>
       ELSE \E m \in BOOLEAN :
              /\ m # node.main => toggles < MaxToggles
              /\ toggles' = IF m # node.main THEN toggles + 1 ELSE toggles
              /\ node' = [node EXCEPT !.tick = @ + 1, !.main = m]
              /\ tpc' = "next"
    /\ UNCHANGED <<up, bpc, why, wpc, job, rpcLock, world, faults, saves>>

\* The digests differ, or shadow input/output has failed: rewind to the checkpoint.
verdictMismatch ==
    /\ up /\ tpc = "compare" /\ ~node.stop /\ ~node.main /\ node.tick # LastTick
    /\ node.win = "Live"
    /\ node.mistaken \/ node.poisoned
    /\ TellPromote
    /\ UNCHANGED <<node, threads, child, progress, real, spare, bounds>>

\* The digests differ and there is no checkpoint: an endless loop.
noRollbackAvailable ==
    /\ up /\ tpc = "compare" /\ ~node.stop /\ ~node.main /\ node.tick # LastTick
    /\ node.win # "Live" /\ node.mistaken
    /\ tpc' = "halted"
    /\ UNCHANGED <<up, node, bpc, why, wpc, job, rpcLock, world, bounds>>

-----------------------------------------------------------------------------
(* The main thread. *)

\* RequestProcessorBarrier: request and release.
Parking(n) == [n EXCEPT !.phase = @ + 1]
Released(n) == [n EXCEPT !.phase = @ + 1]
\* Mutant: one acknowledgement is enough.
allAcknowledged_One == \E w \in Workers : node.ack[w] = node.phase

allAcknowledged == \A w \in Workers : node.ack[w] = node.phase

\* bspServiceRetireRequest claims the request of the tick processor.
bspServiceRetireRequest ==
    /\ up /\ bpc = "loop"
    /\ node.handoff \in {"Requested", "ShutdownRequested"}
    /\ why' = IF node.handoff = "Requested" THEN "window" ELSE "shutdown"
    /\ node' = [Parking(node) EXCEPT !.handoff = "Running"]
    /\ bpc' = "retirePark"
    /\ UNCHANGED <<up, tpc, wpc, job, rpcLock, world, bounds>>

\* bspForkPoint claims the request.
bspForkPoint ==
    /\ up /\ bpc = "loop" /\ node.forkRequest
    /\ node' = [Parking(node) EXCEPT !.forkRequest = FALSE]
    /\ bpc' = "forkPark"
    /\ UNCHANGED <<up, tpc, why, wpc, job, rpcLock, world, bounds>>

\* The main loop persists the node state; bspRetireCheckpointForAutosave commits first.
bspPersist ==
    /\ up /\ bpc = "loop" /\ node.persist /\ node.waiting
    /\ IF node.win = "Live"
       THEN /\ why' = "autosave" /\ bpc' = "retirePark"
            /\ node' = [Parking(node) EXCEPT !.win = "Retiring"]
       ELSE bpc' = "saving" /\ UNCHANGED <<node, why>>
    /\ UNCHANGED <<up, tpc, wpc, job, rpcLock, world, bounds>>

bspPersisted ==
    /\ up /\ bpc = "saving"
    /\ node' = [node EXCEPT !.persist = FALSE]
    /\ bpc' = "loop"
    /\ UNCHANGED <<up, tpc, why, wpc, job, rpcLock, world, bounds>>

\* acquire: first the request processors, then the lock.
bspParked ==
    /\ up /\ bpc \in {"retirePark", "forkPark"}
    /\ allAcknowledged
    /\ bpc' = IF bpc = "retirePark" THEN "retireLock" ELSE "forkLock"
    /\ UNCHANGED <<up, node, tpc, why, wpc, job, rpcLock, world, bounds>>

bspLocked ==
    /\ up /\ bpc \in {"retireLock", "forkLock"}
    /\ rpcLock = "free" /\ rpcLock' = "bsp"
    /\ bpc' = IF bpc = "retireLock" THEN "retireQuiet" ELSE "forkQuiet"
    /\ UNCHANGED <<up, node, tpc, why, wpc, job, world, bounds>>

Unlocked == IF rpcLock = "bsp" THEN "free" ELSE rpcLock

\* Mutant: the failure path forgets the barrier.
forkSkipped_StaysParked ==
    /\ up /\ bpc \in {"forkPark", "forkLock", "forkQuiet"}
    /\ \/ node' = [node EXCEPT !.childPid = "failed"]
       \/ /\ bpc = "forkQuiet"
          /\ \E poison \in BOOLEAN :
              node' = [clearWindow(node) EXCEPT !.childPid = "failed", !.poisoned = poison]
    /\ rpcLock' = Unlocked
    /\ bpc' = "forkSkipped"
    /\ UNCHANGED <<up, tpc, why, wpc, job, world, bounds>>

\* Mutant: a failure path returns without an answer to the tick processor.
forkSkipped_NoAnswer ==
    /\ up /\ bpc \in {"forkPark", "forkLock", "forkQuiet"}
    /\ \/ node' = Released(node)
       \/ /\ bpc = "forkQuiet"
          /\ \E poison \in BOOLEAN :
              node' = [Released(clearWindow(node)) EXCEPT !.poisoned = poison]
    /\ rpcLock' = Unlocked
    /\ bpc' = "forkSkipped"
    /\ UNCHANGED <<up, tpc, why, wpc, job, world, bounds>>

\* The end of bspForkPoint without a fork: quiescence or input/output not in time, a lock held
\* elsewhere, arm or fork failing.  A failing arm poisons the shadow.
forkSkipped ==
    /\ up /\ bpc \in {"forkPark", "forkLock", "forkQuiet"}
    /\ \/ node' = [Released(node) EXCEPT !.childPid = "failed"]
       \/ /\ bpc = "forkQuiet"
          /\ \E poison \in BOOLEAN :
              node' = [Released(clearWindow(node)) EXCEPT !.childPid = "failed", !.poisoned = poison]
    /\ rpcLock' = Unlocked
    /\ bpc' = "forkSkipped"
    /\ UNCHANGED <<up, tpc, why, wpc, job, world, bounds>>

\* Its last store, which the tick processor does not wait for.
forkSkippedIdle ==
    /\ up /\ bpc = "forkSkipped"
    /\ node' = [node EXCEPT !.win = "Idle"]
    /\ bpc' = "loop"
    /\ UNCHANGED <<up, tpc, why, wpc, job, rpcLock, world, bounds>>

\* arm, fork() and the release of the writers on both sides.
forkCheckpoint ==
    /\ up /\ bpc = "forkQuiet"
    /\ LET armed == [clearWindow(node) EXCEPT !.active = TRUE, !.poisoned = FALSE]
       IN  /\ child' = {Released(armed)}
           /\ node' = [Released(armed) EXCEPT !.childPid = "child"]
    /\ pipe' = Silence
    /\ spare' = NoFiles
    /\ rpcLock' = "free"
    /\ bpc' = "loop"
    /\ UNCHANGED <<up, tpc, why, wpc, job, progress, real, bounds>>

\* bspCommitCheckpoint: drain, then tell the checkpoint to go.
reapCheckpointChild ==
    /\ up /\ bpc = "retireQuiet" /\ (why = "shutdown" => node.win = "Retiring")
    /\ node.childPid = "child"
    /\ pipe' = [tag |-> "R", target |-> 0]
    /\ bpc' = "retireReap"
    /\ UNCHANGED <<up, node, tpc, why, wpc, job, rpcLock, child, progress, real, spare, bounds>>

\* waitpid returns; commit.  A page that was lost cannot be renamed, which ends the process.
commitShadow ==
    /\ up /\ bpc = "retireReap" /\ child = {}
    /\ IF \E p \in node.written : spare[p] = 0
       THEN up' = FALSE /\ UNCHANGED <<node, bpc, real, spare>>
       ELSE /\ real' = Committed
            /\ spare' = [p \in Pages |-> IF p \in node.written \cup node.removed THEN 0 ELSE spare[p]]
            /\ node' = [clearWindow(node) EXCEPT !.childPid = "idle", !.win = "Idle"]
            /\ bpc' = "retired" /\ UNCHANGED up
    /\ UNCHANGED <<tpc, why, wpc, job, rpcLock, child, pipe, progress, bounds>>

\* A shutdown without a checkpoint has nothing to commit.
nothingToCommit ==
    /\ up /\ bpc = "retireQuiet" /\ why = "shutdown" /\ node.win # "Retiring"
    /\ bpc' = "retired"
    /\ UNCHANGED <<up, node, tpc, why, wpc, job, rpcLock, world, bounds>>

\* release and finish; the autosave goes on to save.
bspRetired ==
    /\ up /\ bpc = "retired"
    /\ node' = [Released(node) EXCEPT !.handoff = IF why = "autosave" THEN @ ELSE "Succeeded"]
    /\ rpcLock' = Unlocked
    /\ bpc' = CASE why = "autosave" -> "saving" [] why = "shutdown" -> "left" [] why = "window" -> "loop"
    /\ why' = "none"
    /\ UNCHANGED <<up, tpc, wpc, job, world, bounds>>

\* Writers not quiet in time, or the drain fails.
retireFailed ==
    /\ up
    /\ bpc \in {"retirePark", "retireLock"} \/ (bpc = "retireQuiet" /\ (why = "shutdown" => node.win = "Retiring"))
    /\ rpcLock' = Unlocked
    /\ IF why = "autosave"
       THEN TellPromote /\ UNCHANGED <<node, bpc, why>>
       ELSE /\ node' = [Released(node) EXCEPT !.handoff = "Failed"]
            /\ bpc' = "loop" /\ why' = "none" /\ UNCHANGED <<up, pipe>>
    /\ UNCHANGED <<tpc, wpc, job, child, progress, real, spare, bounds>>

-----------------------------------------------------------------------------
(* The checkpoint process. *)

childRetire ==
    /\ child # {} /\ pipe.tag = "R"
    /\ child' = {}
    /\ UNCHANGED <<up, node, threads, pipe, progress, real, spare, bounds>>

\* crashReplayTargetTick, of the memory of the checkpoint.
crashReplayTargetTick(c) ==
    IF progress >= c.tick /\ progress < c.tick + c.k THEN progress ELSE c.tick + c.k

\* readChildCommandWithCrashTarget sees the end of the pipe, and tickForkChildPromote.
tickForkChildPromote ==
    /\ ~up /\ pipe.tag # "R"
    /\ \E c \in child, clean \in BOOLEAN :
        /\ IF clean THEN spare' = NoFiles /\ Fair ELSE Fault /\ UNCHANGED spare
        /\ node' = [clearWindow(c) EXCEPT
                        !.forkRequest = FALSE, !.childPid = "idle", !.handoff = "Idle", !.win = "Idle",
                        !.poisoned = @ \/ ~clean, !.verify = @ \/ ~clean,
                        !.strict = TRUE,
                        !.until = IF pipe.tag = "P" THEN pipe.target ELSE crashReplayTargetTick(c)]
    /\ up' = TRUE /\ child' = {} /\ pipe' = Silence
    /\ tpc' = "next" /\ bpc' = "loop" /\ why' = "none"
    /\ wpc' = [w \in Workers |-> "loop"] /\ job' = [w \in Writers |-> NoJob]
    /\ rpcLock' = "free"
    /\ UNCHANGED <<progress, real, toggles, saves>>

-----------------------------------------------------------------------------
(* The operator and the operating system. *)

\* SPECIAL_COMMAND_TOGGLE_MAIN_MODE_REQUEST
toggleMainMode ==
    /\ up /\ RemoteToggle /\ toggles < MaxToggles
    /\ ~node.persist /\ ~node.waiting
    /\ node' = [node EXCEPT !.main = ~@]
    /\ toggles' = toggles + 1
    /\ UNCHANGED <<up, threads, world, faults, saves>>

\* SPECIAL_COMMAND_SAVE_SNAPSHOT, F8 and the autosave timer
requestPersisting ==
    /\ up /\ ~node.persist /\ saves < MaxSaves
    /\ node' = [node EXCEPT !.persist = TRUE]
    /\ saves' = saves + 1
    /\ UNCHANGED <<up, threads, world, faults, toggles>>

gracefulShutdownRequested ==
    /\ up /\ MayShutDown /\ ~node.stop
    /\ node' = [node EXCEPT !.stop = TRUE]
    /\ UNCHANGED <<up, threads, world, bounds>>

nodeDies ==
    /\ up /\ Fault
    /\ up' = FALSE
    /\ UNCHANGED <<node, threads, world, toggles, saves>>

childDies ==
    /\ child # {} /\ Fault
    /\ child' = {}
    /\ UNCHANGED <<up, node, threads, pipe, progress, real, spare, toggles, saves>>

\* Both threads have left their loops.
nodeExits ==
    /\ up /\ tpc = "stopped" /\ bpc = "left"
    /\ up' = FALSE
    /\ UNCHANGED <<node, threads, world, bounds>>

Down == ~up /\ child = {}

\* Nothing runs any more; the supervisor starts from a saved state.
rest == Down /\ UNCHANGED vars

TickProcessor ==
    \/ retireCheckpointForShutdown \/ shutdownAnswered
    \/ waitForPersisting \/ persistingSeen \/ persistingDone
    \/ maybeForkBeforeTick \/ retireAnswered \/ establishCheckpoint \/ checkpointAnswered
    \/ processTick \/ tickCompleted \/ verdictMismatch \/ noRollbackAvailable

MainThread ==
    \/ bspServiceRetireRequest \/ bspForkPoint \/ bspPersist \/ bspPersisted
    \/ bspParked \/ bspLocked \/ forkSkipped \/ forkSkippedIdle \/ forkCheckpoint
    \/ reapCheckpointChild \/ commitShadow \/ nothingToCommit \/ bspRetired \/ retireFailed

RequestProcessor(w) == requestProcessor(w) \/ handled(w) \/ park(w) \/ unpark(w)
Rpc == rpcRequest \/ rpcDone
Checkpoint == childRetire \/ tickForkChildPromote
Environment == toggleMainMode \/ requestPersisting \/ gracefulShutdownRequested \/ nodeDies \/ childDies

Next ==
    \/ TickProcessor \/ MainThread \/ (\E w \in Workers : RequestProcessor(w)) \/ Rpc
    \/ Checkpoint \/ Environment \/ nodeExits \/ rest

Spec == Init /\ [][Next]_vars

Fairness ==
    /\ WF_vars(TickProcessor) /\ WF_vars(MainThread) /\ WF_vars(Checkpoint)
    /\ \A w \in Workers : WF_vars(handled(w) \/ park(w) \/ unpark(w))
    /\ WF_vars(rpcDone)

FairSpec == Spec /\ Fairness

-----------------------------------------------------------------------------
(* Properties. *)

Memory ==
    [tick : 1 .. LastTick, main : BOOLEAN, mistaken : BOOLEAN,
     strict : BOOLEAN, until : Nat, verify : BOOLEAN,
     win : {"Idle", "Checkpointing", "Live", "Retiring"}, start : 0 .. LastTick, k : WindowSizes \cup {0},
     forkRequest : BOOLEAN, childPid : {"idle", "child", "failed"},
     handoff : {"Idle", "Requested", "ShutdownRequested", "Running", "Succeeded", "Failed"},
     thenFork : BOOLEAN, phase : Nat, ack : [Workers -> Nat],
     active : BOOLEAN, written : SUBSET Pages, removed : SUBSET Pages, poisoned : BOOLEAN,
     page : [Pages -> 0 .. LastTick], persist : BOOLEAN, waiting : BOOLEAN, stop : BOOLEAN]

\* Type invariant.  A node has one checkpoint process at most, and a page that is written in a window
\* is not also removed in it (dirForWrite and dirForRemove).
TypeOK ==
    /\ up \in BOOLEAN /\ node \in Memory
    /\ child \subseteq Memory /\ Cardinality(child) <= 1
    /\ node.written \cap node.removed = {}
    /\ tpc \in {"next", "persist", "resume", "ready", "retire", "establish", "claim", "process",
                "compare", "shutdown", "stopped", "halted", "done"}
    /\ bpc \in {"loop", "saving", "retirePark", "retireLock", "retireQuiet", "retireReap", "retired",
                "forkPark", "forkLock", "forkQuiet", "forkSkipped", "left"}
    /\ why \in {"none", "window", "shutdown", "autosave"}
    /\ wpc \in [Workers -> {"loop", "busy", "parked"}]
    /\ job \in [Writers -> [kind : {"none", "write", "remove"}, page : Pages \cup {0},
                            dir : {"real", "shadow"}, value : 0 .. LastTick]]
    /\ rpcLock \in {"free", "rpc", "bsp"}
    /\ pipe \in [tag : {"none", "R", "P"}, target : 0 .. LastTick]
    /\ progress \in 0 .. LastTick
    /\ real \in [Pages -> 0 .. LastTick] /\ spare \in [Pages -> 0 .. LastTick]
    /\ faults \in 0 .. MaxFaults /\ toggles \in 0 .. MaxToggles /\ saves \in 0 .. MaxSaves

\* Files as remembered: until it is told to go, a checkpoint finds every page file as it was at the
\* fork.  The shadow diverts every write, and no write that was aimed at the real directory before the
\* fork lands after it.
CheckpointPristine ==
    pipe.tag # "R" => \A c \in child : real = c.page

\* What the node has last written to a page is what it reads back, across the start of a window, its
\* commit and a promotion, unless shadow input/output has failed in this window.
ReadsBack ==
    up /\ ~node.poisoned => \A p \in Pages : PageFree(p) => ReadPage(node, p) = node.page[p]

\* Between the fork's or the commit's quiescence and its end no request processor is at work and no
\* RPC request is; but for the autosave the tick processor waits for the main thread.
WritersStopped ==
    up /\ bpc \in {"forkQuiet", "retireQuiet", "retireReap", "retired"} =>
        /\ \A w \in Workers : wpc[w] = "parked" /\ node.ack[w] = node.phase
        /\ rpcLock = "bsp"
        /\ why # "autosave" => tpc \in {"claim", "retire", "shutdown"}

\* A node whose state is not the quorum's has taken a claimed score on trust, and then it has a live
\* window to rewind: the endless loop behind the verdict is not reached.  This is what the comment on
\* isTrustingClaimedSolutionScore says.  A node that shuts down needs no rewinding: it does not save
\* the ledger.
Recoverable ==
    up /\ node.mistaken => node.win = "Live" \/ tpc \in {"shutdown", "stopped"}

\* A graceful shutdown leaves no checkpoint process, which would take the exit for a crash and go on as
\* the node, and no page in the shadow directory.
ShutdownClean ==
    tpc = "stopped" => child = {} /\ ~node.active

\* The main thread commits for an autosave only while the tick processor waits, as the comment on
\* bspRetireCheckpointForAutosave says.
AutosaveAlone ==
    up /\ (why = "autosave" \/ bpc = "saving") => tpc \in {"persist"}

\* The node gets to the end of the epoch through mismatches, failing forks and crashes, or goes down
\* with its checkpoint: no tick is rewound for ever.  Only a node whose mode was switched may be left
\* with a state that is not the quorum's.
EpochEnds ==
    \/ <>(tpc = "done" \/ Down)
    \/ <>[](toggles > 0 /\ node.mistaken)

\* A request processor that has parked goes on: the barrier is released on every path, in the
\* checkpoint process too.
NobodyStaysParked == \A w \in Workers : wpc[w] = "parked" ~> (wpc[w] # "parked" \/ ~up)
=============================================================================
