---------------------------- MODULE ContractExec ----------------------------
(***************************************************************************)
(* Execution of smart contracts (contract_core/contract_exec.h, the call   *)
(* macros and the QPI calls that run callbacks): one contract processor    *)
(* runs procedures, which write contract states, while request processors  *)
(* run functions, which read them.  Every state has its reader/writer lock *)
(* (StateLock); every running call owns one of a few locals stacks, on     *)
(* which its contexts, locals and the rollback information of its locks    *)
(* are pushed.                                                             *)
(*                                                                         *)
(* A contract may call only contracts of lower index.  The callbacks of    *)
(* transfers, management rights and shareholder voting break that order,   *)
(* so locks may be taken in any order inside a callback: locks the         *)
(* processor already holds are reused, and a function that has to wait     *)
(* while a callback runs is stopped and rolled back.                       *)
(*                                                                         *)
(* The code of a contract is any sequence of calls; one action is one call *)
(* or one access to a lock.                                                *)
(***************************************************************************)
EXTENDS Integers, Sequences, SequencesExt, FiniteSets

CONSTANTS
  Contracts,      \* indices of the contracts, a set of positive integers
  Requesters,     \* the request processors, which run functions
  Processor,      \* the contract processor
  Stacks,         \* indices of the locals stacks, 0 .. n - 1
  Notified,       \* contracts with a POST_INCOMING_TRANSFER procedure
  Managing,       \* contracts with the management rights procedures
  Voting,         \* contracts with SET_SHAREHOLDER_PROPOSAL / _VOTES
  IpoFailed,      \* contracts whose IPO may have failed
  Holders,        \* sequences of contracts that may be paid dividends
  SharesWhilePaid,\* TRUE: contracts use shares while they are paid dividends
  MaxDepth,       \* bound on nested calls
  MaxCalls        \* bound on the calls made by one entry call, per actor

Actors == Requesters \cup {Processor}
Flags == {"rights", "transfer", "voting"}

VARIABLES
  reading, writing, announced,  \* the locks: sets of actors, per contract
  universeLock,   \* held by the processor across distributeDividends
  callbacks,      \* contractCallbacksRunning
  contractError,  \* contracts in an error state
  owner,          \* contractLocalsStackLock: who owns a stack, or None
  blocks,         \* contractLocalsStack: the blocks on each stack
  stack,          \* the stack an actor owns or tries to get
  frames,         \* the nested calls of an actor
  pc,             \* where an actor is
  calls           \* calls the entry call of an actor may still make

lockVars == <<reading, writing, announced>>
vars == <<reading, writing, announced, universeLock, callbacks, contractError,
          owner, blocks, stack, frames, pc, calls>>

None == "none"
Data == [type |-> "data", contract |-> 0]
Info(c, type) == [type |-> type, contract |-> c]

\* A call in progress: of which contract, as procedure or function, with the
\* flag of the callback it is and the flags to restore after it, under a lock
\* of its own or under that of the caller, and what is left to do of the QPI
\* call it is making.
Frame(c, procedure) ==
  [contract |-> c, procedure |-> procedure, flag |-> "", before |-> {},
   locked |-> TRUE, todo |-> <<>>]

Top(a) == Last(frames[a])
Blocks(a) == blocks[stack[a]]
Push(a, bs) == blocks' = [blocks EXCEPT ![stack[a]] = @ \o bs]
Goto(a, l) == pc' = [pc EXCEPT ![a] = l]
Pop(s, n) == SubSeq(s, 1, Len(s) - n)

Init ==
  /\ reading = [c \in Contracts |-> {}]
  /\ writing = [c \in Contracts |-> {}]
  /\ announced = [c \in Contracts |-> {}]
  /\ universeLock = FALSE
  /\ callbacks = {}
  /\ contractError \in SUBSET IpoFailed
  /\ owner = [i \in Stacks |-> None]
  /\ blocks = [i \in Stacks |-> <<>>]
  /\ stack = [a \in Actors |-> -1]
  /\ frames = [a \in Actors |-> <<>>]
  /\ pc = [a \in Actors |-> "idle"]
  /\ calls = [a \in Actors |-> 0]

----------------------------------------------------------------------------
(* Entry calls and locals stacks *)

\* stacksToIgnore: functions leave stack 0 to the procedures.
FirstStack(a) == IF a = Processor THEN 0 ELSE 1

\* The entry call of actor a into contract c begins.
Begin(a, c, frame) ==
  /\ pc[a] = "idle"
  /\ c \notin contractError
  /\ stack' = [stack EXCEPT ![a] = FirstStack(a)]
  /\ frames' = [frames EXCEPT ![a] = <<frame>>]
  /\ calls' = [calls EXCEPT ![a] = MaxCalls[a]]
  /\ Goto(a, "probe")
  /\ UNCHANGED <<lockVars, universeLock, contractError, owner, blocks>>

\* A request for a function of contract c; it is answered with the error when
\* the contract is in an error state.
userFunctionCall(a, c) ==
  /\ Begin(a, c, Frame(c, FALSE))
  /\ UNCHANGED callbacks

\* contractProcessor runs a system procedure, a user procedure or a
\* notification of contract c; with cb it runs POST_INCOMING_TRANSFER after a
\* transaction, which is a callback from the start.
contractProcessor(c, cb) ==
  /\ cb => c \in Notified
  /\ Begin(Processor, c,
           [Frame(c, TRUE) EXCEPT !.flag = IF cb THEN "transfer" ELSE ""])
  /\ callbacks' = IF cb THEN {"transfer"} ELSE callbacks

\* acquireContractLocalsStack: try the stacks in a ring until one is free.
\* Then push the entry's buffers and go for the lock of its contract; only a
\* function keeps rollback information for it.
probeStack(a) ==
  /\ pc[a] = "probe"
  /\ LET i == stack[a]
         c == Top(a).contract
     IN  IF owner[i] # None
         THEN /\ stack' = [stack EXCEPT ![a] =
                             IF i + 1 \in Stacks THEN i + 1 ELSE FirstStack(a)]
              /\ UNCHANGED <<owner, blocks, announced, pc>>
         ELSE /\ owner' = [owner EXCEPT ![i] = a]
              /\ blocks' = [blocks EXCEPT ![i] =
                   IF a = Processor THEN <<Data>> ELSE <<Data, Info(c, "none")>>]
              /\ IF a = Processor
                 THEN announced' = [announced EXCEPT ![c] = @ \cup {a}]
                 ELSE UNCHANGED announced
              /\ Goto(a, IF a = Processor THEN "write" ELSE "read")
              /\ UNCHANGED stack
  /\ UNCHANGED <<reading, writing, universeLock, callbacks, contractError,
                 frames, calls>>

----------------------------------------------------------------------------
(* Locks *)

\* The lock is granted: fill in the rollback information on top of the stack
\* and, for a nested call, push its locals.
Granted(a, bs, type) ==
  LET info == Append(Pop(bs, 1), Info(Last(bs).contract, type))
  IN  IF Len(frames[a]) = 1
      THEN IF a = Processor THEN bs ELSE info
      ELSE Append(info, Data)

\* tryAcquireRead: the test for announced writers ...
testWriters(a) ==
  /\ pc[a] = "read"
  /\ Goto(a, IF announced[Top(a).contract] = {} THEN "admitted" ELSE "retry")
  /\ UNCHANGED <<lockVars, universeLock, callbacks, contractError, owner, blocks,
                 stack, frames, calls>>

\* ... and the reader gets in unless a writer is inside.
acquireRead(a) ==
  /\ pc[a] = "admitted"
  /\ LET c == Top(a).contract
     IN  IF writing[c] # {}
         THEN Goto(a, "retry") /\ UNCHANGED <<reading, blocks>>
         ELSE /\ reading' = [reading EXCEPT ![c] = @ \cup {a}]
              /\ blocks' = [blocks EXCEPT ![stack[a]] = Granted(a, @, "read")]
              /\ Goto(a, "run")
  /\ UNCHANGED <<writing, announced, universeLock, callbacks, contractError,
                 owner, stack, frames, calls>>

\* A function has to wait while a callback runs.
MustStop(a) == a # Processor /\ callbacks # {}

\* The wait loop of __qpiAcquireStateForReading: a function that must not wait
\* frees its rollback information and jumps to the handler of its entry call.
retry(a) ==
  /\ pc[a] = "retry"
  /\ IF MustStop(a)
     THEN /\ blocks' = [blocks EXCEPT ![stack[a]] = Pop(@, 1)]
          /\ Goto(a, "unwind")
     ELSE Goto(a, "read") /\ UNCHANGED blocks
  /\ UNCHANGED <<lockVars, universeLock, callbacks, contractError, owner, stack,
                 frames, calls>>

\* acquireWrite gets the lock once nobody else holds it ...
acquireWrite ==
  /\ pc[Processor] = "write"
  /\ LET c == Top(Processor).contract
     IN  /\ reading[c] = {} /\ writing[c] = {}
         /\ writing' = [writing EXCEPT ![c] = {Processor}]
  /\ Goto(Processor, "withdraw")
  /\ UNCHANGED <<reading, announced, universeLock, callbacks, contractError, owner,
                 blocks, stack, frames, calls>>

\* Mutation of withdraw: the processor stays announced.
withdraw_Forgotten ==
  /\ pc[Processor] = "withdraw"
  /\ blocks' = [blocks EXCEPT ![stack[Processor]] = Granted(Processor, @, "write")]
  /\ Goto(Processor, "run")
  /\ UNCHANGED <<reading, writing, announced, universeLock, callbacks,
                 contractError, owner, stack, frames, calls>>

\* ... and no longer waits for it.
withdraw ==
  /\ pc[Processor] = "withdraw"
  /\ announced' = [announced EXCEPT ![Top(Processor).contract] = @ \ {Processor}]
  /\ blocks' = [blocks EXCEPT ![stack[Processor]] = Granted(Processor, @, "write")]
  /\ Goto(Processor, "run")
  /\ UNCHANGED <<reading, writing, universeLock, callbacks, contractError, owner,
                 stack, frames, calls>>

----------------------------------------------------------------------------
(* Calls a contract makes *)

\* The code of the top frame runs and may make one more call.
Running(a) == pc[a] = "run" /\ Top(a).todo = <<>>
MayCall(a) == Running(a) /\ calls[a] > 0 /\ Len(frames[a]) < MaxDepth
Spend(a) == calls' = [calls EXCEPT ![a] = @ - 1]

\* Mutation of Reusable: any lock counts as held inside a callback.
Reusable_InCallback(c) == callbacks # {}


\* Inside a callback a state may already be locked for writing, and then by
\* the contract processor itself.
Reusable(c) == callbacks # {} /\ writing[c] # {}

\* CALL_OTHER_CONTRACT_FUNCTION: context, rollback information, read lock.
callFunction(a, c) ==
  /\ MayCall(a)
  /\ c < Top(a).contract /\ c \notin contractError
  /\ Spend(a)
  /\ frames' = [frames EXCEPT ![a] = Append(@, Frame(c, FALSE))]
  /\ IF a = Processor /\ Reusable(c)
     THEN Push(a, <<Data, Info(c, "reuse"), Data>>) /\ UNCHANGED pc
     ELSE Push(a, <<Data, Info(c, "none")>>) /\ Goto(a, "read")
  /\ UNCHANGED <<lockVars, universeLock, callbacks, contractError, owner, stack>>

\* What the QPI calls of a procedure consist of.
Pay(c)           == [op |-> "pay", to |-> c]
Fee(c)           == [op |-> "fee", to |-> c]
Callback(c, f)   == [op |-> "callback", to |-> c, flag |-> f]
Enter(c, f, before) == [op |-> "enter", to |-> c, flag |-> f, before |-> before]
AcquireUniverse  == [op |-> "acquire"]
ReleaseUniverse  == [op |-> "release"]

SetTodo(todo) ==
  frames' = [frames EXCEPT ![Processor][Len(frames[Processor])].todo = todo]

\* The code of a procedure makes a QPI call.
Make(ops) ==
  /\ MayCall(Processor) /\ Top(Processor).procedure
  /\ Spend(Processor)
  /\ SetTodo(ops)
  /\ UNCHANGED <<lockVars, universeLock, callbacks, contractError, owner, blocks,
                 stack, pc>>

transfer(c) == Make(<<Pay(c)>>)

\* INVOKE_OTHER_CONTRACT_PROCEDURE: the context is allocated, the reward paid,
\* which may run a callback, and only then the state locked.
invokeProcedure(c) ==
  /\ MayCall(Processor) /\ Top(Processor).procedure
  /\ c < Top(Processor).contract /\ c \notin contractError
  /\ Spend(Processor)
  /\ SetTodo(<<Pay(c), Enter(c, "", {})>>)
  /\ Push(Processor, <<Data>>)
  /\ UNCHANGED <<lockVars, universeLock, callbacks, contractError, owner, stack, pc>>

\* A contract that takes over or hands over the management of shares asks the
\* other contract, pays its fee, moves the rights and tells it.
RightsTransfer(c) ==
  <<Callback(c, "rights"), Fee(c), AcquireUniverse, ReleaseUniverse,
    Callback(c, "rights")>>

\* The code of the contracts may be assumed not to use shares while dividends
\* are being distributed.
MayUseShares == SharesWhilePaid \/ ~universeLock

acquireShares(c) ==
  /\ Make(RightsTransfer(c))
  /\ "rights" \notin callbacks /\ c # Top(Processor).contract
  /\ MayUseShares

releaseShares(c) ==
  /\ Make(RightsTransfer(c))
  /\ "rights" \notin callbacks /\ c # Top(Processor).contract
  /\ MayUseShares

\* setShareholderProposal and setShareholderVotes
setShareholder(c) ==
  /\ Make(<<Callback(c, "voting")>>)
  /\ "voting" \notin callbacks /\ c # Top(Processor).contract

transferShareOwnershipAndPossession ==
  /\ Make(<<AcquireUniverse, ReleaseUniverse>>)
  /\ MayUseShares

\* The shareholders are paid, and those that are contracts notified, while
\* universeLock is held.
distributeDividends(holders) ==
  /\ "transfer" \notin callbacks
  /\ Make(<<AcquireUniverse>>
          \o [i \in DOMAIN holders |-> Callback(holders[i], "transfer")]
          \o <<ReleaseUniverse>>)

----------------------------------------------------------------------------
(* Steps of a QPI call *)

Step(op) ==
  /\ pc[Processor] = "run"
  /\ Top(Processor).todo # <<>>
  /\ Head(Top(Processor).todo).op \in op

Op == Head(Top(Processor).todo)
Rest == Tail(Top(Processor).todo)

Implements(c, flag) ==
  CASE flag = "rights"   -> c \in Managing
    [] flag = "transfer" -> c \in Notified
    [] flag = "voting"   -> c \in Voting

\* __transfer to a contract is refused inside POST_INCOMING_TRANSFER and to a
\* contract that could not run its callback.
MayPay(c) == "transfer" \notin callbacks /\ c \notin contractError

\* A transfer that is refused, or lacks the funds, costs an invocation its
\* reward; it ends a management rights transfer (as does the refusal or a too
\* high fee of the other contract).
payFails ==
  /\ Step({"pay", "fee"})
  /\ SetTodo(IF Op.op = "pay" THEN Rest ELSE <<>>)
  /\ UNCHANGED <<lockVars, universeLock, callbacks, contractError, owner, blocks,
                 stack, pc, calls>>

\* Otherwise the receiver of a positive amount is notified.
paySucceeds(positive) ==
  /\ Step({"pay", "fee"})
  /\ MayPay(Op.to)
  /\ SetTodo(IF positive THEN <<Callback(Op.to, "transfer")>> \o Rest ELSE Rest)
  /\ UNCHANGED <<lockVars, universeLock, callbacks, contractError, owner, blocks,
                 stack, pc, calls>>

\* The contract lacks the callback: the first one of a management rights
\* transfer then counts as refused.  A contract in an error state is not
\* notified of transfers.
skipCallback ==
  /\ Step({"callback"})
  /\ \/ ~Implements(Op.to, Op.flag)
     \/ Op.flag = "transfer" /\ Op.to \in contractError
  /\ SetTodo(IF Op.flag = "rights" THEN <<>> ELSE Rest)
  /\ UNCHANGED <<lockVars, universeLock, callbacks, contractError, owner, blocks,
                 stack, pc, calls>>

\* __qpiCallSystemProc: set the flag, allocate the context (for shareholder
\* calls with a reward) and go on to the state.
callSystemProc ==
  /\ Step({"callback"})
  /\ Implements(Op.to, Op.flag) /\ Op.to \notin contractError
  /\ callbacks' = callbacks \cup {Op.flag}
  /\ Push(Processor, <<Data>>)
  /\ SetTodo((IF Op.flag = "voting" THEN <<Pay(Op.to)>> ELSE <<>>)
             \o <<Enter(Op.to, Op.flag, callbacks)>> \o Rest)
  /\ UNCHANGED <<lockVars, universeLock, contractError, owner, stack, pc, calls>>

\* __qpiAcquireStateForWriting, unless the contract calls itself back.
enterProcedure ==
  /\ Step({"enter"})
  /\ LET f == [Frame(Op.to, TRUE) EXCEPT !.flag = Op.flag,
                                        !.before = Op.before,
                                        !.locked = Op.to # Top(Processor).contract]
     IN  /\ frames' = [frames EXCEPT ![Processor] =
              Append([@ EXCEPT ![Len(@)].todo = Rest], f)]
         /\ IF f.locked /\ ~Reusable(Op.to)
            THEN /\ Push(Processor, <<Info(Op.to, "none")>>)
                 /\ announced' = [announced EXCEPT ![Op.to] = @ \cup {Processor}]
                 /\ Goto(Processor, "write")
            ELSE /\ Push(Processor, IF f.locked THEN <<Info(Op.to, "reuse"), Data>>
                                              ELSE <<Data>>)
                 /\ UNCHANGED <<announced, pc>>
  /\ UNCHANGED <<reading, writing, universeLock, callbacks, contractError, owner,
                 stack, calls>>

\* universeLock is a plain spin lock.
acquireUniverse ==
  /\ Step({"acquire"})
  /\ ~universeLock
  /\ universeLock' = TRUE
  /\ SetTodo(Rest)
  /\ UNCHANGED <<lockVars, callbacks, contractError, owner, blocks, stack, pc, calls>>

releaseUniverse ==
  /\ Step({"release"})
  /\ universeLock' = FALSE
  /\ SetTodo(Rest)
  /\ UNCHANGED <<lockVars, callbacks, contractError, owner, blocks, stack, pc, calls>>

----------------------------------------------------------------------------
(* Returning and failing *)

\* Outside callbacks every lock was acquired for the call; inside, the
\* rollback information tells an acquired lock from a reused one.
OwnLock(info) == callbacks = {} \/ info.type # "reuse"

\* Mutation of RestoredFlags: the end of a callback clears every flag.
RestoredFlags_None(f) == IF f.flag # "" THEN {} ELSE callbacks

\* contractCallbacksRunning after the call f.
RestoredFlags(f) == IF f.flag # "" THEN f.before ELSE callbacks

\* releaseWrite stores 0, whoever is inside; releaseRead counts one reader down.
Unlock(a, f) ==
  IF f.procedure
  THEN /\ writing' = [writing EXCEPT ![f.contract] = {}]
       /\ reading' = [reading EXCEPT ![f.contract] = {}]
  ELSE reading' = [reading EXCEPT ![f.contract] = @ \ {a}] /\ UNCHANGED writing

\* Mutation of Allocated: the context of another contract's call is forgotten.
Allocated_NoContext(f) == IF f.locked THEN 2 ELSE 1

\* Blocks of a nested call: context, rollback information, locals.
Allocated(f) == IF f.locked THEN 3 ELSE 2

\* A nested call returns: free its locals, release the state, free its context.
return(a) ==
  /\ Running(a) /\ Len(frames[a]) > 1
  /\ LET f  == Top(a)
         bs == Blocks(a)
     IN  /\ IF f.locked /\ OwnLock(bs[Len(bs) - 1])
            THEN Unlock(a, f) ELSE UNCHANGED <<reading, writing>>
         /\ blocks' = [blocks EXCEPT ![stack[a]] = Pop(@, Allocated(f))]
         /\ callbacks' = RestoredFlags(f)
  /\ frames' = [frames EXCEPT ![a] = Front(@)]
  /\ UNCHANGED <<announced, universeLock, contractError, owner, stack, pc, calls>>

\* The actor gives its stack back and is done with the entry call.
Release(a) ==
  /\ owner' = [owner EXCEPT ![stack[a]] = None]
  /\ stack' = [stack EXCEPT ![a] = -1]
  /\ frames' = [frames EXCEPT ![a] = <<>>]
  /\ calls' = [calls EXCEPT ![a] = 0]
  /\ Goto(a, "idle")

\* An entry call returns: release the state, free its buffers and its stack.
endCall(a) ==
  /\ Running(a) /\ Len(frames[a]) = 1
  /\ Unlock(a, Top(a))
  /\ blocks' = [blocks EXCEPT ![stack[a]] = Pop(@, IF a = Processor THEN 1 ELSE 2)]
  /\ callbacks' = RestoredFlags(Top(a))
  /\ Release(a)
  /\ UNCHANGED <<announced, universeLock, contractError>>

\* __qpiAbort in a function: jump to the handler of the entry call.
abortFunction(a) ==
  /\ a # Processor /\ Running(a)
  /\ Goto(a, "unwind")
  /\ UNCHANGED <<lockVars, universeLock, callbacks, contractError, owner, blocks,
                 stack, frames, calls>>

\* __qpiAbort in a procedure, for example for want of memory, or because the
\* callback to run belongs to a contract in an error state: the contract gets
\* into an error state and the processor never comes back.
abortProcedure ==
  /\ \/ Running(Processor)
     \/ /\ Step({"callback"})
        /\ Implements(Op.to, Op.flag)
        /\ Op.flag # "transfer" /\ Op.to \in contractError
  /\ contractError' = contractError \cup {Top(Processor).contract}
  /\ Goto(Processor, "aborted")
  /\ UNCHANGED <<lockVars, universeLock, callbacks, owner, blocks, stack, frames,
                 calls>>

\* Mutation of rollback: the stack is emptied without releasing the locks.
rollback_FreeAll(a) ==
  /\ pc[a] = "unwind"
  /\ blocks' = [blocks EXCEPT ![stack[a]] = <<>>]
  /\ Release(a)
  /\ UNCHANGED <<lockVars, universeLock, callbacks, contractError>>

\* rollbackContractFunctionCall: unwind the stack block by block, release the
\* read locks found on it, then the stack.
rollback(a) ==
  /\ pc[a] = "unwind"
  /\ IF Blocks(a) = <<>>
     THEN Release(a) /\ UNCHANGED <<reading, blocks>>
     ELSE /\ LET b == Last(Blocks(a))
             IN  reading' = IF b.type = "read"
                            THEN [reading EXCEPT ![b.contract] = @ \ {a}]
                            ELSE reading
          /\ blocks' = [blocks EXCEPT ![stack[a]] = Pop(@, 1)]
          /\ UNCHANGED <<owner, stack, frames, calls, pc>>
  /\ UNCHANGED <<writing, announced, universeLock, callbacks, contractError>>

----------------------------------------------------------------------------
\* What an actor does inside a call, without being asked.
Proceed(a) ==
  \/ probeStack(a) \/ testWriters(a) \/ acquireRead(a) \/ retry(a)
  \/ \E c \in Contracts : callFunction(a, c)
  \/ return(a) \/ endCall(a)

QpiCall ==
  \/ \E c \in Contracts :
       \/ transfer(c) \/ invokeProcedure(c) \/ acquireShares(c) \/ releaseShares(c)
       \/ setShareholder(c)
  \/ transferShareOwnershipAndPossession
  \/ \E h \in Holders : distributeDividends(h)

QpiStep ==
  \/ payFails \/ \E b \in BOOLEAN : paySucceeds(b)
  \/ skipCallback \/ callSystemProc \/ enterProcedure
  \/ acquireUniverse \/ releaseUniverse

ProceedProcessor ==
  Proceed(Processor) \/ acquireWrite \/ withdraw \/ QpiCall \/ QpiStep
  \/ abortProcedure

ProceedFunction(a) == Proceed(a) \/ abortFunction(a) \/ rollback(a)

Next ==
  \/ \E c \in Contracts, cb \in BOOLEAN : contractProcessor(c, cb)
  \/ \E a \in Requesters, c \in Contracts : userFunctionCall(a, c)
  \/ ProceedProcessor
  \/ \E a \in Requesters : ProceedFunction(a)

\* Every processor keeps running; the code of a contract ends.
Fairness ==
  /\ WF_vars(ProceedProcessor)
  /\ \A a \in Requesters : WF_vars(ProceedFunction(a))

Spec == Init /\ [][Next]_vars /\ Fairness

----------------------------------------------------------------------------
(* Properties *)

Locations == {"idle", "probe", "read", "admitted", "retry", "write", "withdraw",
              "run", "unwind", "aborted"}

TypeOK ==
  /\ reading \in [Contracts -> SUBSET Actors]
  /\ writing \in [Contracts -> SUBSET {Processor}]
  /\ announced \in [Contracts -> SUBSET {Processor}]
  /\ universeLock \in BOOLEAN
  /\ callbacks \subseteq Flags
  /\ contractError \subseteq Contracts
  /\ owner \in [Stacks -> Actors \cup {None}]
  /\ \A i \in Stacks : \A b \in Range(blocks[i]) :
       b = Data \/ b.contract \in Contracts
  /\ stack \in [Actors -> Stacks \cup {-1}]
  /\ pc \in [Actors -> Locations]
  /\ \A a \in Actors : calls[a] \in 0 .. MaxCalls[a]
  /\ \A a \in Actors : /\ (pc[a] = "idle") <=> (stack[a] = -1)
                       /\ (pc[a] = "idle") <=> (frames[a] = <<>>)

\* The calls of an actor whose code may run: a call that still waits for its
\* lock does not.
Active(a) ==
  IF pc[a] \in {"idle", "probe", "unwind"} THEN {}
  ELSE LET n == IF pc[a] \in {"run", "aborted"} THEN 0 ELSE 1
       IN  Range(Pop(frames[a], n))

\* Whatever the nesting of calls, callbacks and reused locks, the code of a
\* procedure runs only while its contract's state is locked for writing, and
\* the code of a function only while the state is locked for reading or the
\* caller's own write lock covers it; so no state changes under a function of
\* another processor (__qpiAcquireStateForReading / ForWriting, OwnLock).
StatesProtected ==
  \A a \in Actors : \A f \in Active(a) :
    /\ f.procedure => writing[f.contract] = {a} /\ reading[f.contract] \subseteq {a}
    /\ ~f.procedure => a \in reading[f.contract] \/ writing[f.contract] = {a}

\* A lock is held exactly as long as a call in progress needs it: by the
\* rollback information on the stacks and the entry call of the processor.
\* Nothing is leaked when a function is stopped or fails half way.
LocksAccountedFor ==
  \A c \in Contracts :
    /\ reading[c] = {a \in Actors : /\ stack[a] # -1 /\ owner[stack[a]] = a
                                    /\ Info(c, "read") \in Range(Blocks(a))}
    /\ writing[c] # {} <=>
         \/ /\ pc[Processor] \notin {"idle", "probe"}
            /\ \/ Info(c, "write") \in Range(Blocks(Processor))
               \/ /\ frames[Processor][1].contract = c
                  /\ Len(frames[Processor]) > 1 \/ pc[Processor] # "write"
         \/ pc[Processor] = "withdraw" /\ Top(Processor).contract = c

\* Calls in progress, or about to be entered, that run as a callback of a kind.
Callbacks(flag) ==
  {i \in DOMAIN frames[Processor] : frames[Processor][i].flag = flag}
  \cup {-i : i \in {j \in DOMAIN frames[Processor] :
             \E k \in DOMAIN frames[Processor][j].todo :
               LET op == frames[Processor][j].todo[k]
               IN  op.op = "enter" /\ op.flag = flag}}

\* contractCallbacksRunning says which callbacks run, and no callback is ever
\* nested in one of its own kind, however transfers, management rights and
\* voting trigger each other (the guards of __transfer, acquireShares,
\* releaseShares, setShareholderProposal and distributeDividends).
CallbacksExact ==
  \A flag \in Flags :
    Cardinality(Callbacks(flag)) = IF flag \in callbacks THEN 1 ELSE 0

\* A stack nobody owns is empty (the ASSERT of acquireContractLocalsStack), so
\* every allocation of an ended, stopped or failed call was freed; and a
\* procedure never waits for a stack, functions leave one to it.
StacksSound ==
  /\ \A i \in Stacks : owner[i] = None => blocks[i] = <<>>
  /\ pc[Processor] = "probe" => owner[stack[Processor]] = None

Lock(c) == INSTANCE StateLock WITH
  Threads   <- Actors,
  reading   <- reading[c],
  writing   <- writing[c],
  announced <- announced[c],
  admitted  <- {a \in Actors : pc[a] = "admitted" /\ Top(a).contract = c}

\* Contract execution uses every state lock as its protocol allows: nobody
\* releases a lock that they do not hold, announces themselves twice or gets
\* in uninvited, callbacks, reuse and rollback included.
LocksUsedProperly == [][\A c \in Contracts : [Lock(c)!Next]_(Lock(c)!lockVars)]_vars


=============================================================================
