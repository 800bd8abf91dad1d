----------------------------- MODULE StateLock -----------------------------
(***************************************************************************)
(* What the lock of a contract state promises, without the words it is     *)
(* made of: who reads, who writes, which writers have announced themselves *)
(* and which readers were let past that announcement.  ReadWriteLock       *)
(* implements it; ContractExec builds on it.                               *)
(***************************************************************************)
CONSTANT Threads

VARIABLES
  reading,    \* threads that hold the lock for reading
  writing,    \* threads that hold the lock for writing
  announced,  \* writers inside acquireWrite
  admitted    \* readers that found no announced writer and are not in yet

lockVars == <<reading, writing, announced, admitted>>

Init == reading = {} /\ writing = {} /\ announced = {} /\ admitted = {}

\* A reader is admitted only while no writer has announced itself.
Admit(t) ==
  /\ announced = {}
  /\ admitted' = admitted \cup {t}
  /\ UNCHANGED <<reading, writing, announced>>

\* An admitted reader gets in only while nobody writes.
EnterRead(t) ==
  /\ t \in admitted /\ writing = {}
  /\ admitted' = admitted \ {t}
  /\ reading' = reading \cup {t}
  /\ UNCHANGED <<writing, announced>>

\* An admitted reader that finds a writer inside has to be admitted again.
TurnAway(t) ==
  /\ t \in admitted /\ writing # {}
  /\ admitted' = admitted \ {t}
  /\ UNCHANGED <<reading, writing, announced>>

LeaveRead(t) ==
  /\ t \in reading
  /\ reading' = reading \ {t}
  /\ UNCHANGED <<writing, announced, admitted>>

Announce(t) ==
  /\ t \notin announced
  /\ announced' = announced \cup {t}
  /\ UNCHANGED <<reading, writing, admitted>>

\* A writer gets in only when the lock is free, announced or not.
EnterWrite(t) ==
  /\ reading = {} /\ writing = {}
  /\ writing' = {t}
  /\ UNCHANGED <<reading, announced, admitted>>

\* The announcement is withdrawn by the writer that got in.
Withdraw(t) ==
  /\ t \in announced /\ t \in writing
  /\ announced' = announced \ {t}
  /\ UNCHANGED <<reading, writing, admitted>>

LeaveWrite(t) ==
  /\ t \in writing \ announced
  /\ writing' = {}
  /\ UNCHANGED <<reading, announced, admitted>>

Next ==
  \E t \in Threads :
    \/ Admit(t) \/ EnterRead(t) \/ TurnAway(t) \/ LeaveRead(t)
    \/ Announce(t) \/ EnterWrite(t) \/ Withdraw(t) \/ LeaveWrite(t)

Spec == Init /\ [][Next]_lockVars

=============================================================================
