-------------------------- MODULE TunDaemonProofs --------------------------
(***************************************************************************)
(* The lock of the TUN daemon protects its files and its data plane, for   *)
(* any number of workers and clients; and the packet plane inside a worker *)
(* keeps its queues and its MTU within bounds, for any number of peers.    *)
(***************************************************************************)
EXTENDS TunDaemon, TunPlane, TLAPS

(* A worker between try_acquire_lock and drop_lock holds the lock. *)
LockHeld == \A w \in Worker : wpc[w] \in Held => lock = w

(* Before it binds or writes its record, and again once it has cleaned up, *)
(* neither file names a worker that still runs.                            *)
Unnamed == {"none", "start", "prep", "prepclean", "bind", "unlock", "exit"}
NamedInTurn ==
    \A w \in Worker :
        /\ wpc[w] \in Unnamed => sock # w
        /\ wpc[w] \in Unnamed \cup {"pid"} => pid # w

(* Until the worker has reported, its parent waits or was interrupted. *)
Unreported == {"start", "prep", "prepclean", "bind", "pid", "ready"}
ParentWaits ==
    \A w \in Worker :
        /\ cpc[w] \in {"idle", "spawn"} => wpc[w] = "none" /\ line[w] = "none"
        /\ wpc[w] \in Unreported => cpc[w] \in {"wait", "gone"} /\ line[w] # "ok"

(* A data plane runs under the lock, save in a worker that could not       *)
(* report and returned with its tasks detached.                            *)
PlaneHeld ==
    \A w \in Worker : Plane(w) =>
        \/ wpc[w] \in {"ready", "join"}
        \/ wpc[w] \in {"clean", "unlock", "exit"} /\ cpc[w] = "gone"

LockInv ==
    /\ TypeOK /\ LockHeld /\ NamedInTurn /\ LockGuardsFiles /\ BindClear
    /\ ParentWaits /\ PlaneHeld

(* Init establishes LockInv. *)
LEMMA LockInvInit == Init => LockInv
BY TunDaemonConstants, NoneIsNoWorker
   DEF Init, LockInv, TypeOK, LockHeld, NamedInTurn, LockGuardsFiles, BindClear,
       ParentWaits, PlaneHeld, Plane, Held, Unnamed, Unreported, UpPoint, ClientPoint, Done

(* Every step keeps the types. *)
LEMMA TypePreserved ==
    ASSUME LockInv, [Next]_vars
    PROVE  TypeOK'
<1> USE TunDaemonConstants, NoneIsNoWorker DEF TypeOK, files, work, cmds, Held, UpPoint, ClientPoint, Done, HandshakeStatus
<1> USE DEF LockInv
<1>1. CASE \E w \in Worker : UpProbes(w)
  BY <1>1 DEF UpProbes, Probe, Step
<1>2. CASE \E w \in Worker : UpSpawns(w)
  BY <1>2 DEF UpSpawns, Unlinked, Step
<1>3. CASE \E w \in Worker : UpReady(w)
  BY <1>3 DEF UpReady, Reads, Step
<1>4. CASE \E w \in Worker : UpKills(w)
  BY <1>4 DEF UpKills, Reads, Dies, Step
<1>5. CASE \E w \in Worker : UpReaps(w)
  BY <1>5 DEF UpReaps, Probe, Step
<1>6. CASE \E w \in Worker : UpReapCleans(w)
  BY <1>6 DEF UpReapCleans, Unlinked, Step
<1>7. CASE \E w \in Worker : UpConfirms(w)
  BY <1>7 DEF UpConfirms, Probe, Step
<1>8. CASE \E w \in Worker : UpReprobes(w)
  BY <1>8 DEF UpReprobes, Unlinked, Step
<1>9. CASE \E w \in Worker : UpGivesUp(w)
  BY <1>9 DEF UpGivesUp, Unlinked, Step
<1>10. CASE \E w \in Worker : UpInterrupted(w)
  BY <1>10 DEF UpInterrupted, Reads, Step
<1>11. CASE \E w \in Worker : TryAcquireLock(w)
  BY <1>11 DEF TryAcquireLock, Goto
<1>12. CASE \E w \in Worker : PrepareBind(w)
  BY <1>12 DEF PrepareBind, Gives, Goto
<1>13. CASE \E w \in Worker : PrepareCleans(w)
  BY <1>13 DEF PrepareCleans, Goto
<1>14. CASE \E w \in Worker : Bind(w)
  BY <1>14 DEF Bind, Gives, Goto
<1>15. CASE \E w \in Worker : WritePid(w)
  BY <1>15 DEF WritePid, Goto
<1>16. CASE \E w \in Worker : WritePidFails(w)
  BY <1>16 DEF WritePidFails, Gives, Goto
<1>17. CASE \E w \in Worker : ReportReady(w)
  BY <1>17 DEF ReportReady, Sends, Receives, Goto
<1>18. CASE \E w \in Worker : ReportError(w)
  BY <1>18 DEF ReportError, Sends, Receives, RequestShutdown, Goto
<1>19. CASE \E w \in Worker : JoinData(w)
  BY <1>19 DEF JoinData, RequestShutdown, Goto
<1>20. CASE \E w \in Worker : JoinCtl(w)
  BY <1>20 DEF JoinCtl, Goto
<1>21. CASE \E w \in Worker : CleanupWorkerFiles(w)
  BY <1>21 DEF CleanupWorkerFiles, Goto
<1>22. CASE \E w \in Worker : DropLock(w)
  BY <1>22 DEF DropLock, Gives, Goto
<1>23. CASE \E w \in Worker : Exit(w)
  BY <1>23 DEF Exit, Sends, Dies
<1>24. CASE \E w \in Worker : Killed(w)
  BY <1>24 DEF Killed, Dies
<1>25. CASE \E w \in Worker : DataReady(w)
  BY <1>25 DEF DataReady, SignalReady
<1>26. CASE \E w \in Worker : DataFails(w)
  BY <1>26 DEF DataFails, SignalReady
<1>27. CASE \E w \in Worker : DataListens(w)
  BY <1>27 DEF DataListens
<1>28. CASE \E w \in Worker : DataLeaves(w)
  BY <1>28 DEF DataLeaves
<1>29. CASE \E w \in Worker : DataStops(w)
  BY <1>29 DEF DataStops
<1>30. CASE \E w \in Worker : CtlDrains(w)
  BY <1>30 DEF CtlDrains
<1>31. CASE \E c \in Client : ClientProbes(c)
  BY <1>31 DEF ClientProbes, Probe, Step
<1>32. CASE \E c \in Client : ClientCleans(c)
  BY <1>32 DEF ClientCleans, Unlinked, Step
<1>33. CASE \E c \in Client : DownSends(c)
  BY <1>33 DEF DownSends, Shutdown, RequestShutdown, Step, HandshakeStatus
<1>34. CASE \E c \in Client : DownPolls(c)
  BY <1>34 DEF DownPolls, Probe, Step
<1>35. CASE \E c \in Client : DownGivesUp(c)
  BY <1>35 DEF DownGivesUp, Step
<1>36. CASE \E c \in Client : DownCleans(c)
  BY <1>36 DEF DownCleans, Step
<1>37. CASE UNCHANGED vars
  BY <1>37 DEF vars
<1>. QED
  BY <1>1, <1>2, <1>3, <1>4, <1>5, <1>6, <1>7, <1>8, <1>9, <1>10, <1>11, <1>12, <1>13, <1>14,
     <1>15, <1>16, <1>17, <1>18, <1>19, <1>20, <1>21, <1>22, <1>23, <1>24, <1>25, <1>26, <1>27,
     <1>28, <1>29, <1>30, <1>31, <1>32, <1>33, <1>34, <1>35, <1>36, <1>37
     DEF Next, UpSteps, WorkerSteps, DataSteps

(* Every step keeps the lock with the worker between acquiring and dropping it. *)
LEMMA LockPreserved ==
    ASSUME LockInv, [Next]_vars
    PROVE  LockHeld' /\ NamedInTurn'
<1> USE TunDaemonConstants, NoneIsNoWorker DEF TypeOK, files, work, cmds, Held, Unnamed, LockHeld, NamedInTurn, ParentWaits
<1> USE DEF LockInv
<1>1. CASE \E w \in Worker : UpProbes(w)
  BY <1>1 DEF UpProbes, Probe, Step
<1>2. CASE \E w \in Worker : UpSpawns(w)
  BY <1>2 DEF UpSpawns, Unlinked, Step
<1>3. CASE \E w \in Worker : UpReady(w)
  BY <1>3 DEF UpReady, Reads, Step
<1>4. CASE \E w \in Worker : UpKills(w)
  BY <1>4 DEF UpKills, Reads, Dies, Step
<1>5. CASE \E w \in Worker : UpReaps(w)
  BY <1>5 DEF UpReaps, Probe, Step
<1>6. CASE \E w \in Worker : UpReapCleans(w)
  BY <1>6 DEF UpReapCleans, Unlinked, Step
<1>7. CASE \E w \in Worker : UpConfirms(w)
  BY <1>7 DEF UpConfirms, Probe, Step
<1>8. CASE \E w \in Worker : UpReprobes(w)
  BY <1>8 DEF UpReprobes, Unlinked, Step
<1>9. CASE \E w \in Worker : UpGivesUp(w)
  BY <1>9 DEF UpGivesUp, Unlinked, Step
<1>10. CASE \E w \in Worker : UpInterrupted(w)
  BY <1>10 DEF UpInterrupted, Reads, Step
<1>11. CASE \E w \in Worker : TryAcquireLock(w)
  BY <1>11 DEF TryAcquireLock, Goto
<1>12. CASE \E w \in Worker : PrepareBind(w)
  BY <1>12 DEF PrepareBind, Gives, Goto
<1>13. CASE \E w \in Worker : PrepareCleans(w)
  BY <1>13 DEF PrepareCleans, Goto
<1>14. CASE \E w \in Worker : Bind(w)
  BY <1>14 DEF Bind, Gives, Goto
<1>15. CASE \E w \in Worker : WritePid(w)
  BY <1>15 DEF WritePid, Goto
<1>16. CASE \E w \in Worker : WritePidFails(w)
  BY <1>16 DEF WritePidFails, Gives, Goto
<1>17. CASE \E w \in Worker : ReportReady(w)
  BY <1>17 DEF ReportReady, Sends, Receives, Goto
<1>18. CASE \E w \in Worker : ReportError(w)
  BY <1>18 DEF ReportError, Sends, Receives, RequestShutdown, Goto
<1>19. CASE \E w \in Worker : JoinData(w)
  BY <1>19 DEF JoinData, RequestShutdown, Goto
<1>20. CASE \E w \in Worker : JoinCtl(w)
  BY <1>20 DEF JoinCtl, Goto
<1>21. CASE \E w \in Worker : CleanupWorkerFiles(w)
  BY <1>21 DEF CleanupWorkerFiles, Goto
<1>22. CASE \E w \in Worker : DropLock(w)
  BY <1>22 DEF DropLock, Gives, Goto
<1>23. CASE \E w \in Worker : Exit(w)
  BY <1>23 DEF Exit, Sends, Dies
<1>24. CASE \E w \in Worker : Killed(w)
  BY <1>24 DEF Killed, Dies
<1>25. CASE \E w \in Worker : DataReady(w)
  BY <1>25 DEF DataReady, SignalReady
<1>26. CASE \E w \in Worker : DataFails(w)
  BY <1>26 DEF DataFails, SignalReady
<1>27. CASE \E w \in Worker : DataListens(w)
  BY <1>27 DEF DataListens
<1>28. CASE \E w \in Worker : DataLeaves(w)
  BY <1>28 DEF DataLeaves
<1>29. CASE \E w \in Worker : DataStops(w)
  BY <1>29 DEF DataStops
<1>30. CASE \E w \in Worker : CtlDrains(w)
  BY <1>30 DEF CtlDrains
<1>31. CASE \E c \in Client : ClientProbes(c)
  BY <1>31 DEF ClientProbes, Probe, Step
<1>32. CASE \E c \in Client : ClientCleans(c)
  BY <1>32 DEF ClientCleans, Unlinked, Step
<1>33. CASE \E c \in Client : DownSends(c)
  BY <1>33 DEF DownSends, Shutdown, RequestShutdown, Step, HandshakeStatus
<1>34. CASE \E c \in Client : DownPolls(c)
  BY <1>34 DEF DownPolls, Probe, Step
<1>35. CASE \E c \in Client : DownGivesUp(c)
  BY <1>35 DEF DownGivesUp, Step
<1>36. CASE \E c \in Client : DownCleans(c)
  BY <1>36 DEF DownCleans, Step
<1>37. CASE UNCHANGED vars
  BY <1>37 DEF vars
<1>. QED
  BY <1>1, <1>2, <1>3, <1>4, <1>5, <1>6, <1>7, <1>8, <1>9, <1>10, <1>11, <1>12, <1>13, <1>14,
     <1>15, <1>16, <1>17, <1>18, <1>19, <1>20, <1>21, <1>22, <1>23, <1>24, <1>25, <1>26, <1>27,
     <1>28, <1>29, <1>30, <1>31, <1>32, <1>33, <1>34, <1>35, <1>36, <1>37
     DEF Next, UpSteps, WorkerSteps, DataSteps

(* Every step keeps the files with the lock. *)
LEMMA FilesPreserved ==
    ASSUME LockInv, [Next]_vars
    PROVE  LockGuardsFiles' /\ BindClear'
<1> USE TunDaemonConstants, NoneIsNoWorker DEF TypeOK, files, work, cmds, Held, Unnamed, LockHeld, NamedInTurn, LockGuardsFiles, BindClear, HandshakeStatus, Silent, ParentWaits
<1> USE DEF LockInv
<1>1. CASE \E w \in Worker : UpProbes(w)
  BY <1>1 DEF UpProbes, Probe, Step
<1>2. CASE \E w \in Worker : UpSpawns(w)
  BY <1>2 DEF UpSpawns, Unlinked, Step
<1>3. CASE \E w \in Worker : UpReady(w)
  BY <1>3 DEF UpReady, Reads, Step
<1>4. CASE \E w \in Worker : UpKills(w)
  BY <1>4 DEF UpKills, Reads, Dies, Step
<1>5. CASE \E w \in Worker : UpReaps(w)
  BY <1>5 DEF UpReaps, Probe, Step
<1>6. CASE \E w \in Worker : UpReapCleans(w)
  BY <1>6 DEF UpReapCleans, Unlinked, Step
<1>7. CASE \E w \in Worker : UpConfirms(w)
  BY <1>7 DEF UpConfirms, Probe, Step
<1>8. CASE \E w \in Worker : UpReprobes(w)
  BY <1>8 DEF UpReprobes, Unlinked, Step
<1>9. CASE \E w \in Worker : UpGivesUp(w)
  BY <1>9 DEF UpGivesUp, Unlinked, Step
<1>10. CASE \E w \in Worker : UpInterrupted(w)
  BY <1>10 DEF UpInterrupted, Reads, Step
<1>11. CASE \E w \in Worker : TryAcquireLock(w)
  BY <1>11 DEF TryAcquireLock, Goto
<1>12. CASE \E w \in Worker : PrepareBind(w)
  BY <1>12 DEF PrepareBind, Gives, Goto
<1>13. CASE \E w \in Worker : PrepareCleans(w)
  BY <1>13 DEF PrepareCleans, Goto
<1>14. CASE \E w \in Worker : Bind(w)
  BY <1>14 DEF Bind, Gives, Goto
<1>15. CASE \E w \in Worker : WritePid(w)
  BY <1>15 DEF WritePid, Goto
<1>16. CASE \E w \in Worker : WritePidFails(w)
  BY <1>16 DEF WritePidFails, Gives, Goto
<1>17. CASE \E w \in Worker : ReportReady(w)
  BY <1>17 DEF ReportReady, Sends, Receives, Goto
<1>18. CASE \E w \in Worker : ReportError(w)
  BY <1>18 DEF ReportError, Sends, Receives, RequestShutdown, Goto
<1>19. CASE \E w \in Worker : JoinData(w)
  BY <1>19 DEF JoinData, RequestShutdown, Goto
<1>20. CASE \E w \in Worker : JoinCtl(w)
  BY <1>20 DEF JoinCtl, Goto
<1>21. CASE \E w \in Worker : CleanupWorkerFiles(w)
  BY <1>21 DEF CleanupWorkerFiles, Goto
<1>22. CASE \E w \in Worker : DropLock(w)
  BY <1>22 DEF DropLock, Gives, Goto
<1>23. CASE \E w \in Worker : Exit(w)
  BY <1>23 DEF Exit, Sends, Dies
<1>24. CASE \E w \in Worker : Killed(w)
  BY <1>24 DEF Killed, Dies
<1>25. CASE \E w \in Worker : DataReady(w)
  BY <1>25 DEF DataReady, SignalReady
<1>26. CASE \E w \in Worker : DataFails(w)
  BY <1>26 DEF DataFails, SignalReady
<1>27. CASE \E w \in Worker : DataListens(w)
  BY <1>27 DEF DataListens
<1>28. CASE \E w \in Worker : DataLeaves(w)
  BY <1>28 DEF DataLeaves
<1>29. CASE \E w \in Worker : DataStops(w)
  BY <1>29 DEF DataStops
<1>30. CASE \E w \in Worker : CtlDrains(w)
  BY <1>30 DEF CtlDrains
<1>31. CASE \E c \in Client : ClientProbes(c)
  BY <1>31 DEF ClientProbes, Probe, Step
<1>32. CASE \E c \in Client : ClientCleans(c)
  BY <1>32 DEF ClientCleans, Unlinked, Step
<1>33. CASE \E c \in Client : DownSends(c)
  BY <1>33 DEF DownSends, Shutdown, RequestShutdown, Step, HandshakeStatus
<1>34. CASE \E c \in Client : DownPolls(c)
  BY <1>34 DEF DownPolls, Probe, Step
<1>35. CASE \E c \in Client : DownGivesUp(c)
  BY <1>35 DEF DownGivesUp, Step
<1>36. CASE \E c \in Client : DownCleans(c)
  BY <1>36 DEF DownCleans, Step
<1>37. CASE UNCHANGED vars
  BY <1>37 DEF vars
<1>. QED
  BY <1>1, <1>2, <1>3, <1>4, <1>5, <1>6, <1>7, <1>8, <1>9, <1>10, <1>11, <1>12, <1>13, <1>14,
     <1>15, <1>16, <1>17, <1>18, <1>19, <1>20, <1>21, <1>22, <1>23, <1>24, <1>25, <1>26, <1>27,
     <1>28, <1>29, <1>30, <1>31, <1>32, <1>33, <1>34, <1>35, <1>36, <1>37
     DEF Next, UpSteps, WorkerSteps, DataSteps

(* Every step keeps the data plane under the lock. *)
LEMMA PlanePreserved ==
    ASSUME LockInv, [Next]_vars
    PROVE  ParentWaits' /\ PlaneHeld'
<1> USE TunDaemonConstants, NoneIsNoWorker DEF TypeOK, files, work, cmds, ParentWaits, PlaneHeld, Plane, Unreported, Done
<1> USE DEF LockInv
<1>1. CASE \E w \in Worker : UpProbes(w)
  BY <1>1 DEF UpProbes, Probe, Step
<1>2. CASE \E w \in Worker : UpSpawns(w)
  BY <1>2 DEF UpSpawns, Unlinked, Step
<1>3. CASE \E w \in Worker : UpReady(w)
  BY <1>3 DEF UpReady, Reads, Step
<1>4. CASE \E w \in Worker : UpKills(w)
  BY <1>4 DEF UpKills, Reads, Dies, Step
<1>5. CASE \E w \in Worker : UpReaps(w)
  BY <1>5 DEF UpReaps, Probe, Step
<1>6. CASE \E w \in Worker : UpReapCleans(w)
  BY <1>6 DEF UpReapCleans, Unlinked, Step
<1>7. CASE \E w \in Worker : UpConfirms(w)
  BY <1>7 DEF UpConfirms, Probe, Step
<1>8. CASE \E w \in Worker : UpReprobes(w)
  BY <1>8 DEF UpReprobes, Unlinked, Step
<1>9. CASE \E w \in Worker : UpGivesUp(w)
  BY <1>9 DEF UpGivesUp, Unlinked, Step
<1>10. CASE \E w \in Worker : UpInterrupted(w)
  BY <1>10 DEF UpInterrupted, Reads, Step
<1>11. CASE \E w \in Worker : TryAcquireLock(w)
  BY <1>11 DEF TryAcquireLock, Goto
<1>12. CASE \E w \in Worker : PrepareBind(w)
  BY <1>12 DEF PrepareBind, Gives, Goto
<1>13. CASE \E w \in Worker : PrepareCleans(w)
  BY <1>13 DEF PrepareCleans, Goto
<1>14. CASE \E w \in Worker : Bind(w)
  BY <1>14 DEF Bind, Gives, Goto
<1>15. CASE \E w \in Worker : WritePid(w)
  BY <1>15 DEF WritePid, Goto
<1>16. CASE \E w \in Worker : WritePidFails(w)
  BY <1>16 DEF WritePidFails, Gives, Goto
<1>17. CASE \E w \in Worker : ReportReady(w)
  BY <1>17 DEF ReportReady, Sends, Receives, Goto
<1>18. CASE \E w \in Worker : ReportError(w)
  BY <1>18 DEF ReportError, Sends, Receives, RequestShutdown, Goto
<1>19. CASE \E w \in Worker : JoinData(w)
  BY <1>19 DEF JoinData, RequestShutdown, Goto
<1>20. CASE \E w \in Worker : JoinCtl(w)
  BY <1>20 DEF JoinCtl, Goto
<1>21. CASE \E w \in Worker : CleanupWorkerFiles(w)
  BY <1>21 DEF CleanupWorkerFiles, Goto
<1>22. CASE \E w \in Worker : DropLock(w)
  BY <1>22 DEF DropLock, Gives, Goto
<1>23. CASE \E w \in Worker : Exit(w)
  BY <1>23 DEF Exit, Sends, Dies
<1>24. CASE \E w \in Worker : Killed(w)
  BY <1>24 DEF Killed, Dies
<1>25. CASE \E w \in Worker : DataReady(w)
  BY <1>25 DEF DataReady, SignalReady
<1>26. CASE \E w \in Worker : DataFails(w)
  BY <1>26 DEF DataFails, SignalReady
<1>27. CASE \E w \in Worker : DataListens(w)
  BY <1>27 DEF DataListens
<1>28. CASE \E w \in Worker : DataLeaves(w)
  BY <1>28 DEF DataLeaves
<1>29. CASE \E w \in Worker : DataStops(w)
  BY <1>29 DEF DataStops
<1>30. CASE \E w \in Worker : CtlDrains(w)
  BY <1>30 DEF CtlDrains
<1>31. CASE \E c \in Client : ClientProbes(c)
  BY <1>31 DEF ClientProbes, Probe, Step
<1>32. CASE \E c \in Client : ClientCleans(c)
  BY <1>32 DEF ClientCleans, Unlinked, Step
<1>33. CASE \E c \in Client : DownSends(c)
  BY <1>33 DEF DownSends, Shutdown, RequestShutdown, Step, HandshakeStatus
<1>34. CASE \E c \in Client : DownPolls(c)
  BY <1>34 DEF DownPolls, Probe, Step
<1>35. CASE \E c \in Client : DownGivesUp(c)
  BY <1>35 DEF DownGivesUp, Step
<1>36. CASE \E c \in Client : DownCleans(c)
  BY <1>36 DEF DownCleans, Step
<1>37. CASE UNCHANGED vars
  BY <1>37 DEF vars
<1>. QED
  BY <1>1, <1>2, <1>3, <1>4, <1>5, <1>6, <1>7, <1>8, <1>9, <1>10, <1>11, <1>12, <1>13, <1>14,
     <1>15, <1>16, <1>17, <1>18, <1>19, <1>20, <1>21, <1>22, <1>23, <1>24, <1>25, <1>26, <1>27,
     <1>28, <1>29, <1>30, <1>31, <1>32, <1>33, <1>34, <1>35, <1>36, <1>37
     DEF Next, UpSteps, WorkerSteps, DataSteps

(* LockInv holds throughout. *)
LEMMA LockInvAlways == Spec => []LockInv
<1>1. LockInv /\ [Next]_vars => LockInv'
  BY TypePreserved, LockPreserved, FilesPreserved, PlanePreserved DEF LockInv
<1>. QED
  BY LockInvInit, <1>1, PTL DEF Spec

-----------------------------------------------------------------------------

(* The variables keep their types. *)
THEOREM DaemonTypes == Spec => []TypeOK
<1>1. LockInv => TypeOK
  BY DEF LockInv
<1>. QED
  BY <1>1, LockInvAlways, PTL

(* cleanup_worker_files before drop_lock: tun.sock and tun.pid always name *)
(* the holder of tun.lock or a process that is gone.                       *)
THEOREM FilesAreGuarded == Spec => []LockGuardsFiles
<1>1. LockInv => LockGuardsFiles
  BY DEF LockInv
<1>. QED
  BY <1>1, LockInvAlways, PTL

(* prepare_bind under the lock: bind_listener never finds the path taken,  *)
(* whatever files dead workers left and whoever probes meanwhile.          *)
THEOREM BindIsClear == Spec => []BindClear
<1>1. LockInv => BindClear
  BY DEF LockInv
<1>. QED
  BY <1>1, LockInvAlways, PTL

(* However many `tun up` race, two data planes never run at once, save the *)
(* one a worker abandoned by its parent takes down as it exits.            *)
THEOREM PlanesExclude == Spec => []OnePlane
<1>1. LockInv => OnePlane
  BY DEF LockInv, LockHeld, PlaneHeld, OnePlane, Detached, Held
<1>. QED
  BY <1>1, LockInvAlways, PTL

-----------------------------------------------------------------------------
(* The packet plane that a worker runs.                                     *)
(* The recorded MTU keeps to --mtu, the device to it or to the platform's    *)
(* floor, and nothing has been cut off unless the floor is above the buffer. *)
MtuInv ==
    /\ cell <= UserMtu /\ device <= Greater(UserMtu, Floor)
    /\ Floor <= UserMtu + Headroom => ~cut

PlaneInv == PlaneTypeOK /\ MtuInv

(* PlaneTypeOK by parts. *)
MtuTyped == cell \in Nat /\ device \in Nat /\ hold \in 0..Holdoff
DeviceTyped ==
    /\ tunUp \in BOOLEAN /\ toTun \in Seq(Answer \union Other) /\ Len(toTun) <= Queue
ReadTyped ==
    /\ held \in Seq(Packet) /\ Len(held) <= 1
    /\ fromTun \in Seq(Packet) /\ Len(fromTun) <= Queue
OutTyped == outQ \in [Peer -> Seq(Packet)] /\ \A p \in Peer : Len(outQ[p]) <= Queue
PeerTyped ==
    /\ live \subseteq Peer /\ ceiling \in [Peer -> Ceiling]
    /\ sender \in [Peer -> SenderState] /\ icmps \in [Peer -> 0..IcmpRate]
    /\ reader \in [Peer -> {"select", "deliver"}] /\ pmtu \in [Peer -> Nat] /\ cut \in BOOLEAN
TimeTyped == slept \in [Peer -> 0..Recheck] /\ age \in [Peer -> 0..MaxAge] /\ budget \in 0..Budget

(* PlaneTypeOK is the conjunction of its parts, now and after a step.       *)
LEMMA TypeParts ==
  /\ PlaneTypeOK <=> MtuTyped /\ DeviceTyped /\ ReadTyped /\ OutTyped /\ PeerTyped /\ TimeTyped
  /\ PlaneTypeOK' <=> (MtuTyped /\ DeviceTyped /\ ReadTyped /\ OutTyped /\ PeerTyped /\ TimeTyped)'
  BY DEF PlaneTypeOK, MtuTyped, DeviceTyped, ReadTyped, OutTyped, PeerTyped, TimeTyped

(* The assumption on the constants, one constant at a time.                 *)
LEMMA PlaneNumbers ==
  /\ UserMtu \in Nat \ {0} /\ Queue \in Nat \ {0} /\ IcmpRate \in Nat \ {0} /\ Recheck \in Nat \ {0}
  /\ Holdoff \in Nat \ {0} /\ Floor \in Nat /\ MaxAge \in Nat /\ Budget \in Nat
  /\ Flow \subseteq Peer /\ Ceiling \subseteq Nat \ {0} /\ "other" \notin Peer
  BY PlaneAssumption

(* What set_tun_mtu leaves behind when it is asked for at most --mtu. *)
LEMMA MtuSet ==
  ASSUME MtuTyped, TimeTyped, MtuInv, NEW m \in Nat, NEW ok \in BOOLEAN, m <= UserMtu, SetMtu(m, ok)
  PROVE  /\ cell' \in Nat /\ device' \in Nat /\ budget' \in 0..Budget
         /\ cell' <= UserMtu /\ device' <= Greater(UserMtu, Floor)
  <1>1. /\ cell' = m /\ device' = (IF ok THEN Greater(m, Floor) ELSE device)
        /\ ok \/ budget > 0
        /\ budget' = IF ok THEN budget ELSE budget - 1
    BY DEF SetMtu
  <1>2. Floor \in Nat /\ UserMtu \in Nat /\ Budget \in Nat /\ budget \in 0..Budget /\ device \in Nat
        /\ device <= Greater(UserMtu, Floor)
    BY PlaneNumbers DEF MtuTyped, TimeTyped, MtuInv
  <1>3. /\ Greater(m, Floor) \in Nat /\ Greater(m, Floor) <= Greater(UserMtu, Floor)
    BY <1>2 DEF Greater
  <1> QED BY <1>1, <1>2, <1>3

(* Init establishes the invariant.                                          *)
LEMMA InitPlaneInv == PlaneInit => PlaneInv
  <1> SUFFICES ASSUME PlaneInit PROVE PlaneInv
    OBVIOUS
  <1> USE PlaneNumbers
  <1>1. MtuInv
    BY DEF MtuInv, PlaneInit, Greater
  <1>2. PlaneTypeOK
    <2>1. /\ <<>> \in Seq(Packet) /\ <<>> \in Seq(Answer \union Other) /\ Len(<<>>) = 0
      OBVIOUS
    <2>2. /\ 0 \in 0..Holdoff /\ 0 \in 0..IcmpRate /\ 0 \in 0..Recheck /\ 0 \in 0..MaxAge
          /\ Budget \in 0..Budget /\ 0 <= Queue /\ 0 <= 1 /\ Unlearned \in Nat
      BY DEF Unlearned
    <2>3. device \in Nat
      BY DEF PlaneInit, Greater
    <2> QED BY <2>1, <2>2, <2>3 DEF PlaneTypeOK, PlaneInit, SenderState
  <1> QED BY <1>1, <1>2 DEF PlaneInv

(* The same for the steps that may leave the MTU alone. *)
LEMMA MtuMoves ==
  ASSUME MtuTyped, TimeTyped, MtuInv, NEW m \in Nat, m <= UserMtu,
         (\E ok \in BOOLEAN : SetMtu(m, ok)) \/ KeepMtu, hold' = hold, cut' = cut
  PROVE  MtuTyped' /\ MtuInv' /\ budget' \in 0..Budget
  <1>1. /\ cell' \in Nat /\ device' \in Nat /\ budget' \in 0..Budget
        /\ cell' <= UserMtu /\ device' <= Greater(UserMtu, Floor)
    <2>1. CASE KeepMtu
      BY <2>1 DEF KeepMtu, MtuTyped, TimeTyped, MtuInv
    <2>2. CASE \E ok \in BOOLEAN : SetMtu(m, ok)
      BY <2>2, MtuSet
    <2> QED BY <2>1, <2>2
  <1> QED BY <1>1 DEF MtuTyped, MtuInv

(* Appending to a queue below its limit keeps it within the limit.          *)
LEMMA Queued ==
  ASSUME NEW S, NEW s \in Seq(S), NEW x \in S, NEW n \in Nat, Len(s) < n
  PROVE  Append(s, x) \in Seq(S) /\ Len(Append(s, x)) <= n
  <1>1. Append(s, x) \in Seq(S) /\ Len(Append(s, x)) = Len(s) + 1 /\ Len(s) \in Nat
    OBVIOUS
  <1> QED BY <1>1

(* Taking the head of a queue keeps it within its limit.                    *)
LEMMA Unqueued ==
  ASSUME NEW S, NEW s \in Seq(S), s # <<>>, NEW n \in Nat, Len(s) <= n
  PROVE  Head(s) \in S /\ Tail(s) \in Seq(S) /\ Len(Tail(s)) <= n
  <1>1. Head(s) \in S /\ Tail(s) \in Seq(S) /\ Len(Tail(s)) = Len(s) - 1 /\ Len(s) \in Nat
    OBVIOUS
  <1> QED BY <1>1

(* The lesser of two numbers is a number below both.                        *)
LEMMA Lessers ==
  ASSUME NEW a \in Nat, NEW b \in Nat
  PROVE  Lesser(a, b) \in Nat /\ Lesser(a, b) <= a /\ Lesser(a, b) <= b
  BY DEF Lesser

(* The size a session asks for is at most --mtu. *)
LEMMA Chosen ==
  ASSUME PeerTyped, NEW p \in Peer
  PROVE  /\ ChooseMtu(p) \in Nat /\ ChooseMtu(p) <= UserMtu
         /\ ceiling[p] \in Nat
  <1>1. ceiling[p] \in Nat /\ UserMtu \in Nat
    BY PlaneNumbers DEF PeerTyped
  <1> QED BY <1>1, Lessers DEF ChooseMtu

(* TunIo::send keeps the queue into the device within its limit.            *)
LEMMA SentTun ==
  ASSUME DeviceTyped, NEW x \in Answer \union Other,
         CanSendTun, SendTun(x), tunUp' = tunUp
  PROVE  DeviceTyped'
  <1>1. Queue \in Nat /\ toTun \in Seq(Answer \union Other) /\ Len(toTun) <= Queue
    BY PlaneNumbers DEF DeviceTyped
  <1>2. CASE tunUp
    <2>1. Len(toTun) < Queue /\ toTun' = Append(toTun, x)
      BY <1>2 DEF CanSendTun, SendTun
    <2>2. toTun' \in Seq(Answer \union Other) /\ Len(toTun') <= Queue
      BY <1>1, <2>1, Queued
    <2> QED BY <2>2 DEF DeviceTyped
  <1>3. CASE ~tunUp
    BY <1>3 DEF DeviceTyped, SendTun
  <1> QED BY <1>2, <1>3

(* enqueue_peer keeps the queue of every peer within its limit.             *)
LEMMA Enqueued ==
  ASSUME OutTyped, NEW p \in Peer, NEW k \in Packet, Enqueue(p, k)
  PROVE  OutTyped'
  <1>1. Queue \in Nat /\ outQ \in [Peer -> Seq(Packet)] /\ outQ[p] \in Seq(Packet)
    BY PlaneNumbers DEF OutTyped
  <1>2. CASE outQ' = outQ
    BY <1>2 DEF OutTyped
  <1>3. CASE Len(outQ[p]) < Queue /\ outQ' = [outQ EXCEPT ![p] = Append(outQ[p], k)]
    <2> DEFINE q == Append(outQ[p], k)
    <2>1. q \in Seq(Packet) /\ Len(q) <= Queue
      BY <1>1, <1>3, Queued
    <2> HIDE DEF q
    <2>2. /\ outQ' \in [Peer -> Seq(Packet)] /\ outQ'[p] = q
          /\ \A r \in Peer \ {p} : outQ'[r] = outQ[r]
      BY <1>1, <1>3, <2>1 DEF q
    <2> QED BY <2>1, <2>2 DEF OutTyped
  <1> QED BY <1>2, <1>3 DEF Enqueue

(* A sender that is not idle has the record of the packet it refused. *)
LEMMA Refusing ==
  ASSUME PeerTyped, NEW p \in Peer, sender[p].at \in {"shrink", "note", "icmp"}
  PROVE  sender[p] \in [at : {"shrink", "note", "icmp"}, own : BOOLEAN, next : Nat]
  BY DEF PeerTyped, SenderState, Idle, Waiting

(* A sender task moves from one of its states to another.                   *)
LEMMA SenderMoves ==
  ASSUME PeerTyped, NEW p \in Peer, NEW r \in SenderState, SenderAt(p, r)
  PROVE  sender' \in [Peer -> SenderState]
  BY DEF PeerTyped, SenderAt

(* Every step of the plane preserves the invariant.                         *)
LEMMA PlaneStep ==
  ASSUME PlaneInv, PlaneNext
  PROVE  PlaneInv'
  <1> USE PlaneNumbers
  <1> USE DEF mtuVars, queueVars, timeVars
  <1>0. MtuTyped /\ DeviceTyped /\ ReadTyped /\ OutTyped /\ PeerTyped /\ TimeTyped /\ MtuInv
    BY TypeParts DEF PlaneInv
  <1>1. CASE TunWrite
    <2>1. DeviceTyped'
      BY <1>0, <1>1, Unqueued DEF TunWrite, DeviceTyped
    <2>2. PeerTyped'
      <3> DEFINE h == Head(toTun)
      <3>1. h \in Answer \union Other /\ pmtu \in [Peer -> Nat]
        BY <1>0, <1>1, Unqueued DEF TunWrite, DeviceTyped, PeerTyped
      <3>2. ASSUME NEW p \in Peer, h.for = p
            PROVE  h.mtu \in Nat /\ Greater(h.mtu, IPV6_MIN) \in Nat
        BY <3>1, <3>2 DEF Answer, Other, Greater, IPV6_MIN
      <3>3. pmtu' = [p \in Peer |-> IF h.for = p THEN IF p \in V6 THEN Greater(h.mtu, IPV6_MIN)
                                                               ELSE h.mtu
                                    ELSE pmtu[p]]
        BY <1>1 DEF TunWrite
      <3> HIDE DEF h
      <3>4. pmtu' \in [Peer -> Nat]
        BY <3>1, <3>2, <3>3
      <3> QED BY <1>0, <1>1, <3>4 DEF TunWrite, PeerTyped
    <2>3. MtuTyped' /\ ReadTyped' /\ OutTyped' /\ TimeTyped' /\ MtuInv'
      <3>1. MtuTyped'
        BY <1>0, <1>1 DEF TunWrite, MtuTyped
      <3>2. ReadTyped'
        BY <1>0, <1>1 DEF TunWrite, ReadTyped
      <3>3. OutTyped'
        BY <1>0, <1>1 DEF TunWrite, OutTyped
      <3>4. TimeTyped'
        BY <1>0, <1>1 DEF TunWrite, TimeTyped
      <3>5. MtuInv'
        BY <1>0, <1>1 DEF TunWrite, MtuInv
      <3> QED BY <3>1, <3>2, <3>3, <3>4, <3>5
    <2> QED BY <2>1, <2>2, <2>3, TypeParts DEF PlaneInv
  <1>2. CASE TunPush
    <2>1. MtuTyped' /\ DeviceTyped' /\ ReadTyped' /\ OutTyped' /\ PeerTyped' /\ TimeTyped' /\ MtuInv'
      <3>1. MtuTyped'
        BY <1>0, <1>2 DEF TunPush, MtuTyped
      <3>2. DeviceTyped'
        BY <1>0, <1>2 DEF TunPush, DeviceTyped
      <3>3. ReadTyped'
        BY <1>0, <1>2 DEF TunPush, ReadTyped
      <3>4. OutTyped'
        BY <1>0, <1>2 DEF TunPush, OutTyped
      <3>5. PeerTyped'
        BY <1>0, <1>2 DEF TunPush, PeerTyped
      <3>6. TimeTyped'
        BY <1>0, <1>2 DEF TunPush, TimeTyped
      <3>7. MtuInv'
        BY <1>0, <1>2 DEF TunPush, MtuInv
      <3> QED BY <3>1, <3>2, <3>3, <3>4, <3>5, <3>6, <3>7
    <2> QED BY <2>1, TypeParts DEF PlaneInv
  <1>3. CASE TunFails
    <2>1. DeviceTyped'
      <3>1. /\ <<>> \in Seq(Answer \union Other) /\ Len(<<>>) = 0 /\ 0 <= Queue
        OBVIOUS
      <3> QED BY <1>3, <3>1 DEF TunFails, DeviceTyped
    <2>2. MtuTyped' /\ ReadTyped' /\ OutTyped' /\ PeerTyped' /\ TimeTyped' /\ MtuInv'
      <3>1. MtuTyped'
        BY <1>0, <1>3 DEF TunFails, MtuTyped
      <3>2. ReadTyped'
        BY <1>0, <1>3 DEF TunFails, ReadTyped
      <3>3. OutTyped'
        BY <1>0, <1>3 DEF TunFails, OutTyped
      <3>4. PeerTyped'
        BY <1>0, <1>3 DEF TunFails, PeerTyped
      <3>5. TimeTyped'
        BY <1>0, <1>3 DEF TunFails, TimeTyped
      <3>6. MtuInv'
        BY <1>0, <1>3 DEF TunFails, MtuInv
      <3> QED BY <3>1, <3>2, <3>3, <3>4, <3>5, <3>6
    <2> QED BY <2>1, <2>2, TypeParts DEF PlaneInv
  <1>4. CASE FanOut
    <2>1. ReadTyped'
      BY <1>0, <1>4 DEF FanOut, ReadTyped
    <2>2. OutTyped'
      <3>1. Head(fromTun) \in Packet
        BY <1>0, <1>4 DEF FanOut, ReadTyped
      <3>2. Head(fromTun).to \in Peer
        BY <3>1 DEF Packet
      <3> QED BY <1>0, <1>4, <3>1, <3>2, Enqueued DEF FanOut
    <2>3. MtuTyped' /\ DeviceTyped' /\ PeerTyped' /\ TimeTyped' /\ MtuInv'
      <3>1. MtuTyped'
        BY <1>0, <1>4 DEF FanOut, MtuTyped
      <3>2. DeviceTyped'
        BY <1>0, <1>4 DEF FanOut, DeviceTyped
      <3>3. PeerTyped'
        BY <1>0, <1>4 DEF FanOut, PeerTyped
      <3>4. TimeTyped'
        BY <1>0, <1>4 DEF FanOut, TimeTyped
      <3>5. MtuInv'
        BY <1>0, <1>4 DEF FanOut, MtuInv
      <3> QED BY <3>1, <3>2, <3>3, <3>4, <3>5
    <2> QED BY <2>1, <2>2, <2>3, TypeParts DEF PlaneInv
  <1>5. CASE Tick
    <2>1. TimeTyped'
      <3>1. ASSUME NEW p \in Peer
            PROVE  /\ (IF Sleeping(p) THEN slept[p] + 1 ELSE slept[p]) \in 0..Recheck
                   /\ (IF p \in live THEN Lesser(age[p] + 1, MaxAge) ELSE 0) \in 0..MaxAge
        <4>1. slept[p] \in 0..Recheck /\ age[p] \in 0..MaxAge /\ (Sleeping(p) => slept[p] < Recheck)
          BY <1>0, <1>5 DEF Tick, TimeTyped
        <4> QED BY <4>1 DEF Lesser
      <3> QED BY <1>0, <1>5, <3>1 DEF Tick, TimeTyped
    <2>2. MtuTyped' /\ DeviceTyped' /\ ReadTyped' /\ OutTyped' /\ PeerTyped' /\ MtuInv'
      <3>1. MtuTyped'
        BY <1>0, <1>5 DEF Tick, MtuTyped
      <3>2. DeviceTyped'
        BY <1>0, <1>5 DEF Tick, DeviceTyped
      <3>3. ReadTyped'
        BY <1>0, <1>5 DEF Tick, ReadTyped
      <3>4. OutTyped'
        BY <1>0, <1>5 DEF Tick, OutTyped
      <3>5. PeerTyped'
        BY <1>0, <1>5 DEF Tick, PeerTyped
      <3>6. MtuInv'
        BY <1>0, <1>5 DEF Tick, MtuInv
      <3> QED BY <3>1, <3>2, <3>3, <3>4, <3>5, <3>6
    <2> QED BY <2>1, <2>2, TypeParts DEF PlaneInv
  <1>6. ASSUME NEW p \in Peer, SessionUp(p) PROVE PlaneInv'
    <2>1. MtuTyped' /\ MtuInv'
      <3>1. (\E ok \in BOOLEAN : SetMtu(ChooseMtu(p), ok)) \/ KeepMtu
        BY <1>6 DEF SessionUp
      <3>2. ChooseMtu(p) \in Nat /\ ChooseMtu(p) <= UserMtu
        BY <1>0, Chosen
      <3>3. hold' = hold /\ cut' = cut
        BY <1>6 DEF SessionUp
      <3> QED BY <1>0, <3>1, <3>2, <3>3, MtuMoves
    <2>2. TimeTyped'
      <3>1. budget' \in 0..Budget
        <4>1. (\E ok \in BOOLEAN : SetMtu(ChooseMtu(p), ok)) \/ KeepMtu
          BY <1>6 DEF SessionUp
        <4>2. ChooseMtu(p) \in Nat /\ ChooseMtu(p) <= UserMtu /\ hold' = hold /\ cut' = cut
          BY <1>0, <1>6, Chosen DEF SessionUp
        <4> QED BY <1>0, <4>1, <4>2, MtuMoves
      <3> QED BY <1>0, <1>6, <3>1 DEF SessionUp, TimeTyped
    <2>3. DeviceTyped' /\ ReadTyped' /\ OutTyped' /\ PeerTyped'
      <3>1. DeviceTyped'
        BY <1>0, <1>6 DEF SessionUp, DeviceTyped
      <3>2. ReadTyped'
        BY <1>0, <1>6 DEF SessionUp, ReadTyped
      <3>3. OutTyped'
        BY <1>0, <1>6 DEF SessionUp, OutTyped
      <3>4. PeerTyped'
        BY <1>0, <1>6 DEF SessionUp, PeerTyped
      <3> QED BY <3>1, <3>2, <3>3, <3>4
    <2> QED BY <2>1, <2>2, <2>3, TypeParts DEF PlaneInv
  <1>7. ASSUME NEW p \in Peer, SessionDown(p) PROVE PlaneInv'
    <2>1. MtuTyped' /\ DeviceTyped' /\ ReadTyped' /\ OutTyped' /\ PeerTyped' /\ TimeTyped' /\ MtuInv'
      <3>1. MtuTyped'
        BY <1>0, <1>7 DEF SessionDown, MtuTyped
      <3>2. DeviceTyped'
        BY <1>0, <1>7 DEF SessionDown, DeviceTyped
      <3>3. ReadTyped'
        BY <1>0, <1>7 DEF SessionDown, ReadTyped
      <3>4. OutTyped'
        BY <1>0, <1>7 DEF SessionDown, OutTyped
      <3>5. PeerTyped'
        BY <1>0, <1>7 DEF SessionDown, PeerTyped
      <3>6. TimeTyped'
        BY <1>0, <1>7 DEF SessionDown, TimeTyped
      <3>7. MtuInv'
        BY <1>0, <1>7 DEF SessionDown, MtuInv
      <3> QED BY <3>1, <3>2, <3>3, <3>4, <3>5, <3>6, <3>7
    <2> QED BY <2>1, TypeParts DEF PlaneInv
  <1>8. ASSUME NEW p \in Peer, TunRead(p) PROVE PlaneInv'
    <2>1. ReadTyped'
      <3> DEFINE k == [to |-> p, len |-> Lesser(Offered(p), UserMtu + Headroom), own |-> TRUE]
      <3>1. k \in Packet
        <4>1. device \in Nat /\ pmtu[p] \in Nat /\ UserMtu + Headroom \in Nat
          BY <1>0 DEF MtuTyped, PeerTyped, Headroom
        <4>2. Lesser(Offered(p), UserMtu + Headroom) \in Nat
          BY <4>1, Lessers DEF Offered
        <4> QED BY <4>2 DEF Packet
      <3>2. \/ Len(fromTun) < Queue /\ fromTun' = Append(fromTun, k) /\ held' = held
            \/ fromTun' = fromTun /\ held' = <<k>>
        BY <1>8 DEF TunRead
      <3> HIDE DEF k
      <3>3. CASE Len(fromTun) < Queue /\ fromTun' = Append(fromTun, k) /\ held' = held
        BY <1>0, <3>1, <3>3, Queued DEF ReadTyped
      <3>4. CASE fromTun' = fromTun /\ held' = <<k>>
        BY <1>0, <3>1, <3>4 DEF ReadTyped
      <3> QED BY <3>2, <3>3, <3>4
    <2>2. MtuInv'
      <3>1. UNCHANGED <<cell, device>> /\ cut' = (cut \/ Offered(p) > UserMtu + Headroom)
        BY <1>8 DEF TunRead
      <3>2. ASSUME Floor <= UserMtu + Headroom PROVE ~(Offered(p) > UserMtu + Headroom)
        <4>1. /\ device \in Nat /\ pmtu[p] \in Nat /\ device <= Greater(UserMtu, Floor)
          BY <1>0 DEF MtuTyped, PeerTyped, MtuInv
        <4>2. Offered(p) \in Nat /\ Offered(p) <= device
          BY <4>1, Lessers DEF Offered
        <4>3. Greater(UserMtu, Floor) \in Nat /\ Greater(UserMtu, Floor) <= UserMtu + Headroom
          BY <3>2 DEF Greater, Headroom
        <4> QED BY <4>1, <4>2, <4>3 DEF Headroom
      <3> QED BY <1>0, <3>1, <3>2 DEF MtuInv
    <2>3. MtuTyped' /\ DeviceTyped' /\ OutTyped' /\ PeerTyped' /\ TimeTyped'
      <3>1. MtuTyped'
        BY <1>0, <1>8 DEF TunRead, MtuTyped
      <3>2. DeviceTyped'
        BY <1>0, <1>8 DEF TunRead, DeviceTyped
      <3>3. OutTyped'
        BY <1>0, <1>8 DEF TunRead, OutTyped
      <3>4. PeerTyped'
        BY <1>0, <1>8 DEF TunRead, PeerTyped
      <3>5. TimeTyped'
        BY <1>0, <1>8 DEF TunRead, TimeTyped
      <3> QED BY <3>1, <3>2, <3>3, <3>4, <3>5
    <2> QED BY <2>1, <2>2, <2>3, TypeParts DEF PlaneInv
  <1>9. ASSUME NEW p \in Peer, Send(p) PROVE PlaneInv'
    <2>1. PeerTyped'
      <3> DEFINE r == [at |-> "shrink", own |-> Head(outQ[p]).own, next |-> ceiling[p]]
      <3>1. Head(outQ[p]) \in Packet
        BY <1>0, <1>9 DEF Send, OutTyped
      <3>2. r \in SenderState
        <4>1. ceiling[p] \in Nat
          BY <1>0, Chosen
        <4> QED BY <3>1, <4>1 DEF Packet, SenderState
      <3>3. SenderAt(p, r) \/ sender' = sender \/ SenderAt(p, Waiting)
        BY <1>9 DEF Send
      <3>a. Waiting \in SenderState
        BY DEF SenderState
      <3>4. sender' \in [Peer -> SenderState]
        BY <1>0, <3>a, <3>2, <3>3, SenderMoves DEF PeerTyped
      <3> QED BY <1>0, <1>9, <3>4 DEF Send, PeerTyped
    <2>2. MtuTyped' /\ DeviceTyped' /\ ReadTyped' /\ OutTyped' /\ TimeTyped' /\ MtuInv'
      <3>1. MtuTyped'
        BY <1>0, <1>9 DEF Send, MtuTyped
      <3>2. DeviceTyped'
        BY <1>0, <1>9 DEF Send, DeviceTyped
      <3>3. ReadTyped'
        BY <1>0, <1>9 DEF Send, ReadTyped
      <3>4. OutTyped'
        BY <1>0, <1>9 DEF Send, OutTyped
      <3>5. TimeTyped'
        BY <1>0, <1>9 DEF Send, TimeTyped
      <3>6. MtuInv'
        BY <1>0, <1>9 DEF Send, MtuInv
      <3> QED BY <3>1, <3>2, <3>3, <3>4, <3>5, <3>6
    <2> QED BY <2>1, <2>2, TypeParts DEF PlaneInv
  <1>10. ASSUME NEW p \in Peer, ShrinkTunMtu(p) PROVE PlaneInv'
    <2>1. MtuTyped' /\ MtuInv'
      <3> DEFINE m == IF sender[p].next < cell THEN sender[p].next ELSE cell
      <3>1. sender[p].next \in Nat /\ cell \in Nat /\ cell <= UserMtu
        BY <1>0, <1>10, Refusing DEF ShrinkTunMtu, MtuTyped, MtuInv
      <3>2. m \in Nat /\ m <= UserMtu
        BY <3>1
      <3>3. (\E ok \in BOOLEAN : SetMtu(m, ok)) \/ KeepMtu
        BY <1>10 DEF ShrinkTunMtu
      <3>4. hold' = hold /\ cut' = cut
        BY <1>10 DEF ShrinkTunMtu
      <3> HIDE DEF m
      <3> QED BY <1>0, <3>2, <3>3, <3>4, MtuMoves
    <2>2. PeerTyped'
      <3>1. sender[p] \in [at : {"shrink", "note", "icmp"}, own : BOOLEAN, next : Nat]
        BY <1>0, <1>10, Refusing DEF ShrinkTunMtu
      <3>2. \E s \in {"note", "icmp"} : SenderAt(p, [sender[p] EXCEPT !.at = s])
        BY <1>10 DEF ShrinkTunMtu
      <3>3. \A s \in {"note", "icmp"} : [sender[p] EXCEPT !.at = s] \in SenderState
        BY <3>1 DEF SenderState
      <3>4. sender' \in [Peer -> SenderState]
        BY <1>0, <3>2, <3>3, SenderMoves
      <3> QED BY <1>0, <1>10, <3>4 DEF ShrinkTunMtu, PeerTyped
    <2>3. TimeTyped'
      <3>1. \/ \E ok \in BOOLEAN : SetMtu(sender[p].next, ok)
            \/ KeepMtu
        BY <1>10 DEF ShrinkTunMtu
      <3>2. budget' \in 0..Budget
        BY <1>0, <3>1 DEF SetMtu, KeepMtu, TimeTyped
      <3> QED BY <1>0, <1>10, <3>2 DEF ShrinkTunMtu, TimeTyped
    <2>4. DeviceTyped' /\ ReadTyped' /\ OutTyped'
      <3>1. DeviceTyped'
        BY <1>0, <1>10 DEF ShrinkTunMtu, DeviceTyped
      <3>2. ReadTyped'
        BY <1>0, <1>10 DEF ShrinkTunMtu, ReadTyped
      <3>3. OutTyped'
        BY <1>0, <1>10 DEF ShrinkTunMtu, OutTyped
      <3> QED BY <3>1, <3>2, <3>3
    <2> QED BY <2>1, <2>2, <2>3, <2>4, TypeParts DEF PlaneInv
  <1>11. ASSUME NEW p \in Peer, NoteMtuShrink(p) PROVE PlaneInv'
    <2>1. PeerTyped'
      <3>1. sender[p] \in [at : {"shrink", "note", "icmp"}, own : BOOLEAN, next : Nat]
        BY <1>0, <1>11, Refusing DEF NoteMtuShrink
      <3>2. SenderAt(p, [sender[p] EXCEPT !.at = "icmp"])
        BY <1>11 DEF NoteMtuShrink
      <3>3. [sender[p] EXCEPT !.at = "icmp"] \in SenderState
        BY <3>1 DEF SenderState
      <3>4. sender' \in [Peer -> SenderState]
        BY <1>0, <3>2, <3>3, SenderMoves
      <3> QED BY <1>0, <1>11, <3>4 DEF NoteMtuShrink, PeerTyped
    <2>2. MtuTyped' /\ DeviceTyped' /\ ReadTyped' /\ OutTyped' /\ TimeTyped' /\ MtuInv'
      <3>1. MtuTyped'
        BY <1>0, <1>11 DEF NoteMtuShrink, MtuTyped
      <3>2. DeviceTyped'
        BY <1>0, <1>11 DEF NoteMtuShrink, DeviceTyped
      <3>3. ReadTyped'
        BY <1>0, <1>11 DEF NoteMtuShrink, ReadTyped
      <3>4. OutTyped'
        BY <1>0, <1>11 DEF NoteMtuShrink, OutTyped
      <3>5. TimeTyped'
        BY <1>0, <1>11 DEF NoteMtuShrink, TimeTyped
      <3>6. MtuInv'
        BY <1>0, <1>11 DEF NoteMtuShrink, MtuInv
      <3> QED BY <3>1, <3>2, <3>3, <3>4, <3>5, <3>6
    <2> QED BY <2>1, <2>2, TypeParts DEF PlaneInv
  <1>12. ASSUME NEW p \in Peer, InjectIcmp(p) PROVE PlaneInv'
    <2>1. DeviceTyped'
      <3>1. sender[p] \in [at : {"shrink", "note", "icmp"}, own : BOOLEAN, next : Nat]
        BY <1>0, <1>12, Refusing DEF InjectIcmp
      <3>2. IcmpFor(p) \in Answer \union Other
        BY <3>1 DEF IcmpFor, Answer, Other
      <3>3. tunUp' = tunUp /\ (toTun' = toTun \/ (CanSendTun /\ SendTun(IcmpFor(p))))
        BY <1>12 DEF InjectIcmp
      <3>4. CASE toTun' = toTun
        BY <1>0, <3>3, <3>4 DEF DeviceTyped
      <3>5. CASE CanSendTun /\ SendTun(IcmpFor(p))
        BY <1>0, <3>2, <3>3, <3>5, SentTun
      <3> QED BY <3>3, <3>4, <3>5
    <2>2. PeerTyped'
      <3>1. SenderAt(p, Idle) /\ Idle \in SenderState
        BY <1>12 DEF InjectIcmp, SenderState
      <3>2. sender' \in [Peer -> SenderState]
        BY <1>0, <3>1, SenderMoves
      <3>3. icmps' \in [Peer -> 0..IcmpRate]
        BY <1>0, <1>12 DEF InjectIcmp, PeerTyped
      <3> QED BY <1>0, <1>12, <3>2, <3>3 DEF InjectIcmp, PeerTyped
    <2>3. MtuTyped' /\ ReadTyped' /\ OutTyped' /\ TimeTyped' /\ MtuInv'
      <3>1. MtuTyped'
        BY <1>0, <1>12 DEF InjectIcmp, MtuTyped
      <3>2. ReadTyped'
        BY <1>0, <1>12 DEF InjectIcmp, ReadTyped
      <3>3. OutTyped'
        BY <1>0, <1>12 DEF InjectIcmp, OutTyped
      <3>4. TimeTyped'
        BY <1>0, <1>12 DEF InjectIcmp, TimeTyped
      <3>5. MtuInv'
        BY <1>0, <1>12 DEF InjectIcmp, MtuInv
      <3> QED BY <3>1, <3>2, <3>3, <3>4, <3>5
    <2> QED BY <2>1, <2>2, <2>3, TypeParts DEF PlaneInv
  <1>13. ASSUME NEW p \in Peer, ReadLocal(p) PROVE PlaneInv'
    <2>1. DeviceTyped'
      <3>1. [for |-> "other"] \in Answer \union Other
        BY DEF Other
      <3>2. tunUp' = tunUp /\ (toTun' = toTun \/ (CanSendTun /\ SendTun([for |-> "other"])))
        BY <1>13 DEF ReadLocal
      <3>3. CASE toTun' = toTun
        BY <1>0, <3>2, <3>3 DEF DeviceTyped
      <3>4. CASE CanSendTun /\ SendTun([for |-> "other"])
        BY <1>0, <3>1, <3>2, <3>4, SentTun
      <3> QED BY <3>2, <3>3, <3>4
    <2>2. MtuTyped' /\ ReadTyped' /\ OutTyped' /\ PeerTyped' /\ TimeTyped' /\ MtuInv'
      <3>1. MtuTyped'
        BY <1>0, <1>13 DEF ReadLocal, MtuTyped
      <3>2. ReadTyped'
        BY <1>0, <1>13 DEF ReadLocal, ReadTyped
      <3>3. OutTyped'
        BY <1>0, <1>13 DEF ReadLocal, OutTyped
      <3>4. PeerTyped'
        BY <1>0, <1>13 DEF ReadLocal, PeerTyped
      <3>5. TimeTyped'
        BY <1>0, <1>13 DEF ReadLocal, TimeTyped
      <3>6. MtuInv'
        BY <1>0, <1>13 DEF ReadLocal, MtuInv
      <3> QED BY <3>1, <3>2, <3>3, <3>4, <3>5, <3>6
    <2> QED BY <2>1, <2>2, TypeParts DEF PlaneInv
  <1>14. ASSUME NEW p \in Peer, ReadDropped(p) PROVE PlaneInv'
    <2>1. MtuTyped' /\ DeviceTyped' /\ ReadTyped' /\ OutTyped' /\ PeerTyped' /\ TimeTyped' /\ MtuInv'
      <3>1. MtuTyped'
        BY <1>0, <1>14 DEF ReadDropped, MtuTyped
      <3>2. DeviceTyped'
        BY <1>0, <1>14 DEF ReadDropped, DeviceTyped
      <3>3. ReadTyped'
        BY <1>0, <1>14 DEF ReadDropped, ReadTyped
      <3>4. OutTyped'
        BY <1>0, <1>14 DEF ReadDropped, OutTyped
      <3>5. PeerTyped'
        BY <1>0, <1>14 DEF ReadDropped, PeerTyped
      <3>6. TimeTyped'
        BY <1>0, <1>14 DEF ReadDropped, TimeTyped
      <3>7. MtuInv'
        BY <1>0, <1>14 DEF ReadDropped, MtuInv
      <3> QED BY <3>1, <3>2, <3>3, <3>4, <3>5, <3>6, <3>7
    <2> QED BY <2>1, TypeParts DEF PlaneInv
  <1>15. ASSUME NEW p \in Peer, Deliver(p) PROVE PlaneInv'
    <2>1. DeviceTyped'
      <3>1. [for |-> "other"] \in Answer \union Other
        BY DEF Other
      <3>2. tunUp' = tunUp /\ (toTun' = toTun \/ (CanSendTun /\ SendTun([for |-> "other"])))
        BY <1>15 DEF Deliver
      <3>3. CASE toTun' = toTun
        BY <1>0, <3>2, <3>3 DEF DeviceTyped
      <3>4. CASE CanSendTun /\ SendTun([for |-> "other"])
        BY <1>0, <3>1, <3>2, <3>4, SentTun
      <3> QED BY <3>2, <3>3, <3>4
    <2>2. MtuTyped' /\ ReadTyped' /\ OutTyped' /\ PeerTyped' /\ TimeTyped' /\ MtuInv'
      <3>1. MtuTyped'
        BY <1>0, <1>15 DEF Deliver, MtuTyped
      <3>2. ReadTyped'
        BY <1>0, <1>15 DEF Deliver, ReadTyped
      <3>3. OutTyped'
        BY <1>0, <1>15 DEF Deliver, OutTyped
      <3>4. PeerTyped'
        BY <1>0, <1>15 DEF Deliver, PeerTyped
      <3>5. TimeTyped'
        BY <1>0, <1>15 DEF Deliver, TimeTyped
      <3>6. MtuInv'
        BY <1>0, <1>15 DEF Deliver, MtuInv
      <3> QED BY <3>1, <3>2, <3>3, <3>4, <3>5, <3>6
    <2> QED BY <2>1, <2>2, TypeParts DEF PlaneInv
  <1>16. ASSUME NEW p \in Peer, Refresh(p) PROVE PlaneInv'
    <2>1. MtuTyped' /\ MtuInv'
      <3>1. (\E ok \in BOOLEAN : SetMtu(ChooseMtu(p), ok)) \/ KeepMtu
        BY <1>16 DEF Refresh, RaiseMtu
      <3>2. ChooseMtu(p) \in Nat /\ ChooseMtu(p) <= UserMtu
        BY <1>0, Chosen
      <3>3. hold' = hold /\ cut' = cut
        BY <1>16 DEF Refresh
      <3> QED BY <1>0, <3>1, <3>2, <3>3, MtuMoves
    <2>2. TimeTyped'
      <3>1. budget' \in 0..Budget
        <4>1. (\E ok \in BOOLEAN : SetMtu(ChooseMtu(p), ok)) \/ KeepMtu
          BY <1>16 DEF Refresh, RaiseMtu
        <4>2. ChooseMtu(p) \in Nat /\ ChooseMtu(p) <= UserMtu /\ hold' = hold /\ cut' = cut
          BY <1>0, <1>16, Chosen DEF Refresh
        <4> QED BY <1>0, <4>1, <4>2, MtuMoves
      <3> QED BY <1>0, <1>16, <3>1 DEF Refresh, TimeTyped
    <2>3. DeviceTyped' /\ ReadTyped' /\ OutTyped' /\ PeerTyped'
      <3>1. DeviceTyped'
        BY <1>0, <1>16 DEF Refresh, DeviceTyped
      <3>2. ReadTyped'
        BY <1>0, <1>16 DEF Refresh, ReadTyped
      <3>3. OutTyped'
        BY <1>0, <1>16 DEF Refresh, OutTyped
      <3>4. PeerTyped'
        BY <1>0, <1>16 DEF Refresh, PeerTyped
      <3> QED BY <3>1, <3>2, <3>3, <3>4
    <2> QED BY <2>1, <2>2, <2>3, TypeParts DEF PlaneInv
  <1>17. ASSUME NEW p \in Peer, PathMoves(p) PROVE PlaneInv'
    <2>1. MtuTyped' /\ DeviceTyped' /\ ReadTyped' /\ OutTyped' /\ PeerTyped' /\ TimeTyped' /\ MtuInv'
      <3>1. MtuTyped'
        BY <1>0, <1>17 DEF PathMoves, MtuTyped
      <3>2. DeviceTyped'
        BY <1>0, <1>17 DEF PathMoves, DeviceTyped
      <3>3. ReadTyped'
        BY <1>0, <1>17 DEF PathMoves, ReadTyped
      <3>4. OutTyped'
        BY <1>0, <1>17 DEF PathMoves, OutTyped
      <3>5. PeerTyped'
        BY <1>0, <1>17 DEF PathMoves, PeerTyped
      <3>6. TimeTyped'
        BY <1>0, <1>17 DEF PathMoves, TimeTyped
      <3>7. MtuInv'
        BY <1>0, <1>17 DEF PathMoves, MtuInv
      <3> QED BY <3>1, <3>2, <3>3, <3>4, <3>5, <3>6, <3>7
    <2> QED BY <2>1, TypeParts DEF PlaneInv
  <1>18. ASSUME NEW p \in Peer, PmtuExpires(p) PROVE PlaneInv'
    <2>1. PeerTyped'
      <3>1. Unlearned \in Nat
        BY DEF Unlearned
      <3> QED BY <1>0, <1>18, <3>1 DEF PmtuExpires, PeerTyped
    <2>2. MtuTyped' /\ DeviceTyped' /\ ReadTyped' /\ OutTyped' /\ TimeTyped' /\ MtuInv'
      <3>1. MtuTyped'
        BY <1>0, <1>18 DEF PmtuExpires, MtuTyped
      <3>2. DeviceTyped'
        BY <1>0, <1>18 DEF PmtuExpires, DeviceTyped
      <3>3. ReadTyped'
        BY <1>0, <1>18 DEF PmtuExpires, ReadTyped
      <3>4. OutTyped'
        BY <1>0, <1>18 DEF PmtuExpires, OutTyped
      <3>5. TimeTyped'
        BY <1>0, <1>18 DEF PmtuExpires, TimeTyped
      <3>6. MtuInv'
        BY <1>0, <1>18 DEF PmtuExpires, MtuInv
      <3> QED BY <3>1, <3>2, <3>3, <3>4, <3>5, <3>6
    <2> QED BY <2>1, <2>2, TypeParts DEF PlaneInv
  <1>19. ASSUME NEW p \in Peer, NEW q \in Peer, ReadForwarded(p, q) PROVE PlaneInv'
    <2>1. OutTyped'
      <3>1. [to |-> q, len |-> Lesser(UserMtu, ceiling[p]), own |-> FALSE] \in Packet
        <4>1. Lesser(UserMtu, ceiling[p]) \in Nat
          BY <1>0, Chosen, Lessers
        <4> QED BY <4>1 DEF Packet
      <3> QED BY <1>0, <1>19, <3>1, Enqueued DEF ReadForwarded
    <2>2. MtuTyped' /\ DeviceTyped' /\ ReadTyped' /\ PeerTyped' /\ TimeTyped' /\ MtuInv'
      <3>1. MtuTyped'
        BY <1>0, <1>19 DEF ReadForwarded, MtuTyped
      <3>2. DeviceTyped'
        BY <1>0, <1>19 DEF ReadForwarded, DeviceTyped
      <3>3. ReadTyped'
        BY <1>0, <1>19 DEF ReadForwarded, ReadTyped
      <3>4. PeerTyped'
        BY <1>0, <1>19 DEF ReadForwarded, PeerTyped
      <3>5. TimeTyped'
        BY <1>0, <1>19 DEF ReadForwarded, TimeTyped
      <3>6. MtuInv'
        BY <1>0, <1>19 DEF ReadForwarded, MtuInv
      <3> QED BY <3>1, <3>2, <3>3, <3>4, <3>5, <3>6
    <2> QED BY <2>1, <2>2, TypeParts DEF PlaneInv
  <1>20. ASSUME NEW p \in Peer, SendEnds(p) PROVE PlaneInv'
    <2>1. PeerTyped'
      <3>1. SenderAt(p, Idle) /\ Idle \in SenderState
        BY <1>20 DEF SendEnds, SenderState
      <3>2. sender' \in [Peer -> SenderState]
        BY <1>0, <3>1, SenderMoves
      <3> QED BY <1>0, <1>20, <3>2 DEF SendEnds, PeerTyped
    <2>2. MtuTyped' /\ MtuInv'
      BY <1>0, <1>20 DEF SendEnds, MtuTyped, MtuInv
    <2>3. DeviceTyped' /\ ReadTyped'
      BY <1>0, <1>20 DEF SendEnds, DeviceTyped, ReadTyped
    <2>4. OutTyped' /\ TimeTyped'
      BY <1>0, <1>20 DEF SendEnds, OutTyped, TimeTyped
    <2> QED BY <2>1, <2>2, <2>3, <2>4, TypeParts DEF PlaneInv
  <1> QED BY <1>1, <1>2, <1>3, <1>4, <1>5, <1>6, <1>7, <1>8, <1>9, <1>10, <1>11, <1>12, <1>13,
             <1>14, <1>15, <1>16, <1>17, <1>18, <1>19, <1>20 DEF PlaneNext, SenderStep

(* So does a step that changes nothing.                                     *)
LEMMA PlaneStutter ==
  ASSUME PlaneInv, UNCHANGED planeVars
  PROVE  PlaneInv'
  <1> USE DEF planeVars, mtuVars, queueVars, timeVars
  <1>0. MtuTyped /\ DeviceTyped /\ ReadTyped /\ OutTyped /\ PeerTyped /\ TimeTyped /\ MtuInv
    BY TypeParts DEF PlaneInv
  <1>1. MtuTyped' /\ MtuInv'
    BY <1>0 DEF MtuTyped, MtuInv
  <1>2. DeviceTyped' /\ ReadTyped'
    BY <1>0 DEF DeviceTyped, ReadTyped
  <1>3. OutTyped' /\ TimeTyped'
    BY <1>0 DEF OutTyped, TimeTyped
  <1>4. PeerTyped'
    BY <1>0 DEF PeerTyped
  <1> QED BY <1>1, <1>2, <1>3, <1>4, TypeParts DEF PlaneInv

(* Every queue of the packet plane keeps to TUN_PKT_QUEUE, every sender to   *)
(* its ICMP rate, and every variable to its type (enqueue_peer and           *)
(* TunIo::send, tun/mod.rs; the ICMP window of spawn_peer_sender).           *)
THEOREM PlaneStaysBounded == PlaneSpec => []PlaneTypeOK
  <1>1. PlaneInit => PlaneInv
    BY InitPlaneInv
  <1>2. PlaneInv /\ [PlaneNext]_(planeVars) => PlaneInv'
    BY PlaneStep, PlaneStutter
  <1>3. PlaneInv => PlaneTypeOK
    BY DEF PlaneInv
  <1> QED BY <1>1, <1>2, <1>3, PTL DEF PlaneSpec

(* Where the platform's least MTU is within the read buffer's headroom of    *)
(* --mtu, no packet is longer than the buffer it is read into: neither a     *)
(* session, a shrink nor a refresh takes the interface above that            *)
(* (choose_tun_mtu, shrink_tun_mtu and refresh_tun_mtu, tun/mod.rs).         *)
THEOREM MtuStaysBounded ==
  Floor <= UserMtu + Headroom => (PlaneSpec => []MtuBoundKept)
  <1> SUFFICES ASSUME Floor <= UserMtu + Headroom
               PROVE  PlaneSpec => []MtuBoundKept
    OBVIOUS
  <1>1. PlaneInit => PlaneInv
    BY InitPlaneInv
  <1>2. PlaneInv /\ [PlaneNext]_(planeVars) => PlaneInv'
    BY PlaneStep, PlaneStutter
  <1>3. PlaneInv => MtuBoundKept
    BY DEF PlaneInv, MtuInv, MtuBoundKept
  <1> QED BY <1>1, <1>2, <1>3, PTL DEF PlaneSpec
=============================================================================
