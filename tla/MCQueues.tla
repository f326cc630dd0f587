------------------------------ MODULE MCQueues ------------------------------
(***************************************************************************)
(* The modules that share out channels and slots, for one run:             *)
(* "component" chooses which of them runs, the variables of the others     *)
(* keep their initial values.                                              *)
(***************************************************************************)
EXTENDS Naturals

CONSTANTS
    None, Waiters, Keepers, Execs, Shells, Gens, ExecMaxRetries, Connections, Folders,
    Background, SlotChoices,
    SemaphoreMax, SemaphoreRecover,  \* InitialMax, RecoverAfter of the semaphore
    GuardMax, GuardRecover           \* and of those of the guard

VARIABLES
    component,   \* the one that runs
    sem, caller,
    sems, currentGen, call, execActivity,
    queue, running, priority, cancelledAll, maxSlots, preloadQueue

cVars == <<sem, caller>>
gVars == <<sems, currentGen, call, execActivity>>
qVars == <<queue, running, priority, cancelledAll, maxSlots, preloadQueue>>
vars  == <<component, cVars, gVars, qVars>>

C == INSTANCE ChannelSemaphore WITH
         Callers <- Waiters, InitialMax <- SemaphoreMax, RecoverAfter <- SemaphoreRecover
G == INSTANCE CommandGuard WITH
         Callers <- Execs \cup Shells, NoGen <- None, InitialMax <- GuardMax,
         RecoverAfter <- GuardRecover, current <- currentGen, activity <- execActivity
Q == INSTANCE PriorityQueueService

First(set) == CHOOSE x \in set : TRUE

ASSUME ConstantsAssumption ==
    /\ C!InitialMaxAssumption
    /\ C!RecoverAssumption
    /\ C!CallersAssumption
    /\ G!InitialMaxAssumption
    /\ G!RecoverAssumption
    /\ G!CallersAssumption
    /\ G!GensAssumption
    /\ G!RetryAssumption
    /\ Q!SlotsAssumption
    /\ Q!TasksAssumption

Components == {"semaphore", "guard", "preloads"}

\* Only the component that runs has more than one initial state.
Init ==
    /\ component \in Components
    /\ C!Init
    /\ G!Init
    /\ Q!Init /\ (component # "preloads" => maxSlots = First(SlotChoices))

Next ==
    \/ /\ component = "semaphore" /\ C!Next
       /\ UNCHANGED <<component, gVars, qVars>>
    \/ /\ component = "guard" /\ G!Next
       /\ UNCHANGED <<component, cVars, qVars>>
    \/ /\ component = "preloads" /\ Q!Next
       /\ UNCHANGED <<component, cVars, gVars>>

Spec == Init /\ [][Next]_vars

------------------------------------------------------------------------------
(* Fairness, as in the modules. *)
SemaphoreFairness ==
    /\ \A c \in Waiters \ Keepers : WF_cVars(component = "semaphore" /\ C!Release(c))
    /\ \A c \in Waiters : WF_cVars(component = "semaphore" /\ C!Timeout(c))

GuardFairness ==
    /\ \A e \in Execs : WF_gVars(component = "guard" /\ G!ExecStep(e))
    /\ \A s \in Shells : WF_gVars(component = "guard" /\ G!ShellStep(s))

PreloadFairness ==
    \A k \in Connections, t \in Q!Tasks :
        WF_qVars(component = "preloads" /\ Q!FinishSome(k, t))

FairSpec == Spec /\ SemaphoreFairness /\ GuardFairness /\ PreloadFairness

------------------------------------------------------------------------------
(* Properties: those of the modules, which say what they are about. Waiters,  *)
(* commands and folders are alike: for what must happen, one stands for all.  *)

\* Every module's variables have their types: a semaphore's ceiling stays between
\* one and the configured number, and a key of FileTreeProvider stands for a task
\* of PriorityQueueService.
TypesOK ==
    /\ component = "semaphore" => C!TypeOK
    /\ component = "guard" => G!TypeOK
    /\ component = "preloads" => Q!TypeOK /\ Q!KeysHaveTasks

\* ChannelSemaphore counts the slots that are held, queues exactly those that wait,
\* and lets nobody wait on an idle semaphore: beside free slots somebody may wait,
\* after a ceiling rise, but then a holder's release will wake them.
SlotsTrue ==
    /\ C!NoSlotLeak /\ C!QueueIsWaiting /\ C!NoStrandedWaiter /\ C!WithinConfigured

\* CommandGuard loses no slot of the live semaphore, and no activity outlives its
\* command.
GuardTrue == G!LiveSlotsCounted /\ G!ActivityEnds

\* PriorityQueueService keeps the reserved slots free and leaves nothing waiting
\* that may run.
ReservedSlots == Q!ReservedSlots /\ Q!NothingRunnableLeft

\* A HIGH task of PriorityQueueService starts.
HighStarts == Q!HighStarts(First(Connections), First(Folders))

\* Every waiter of a semaphore is answered (ChannelSemaphore.acquire), unless it
\* waits without a timeout for slots that open shells hold. One of each kind stands
\* for all.
WaiterSettles ==
    \A c \in {First(Keepers), First(Waiters \ Keepers)} : C!WaiterSettles(c)

\* Every exec ends (CommandGuard.exec).
ExecSettles == G!ExecSettles(First(Execs))
==============================================================================
